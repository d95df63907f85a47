------------------------------- MODULE MCGBuffer -------------------------------
(***************************************************************************)
(* Instances of GBuffer with bytes 0 to 31, of which those below 24 stand  *)
(* for themselves.                                                         *)
(***************************************************************************)
EXTENDS GBuffer, FiniteSetsExt

Str(s) == <<"str", s>>
List(s) == <<"list", s>>

\* Of every type one, with numbers of one, two and three bytes; strings that meet
\* the end of the buffer; what cannot be encoded, alone and inside a list.
SomeValues ==
  {<<"int", 5>>, <<"int", -20>>, <<"float", 33>>, <<"bool", FALSE>>,
   Str(<<>>), Str(<<1, 30>>), <<"bytes", <<7>>>>,
   <<"ints", <<-1, 300>>>>, <<"uints", <<9, 25>>>>,
   <<"floats", <<64>>>>,
   List(<<<<"int", 2>>, List(<<>>), Str(<<4>>)>>), List(<<<<"uints", <<1>>>>>>),
   <<"strdict", <<<<<<2>>, <<"int", 3>>>>>>>>, <<"intdict", <<<<-1, Str(<<6>>)>>>>>>,
   <<"strdict", <<>>>>, <<"none", 0>>, List(<<<<"none", 0>>>>)}

\* The values in a value, and how deeply they are nested.
PartsOf(e) ==
  CASE Type(e) = "list" -> Range(Content(e))
    [] Type(e) \in {"strdict", "intdict"} -> {p[2] : p \in Range(Content(e))}
    [] OTHER -> {}

RECURSIVE DepthOf(_)
DepthOf(e) == IF PartsOf(e) = {} THEN 0 ELSE 1 + Max({DepthOf(x) : x \in PartsOf(e)})

WithParts(E) == E \cup UNION {PartsOf(e) : e \in E}
SomeElements == WithParts(WithParts(SomeValues))
SomeDepth == [e \in SomeElements |-> DepthOf(e)]
===============================================================================
