----------------------------- MODULE MCScanBuffer -----------------------------
(* Texts are put together from words that meet in each other's tokens, and *)
(* buffers are so small that every token is cut by their ends.             *)
EXTENDS ScanBuffer, MCScanTables

(* @include "b"                                                            *)
Directive(path) == <<64, 105, 110, 99, 108, 117, 100, 101, 32, 34>> \o path \o <<34, 10>>

MCIncluded == (<<98>> :> <<"b">>) @@ (<<99>> :> <<"b", "c">>) @@ (<<>> :> <<>>)
  @@ (<<101>> :> <<"b", "e">>) @@ (<<102>> :> <<"e">>)

Words == {
  <<10>>, <<34>>, <<92>>, <<0>>,
  <<120, 52, 49>>,       \* x41
  <<49, 46, 53, 101>>,   \* 1.5e
  <<47, 42>>, <<42, 47>>, <<47, 47>> }
Openings == {<<34>>, <<47, 42>>, <<49, 46, 53, 101>>}
Texts == Words \cup {v \o w : v, w \in Words}
Directives == {Directive(path) : path \in {<<98>>, <<99>>, <<100>>, <<101>>, <<102>>, <<>>}}

Endings == {<<>>, <<34, 10>>, <<47, 42, 10>>, <<49, 49, 10>>}
Disk(main, b, c) == ("main" :> main) @@ ("b" :> b) @@ ("c" :> c)
MCDisks ==
  {Disk(v \o w, <<>>, <<>>) : v \in Openings, w \in Texts}
    \cup {Disk(d \o w, b, <<49, 10>>) : d \in Directives, w \in Words, b \in Endings}
    \cup {Disk(Directive(<<99>>) \o <<10>>, b, c) : b, c \in Endings}
    \cup {Disk(Directive(<<98>>) \o <<49>>, Directive(<<>>), <<>>)}
    \cup {Disk(Directive(<<98>>) \o <<34>>, <<10>> \o Directive(<<98>>), <<>>)}
===============================================================================
