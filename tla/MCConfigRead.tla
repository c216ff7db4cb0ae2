---------------------------- MODULE MCConfigRead ----------------------------
(* Instances of ConfigRead for TLC: a handful of files that include each   *)
(* other in lists, nested, in a circle, or that cannot be read to the end. *)
EXTENDS ConfigRead

CONSTANTS main, part, nest, loop, mixed, broken, unlisted,
          list, inner, itself, none, faulty, denied

AllTexts ==
  [f \in {main, part, nest, loop, mixed, broken, unlisted} |->
     CASE f = main     -> <<"setting", list, none, "setting">>
       [] f = part     -> <<"setting">>
       [] f = nest     -> <<inner, "setting">>
       [] f = loop     -> <<"setting", itself>>
       [] f = mixed    -> <<"setting", faulty>>
       [] f = broken   -> <<"setting", "setting", "bad">>
       [] f = unlisted -> <<denied>>]

AllLists ==
  [p \in {list, inner, itself, none, faulty, denied} |->
     [files |-> CASE p = list   -> <<nest, part>>
                  [] p = inner  -> <<part>>
                  [] p = itself -> <<part, loop>>
                  [] p = none   -> <<>>
                  [] p = faulty -> <<part, broken>>
                  [] p = denied -> <<>>,
      error |-> p = denied]]

MCText == [f \in Files |-> AllTexts[f]]
MCIncludeFn == [p \in IncludePaths |-> AllLists[p]]
=============================================================================
