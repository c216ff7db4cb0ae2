-------------------------------- MODULE Lexer --------------------------------
(***************************************************************************)
(* What the scanner promises, without its buffers: files are read token by *)
(* token, each the longest match in its file, an included file in the      *)
(* place of its directive and in the start condition it is met in.         *)
(*                                                                         *)
(* This is the abstract specification of ScanBuffer.                       *)
(***************************************************************************)
EXTENDS ScanRules

CONSTANTS
  Included,  \* Included[path]: the files to read for a directive
  MAX_INCLUDE_DEPTH

VARIABLES
  files,      \* the texts of the files
  open,       \* the files that are read, the innermost first: the place in
              \* each, and the files that follow it in its list
  condition,  \* the start condition
  string,     \* the string gathered in the scan context
  out,        \* the tokens the parser got
  status      \* "scanning", "ended", or "failed" when a directive is wrong

lexerVars == <<files, open, condition, string, out, status>>

FileAt(f, next) == [file |-> f, at |-> 1, next |-> next]

LexerInit ==
  /\ open = <<FileAt("main", <<>>)>>
  /\ condition = "INITIAL" /\ string = <<>> /\ out = <<>> /\ status = "scanning"

TextOf(seg) == files[seg.file]
AtLineStart(seg) == seg.at = 1 \/ TextOf(seg)[seg.at - 1] = Newline

(* The file exists.                                                        *)
Opens(f) == f \in DOMAIN files
CanInclude(path) ==
  /\ Len(open) <= MAX_INCLUDE_DEPTH
  /\ path \in DOMAIN Included
  /\ Included[path] # <<>> => Opens(Head(Included[path]))

(* One token of the innermost file.                                        *)
LexToken ==
  /\ status = "scanning"
  /\ LET seg == Head(open)
         match == Longest(TextOf(seg), seg.at, condition, AtLineStart(seg))
         rule == match[1]
         last == seg.at + match[2] - 1
         text == SubSeq(TextOf(seg), seg.at, last)
         after == <<[seg EXCEPT !.at = last + 1]>> \o Tail(open)
         path == UpToNul(string)
     IN /\ seg.at <= Len(TextOf(seg))
        /\ string' = StringAfter(rule, string, text)
        /\ IF rule = 26 /\ ~CanInclude(path)
           THEN /\ status' = "failed" /\ open' = after
                /\ UNCHANGED <<condition, out>>
           ELSE /\ condition' = ConditionAfter(rule, condition)
                /\ out' = out \o Delivered(rule, string, text)
                /\ open' = IF rule = 26 /\ Included[path] # <<>>
                           THEN <<FileAt(Head(Included[path]), Tail(Included[path]))>> \o after
                           ELSE after
                /\ UNCHANGED status
  /\ UNCHANGED files

(* The next file of a list, or back to the file of the directive.          *)
LexEndOfFile ==
  /\ status = "scanning"
  /\ LET seg == Head(open)
     IN /\ seg.at = Len(TextOf(seg)) + 1
        /\ IF seg.next # <<>> /\ ~Opens(Head(seg.next))
           THEN status' = "failed" /\ UNCHANGED <<open, out>>
           ELSE IF seg.next # <<>>
           THEN /\ open' = <<FileAt(Head(seg.next), Tail(seg.next))>> \o Tail(open)
                /\ UNCHANGED <<out, status>>
           ELSE IF Len(open) > 1
           THEN open' = Tail(open) /\ UNCHANGED <<out, status>>
           ELSE /\ out' = Append(out, <<"EOF", <<>> >>) /\ status' = "ended"
                /\ UNCHANGED open
  /\ UNCHANGED <<files, condition, string>>

LexerSpec == LexerInit /\ [][LexToken \/ LexEndOfFile]_lexerVars
=============================================================================
