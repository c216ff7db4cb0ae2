------------------------------ MODULE ScanBuffer ------------------------------
(***************************************************************************)
(* yylex() of lib/scanner.c with its buffers: the texts of files are read  *)
(* in portions, a token that is cut by the end of a portion is moved to    *)
(* the front and completed, buffers grow, the character behind a token is  *)
(* held while the token is used, and buffers are switched at @include and  *)
(* at the end of a file.                                                   *)
(*                                                                         *)
(* Buffers are kept in the order of inclusion; the last one is current.    *)
(* Positions in a buffer are counted from 0, as in C.                      *)
(***************************************************************************)
EXTENDS ScanRules, FiniteSetsExt

CONSTANTS
  Disks,      \* the contents files may have: functions from names to texts
  Included,   \* Included[path]: the files the include function returns
  MAX_INCLUDE_DEPTH,  \* 10
  Garbage,    \* the value of memory that nobody wrote
  BufSize,    \* YY_BUF_SIZE: 16384
  ReadSize    \* YY_READ_BUF_SIZE: 8192

ASSUME SizeAssumption == BufSize \in Nat \ {0} /\ ReadSize \in Nat \ {0}
ASSUME GarbageAssumption == Garbage \in Characters
ASSUME DepthAssumption == MAX_INCLUDE_DEPTH \in Nat
ASSUME DiskAssumption ==
  \A disk \in Disks :
    /\ DOMAIN disk \subseteq STRING /\ "main" \in DOMAIN disk
    /\ \A f \in DOMAIN disk : disk[f] \in Seq(Characters)
ASSUME IncludedAssumption == \A path \in DOMAIN Included : Included[path] \in Seq(STRING)

VARIABLES
  files,      \* the texts of the files
  bufs,       \* the buffers that exist
  lists,      \* for each buffer but the first, the files that follow it
  cBufP,      \* yy_c_buf_p: the position behind the current token
  textPtr,    \* yytext_ptr: the beginning of the current token
  holdChar,   \* yy_hold_char: what was at cBufP before the 0
  nChars,     \* yy_n_chars: the characters in the current buffer
  lastAccepting,  \* yy_last_accepting_state and _cpos
  state,      \* yy_current_state
  act,        \* yy_act
  condition,  \* yy_start as the name of the start condition
  string,     \* the string gathered in the scan context
  out,        \* the tokens that were returned
  inlined,    \* the characters that were scanned, without those of directives
  pc          \* "token": at the head of the loop; "match": goes on with a
              \* token; "act": at the switch; "eof": at the end-of-file rule;
              \* "ended" or "failed"

cursor == <<cBufP, textPtr, holdChar, nChars>>
vars == <<files, bufs, lists, cursor, lastAccepting, state, act, condition, string,
          out, inlined, pc>>

EOB == 0        \* YY_END_OF_BUFFER_CHAR

Buf == Last(bufs)
SetBuf(b) == [bufs EXCEPT ![Len(bufs)] = b]

Put(ch, i, c) == [ch EXCEPT ![i] = c]
Between(ch, first, last) == [i \in 1 .. last - first + 1 |-> ch[first + i - 1]]

-----------------------------------------------------------------------------
(* Buffers.                                                                *)

(* yy_flush_buffer() within yy_init_buffer()                               *)
Flushed(b) ==
  [b EXCEPT !.ch = Put(Put(@, 0, EOB), 1, EOB), !.n = 0, !.pos = 0, !.bol = TRUE,
            !.status = "NEW"]

(* yy_create_buffer(): room for two more characters, which end the buffer. *)
Created(f) ==
  Flushed([ch |-> [i \in 0 .. BufSize + 1 |-> Garbage], size |-> BufSize, n |-> 0,
           pos |-> 0, bol |-> TRUE, line |-> 1, fill |-> TRUE, status |-> "NEW",
           file |-> f, read |-> 0])

(* yy_scan_string(): a copy that is never filled; __config_read() sets the *)
(* line.                                                                   *)
ScanString(text) ==
  [ch |-> [i \in 0 .. Len(text) + 1 |-> IF i < Len(text) THEN text[i + 1] ELSE EOB],
   size |-> Len(text), n |-> Len(text), pos |-> 0, bol |-> TRUE, line |-> 1,
   fill |-> FALSE, status |-> "NEW", file |-> "main", read |-> Len(text)]

(* yy_load_buffer_state() of the buffer b.                                 *)
Load(b) ==
  /\ nChars' = b.n /\ textPtr' = b.pos /\ cBufP' = b.pos /\ holdChar' = b.ch[b.pos]

(* What yy_switch_to_buffer() stores in the buffer that is left.           *)
Left(b) == [b EXCEPT !.ch = Put(@, cBufP, holdChar), !.pos = cBufP, !.n = nChars]

Init ==
  /\ files \in Disks
  /\ \/ bufs = <<Created("main")>>
     \/ UpToNul(files["main"]) = files["main"] /\ bufs = <<ScanString(files["main"])>>
  /\ lists = <<>>
  /\ nChars = Buf.n /\ textPtr = 0 /\ cBufP = 0 /\ holdChar = Buf.ch[0]
  /\ lastAccepting = <<0, 0>> /\ state = 0 /\ act = 0
  /\ condition = "INITIAL" /\ string = <<>> /\ out = <<>> /\ inlined = <<>>
  /\ pc = "token"

-----------------------------------------------------------------------------
(* Matching.                                                               *)

(* The loop yy_match from state s at position i: where it accepted last.   *)
(* It stops behind the two characters that end the buffer, if not before.  *)
Matched(ch, s, i, accepting) ==
  LET end == Max(DOMAIN ch) + 1
  IN LastAccepted(Way(ch, TRUE, s, i, end), end, accepting)

(* yy_get_previous_state(): the state behind the characters from `first' to*)
(* the one before `end', and where it accepted before.                     *)
PreviousState(ch, s, first, end, accepting) ==
  LET way == Way(ch, FALSE, s, first, end)
  IN <<way[end], LastAccepted(way, end - 1, accepting)>>

(* yy_find_action in state s at position i, and YY_DO_BEFORE_ACTION with   *)
(* the token beginning at `first' of the buffer b.                         *)
FindAction(b, s, i, first) ==
  /\ state' = s /\ act' = Accepts(state')
  /\ textPtr' = first /\ cBufP' = i
  /\ holdChar' = b.ch[cBufP']
  /\ LET lines == IF CountsLines(act')
                  THEN Newlines(Between(b.ch, textPtr', cBufP' - 1)) ELSE 0
     IN bufs' = SetBuf([b EXCEPT !.ch = Put(@, cBufP', 0), !.line = @ + lines])
  /\ pc' = "act"

Unread == UNCHANGED <<files, lists, condition, string, out, inlined>>

BeginToken ==
  /\ pc = "token"
  /\ LET b == [Buf EXCEPT !.ch = Put(@, cBufP, holdChar)]
     IN /\ lastAccepting' = Matched(b.ch, StartOf(condition, b.bol), cBufP, lastAccepting)
        /\ FindAction(b, lastAccepting'[1], lastAccepting'[2], cBufP)
  /\ UNCHANGED nChars
  /\ Unread

ContinueToken ==
  /\ pc = "match"
  /\ lastAccepting' = Matched(Buf.ch, state, cBufP, lastAccepting)
  /\ FindAction(Buf, lastAccepting'[1], lastAccepting'[2], textPtr)
  /\ UNCHANGED nChars
  /\ Unread

\* Mutant: it goes back to where it is.
BackUpNowhere ==
  /\ pc = "act" /\ act = 0
  /\ FindAction([Buf EXCEPT !.ch = Put(@, cBufP, holdChar)], state, cBufP, textPtr)
  /\ UNCHANGED <<nChars, lastAccepting>>
  /\ Unread

(* case 0: the state that was reached at the end of the file accepts       *)
(* nothing.                                                                *)
BackUp ==
  /\ pc = "act" /\ act = 0
  /\ FindAction([Buf EXCEPT !.ch = Put(@, cBufP, holdChar)],
                lastAccepting[1], lastAccepting[2], textPtr)
  /\ UNCHANGED <<nChars, lastAccepting>>
  /\ Unread

-----------------------------------------------------------------------------
(* The end of the buffer.                                                  *)

(* The buffer as the end was found in it, with the held character restored;*)
(* a new one becomes a normal one.                                         *)
AtEnd ==
  [Buf EXCEPT !.ch = Put(@, cBufP, holdChar),
              !.status = IF @ = "NEW" THEN "NORMAL" ELSE @]
CharsAtEnd == IF Buf.status = "NEW" THEN Buf.n ELSE nChars

FoundEnd == pc = "act" /\ act = YY_END_OF_BUFFER

(* The character 0 was a part of the text.                                 *)
NulInText ==
  /\ FoundEnd /\ cBufP <= CharsAtEnd
  /\ LET end == cBufP - 1
         before == PreviousState(AtEnd.ch, StartOf(condition, Buf.bol), textPtr, end,
                                 lastAccepting)
         accepting == IF Accepts(before[1]) # 0 THEN <<before[1], end>> ELSE before[2]
         next == NextState[before[1]][ClassOf(0)]
     IN /\ lastAccepting' = accepting
        /\ IF next # JAM
           THEN /\ state' = next /\ cBufP' = end + 1 /\ pc' = "match"
                /\ bufs' = SetBuf(AtEnd)
                /\ UNCHANGED <<textPtr, holdChar, act>>
           ELSE FindAction(AtEnd, lastAccepting'[1], lastAccepting'[2], textPtr)
  /\ nChars' = CharsAtEnd
  /\ Unread

(* EOB_ACT_LAST_MATCH with n characters in the buffer b, the token         *)
(* beginning at `first'.                                                   *)
LastMatch(b, n, first) ==
  LET before == PreviousState(b.ch, StartOf(condition, b.bol), first, n, lastAccepting)
  IN /\ lastAccepting' = before[2]
     /\ nChars' = n
     /\ FindAction(b, before[1], n, first)

(* EOB_ACT_END_OF_FILE                                                     *)
EndOfFile(b, first) ==
  /\ bufs' = SetBuf(b)
  /\ textPtr' = first /\ cBufP' = first
  /\ pc' = "eof"
  /\ UNCHANGED <<act, state, lastAccepting>>

(* yy_get_next_buffer() of a string: there is no more.                     *)
EndOfString ==
  /\ FoundEnd /\ cBufP > CharsAtEnd /\ ~Buf.fill
  /\ IF cBufP - textPtr = 1
     THEN EndOfFile(AtEnd, textPtr) /\ nChars' = CharsAtEnd /\ UNCHANGED holdChar
     ELSE LastMatch(AtEnd, CharsAtEnd, textPtr)
  /\ Unread

(* The token that was begun, at the front of the buffer.                   *)
Moved == Between(AtEnd.ch, textPtr, cBufP - 2)

(* The size of the buffer when it has room for one more character.         *)
GrownSize[size \in Nat \ {0}] ==
  IF size - Len(Moved) - 1 <= 0 THEN GrownSize[2 * size] ELSE size

\* Mutant: fread() fills what is left of the buffer.
RoomToRead(size) == size + 2 - Len(Moved)
NumToRead(size) == Min({size - Len(Moved) - 1, ReadSize})

(* fread(): the characters of the file that come next.                     *)
Portion(b, most) == SubSeq(files[b.file], b.read + 1, Min({b.read + most, Len(files[b.file])}))

(* The memory of a buffer of the given size with the text and its end; what*)
(* is behind that is left as it was.                                       *)
Filled(b, size, text) ==
  [i \in 0 .. size + 1 |->
     IF i < Len(text) THEN text[i + 1]
     ELSE IF i <= Len(text) + 1 THEN EOB
     ELSE IF i \in DOMAIN b.ch THEN b.ch[i] ELSE Garbage]

\* Mutant: the end of the file comes before the token that was begun.
ReadMoreForgetting ==
  /\ FoundEnd /\ cBufP > CharsAtEnd /\ Buf.fill
  /\ LET pending == Buf.status = "EOF_PENDING"
         size == IF pending THEN Buf.size ELSE GrownSize[Buf.size]
         read == IF pending THEN <<>> ELSE Portion(Buf, NumToRead(size))
         text == Moved \o read
         b == [AtEnd EXCEPT !.size = size, !.n = Len(read), !.read = @ + Len(read),
                            !.ch = Filled(AtEnd, size, text)]
     IN IF read # <<>>
        THEN /\ bufs' = SetBuf(b)
             /\ state' = PreviousState(b.ch, StartOf(condition, b.bol), 0, Len(Moved), lastAccepting)[1]
             /\ textPtr' = 0 /\ cBufP' = Len(Moved) /\ nChars' = Len(text)
             /\ pc' = "match"
             /\ UNCHANGED <<holdChar, act, lastAccepting>>
        ELSE /\ EndOfFile(Flushed(b), 0) /\ nChars' = 0 /\ holdChar' = EOB
  /\ Unread

(* yy_get_next_buffer() of a file.                                         *)
ReadMore ==
  /\ FoundEnd /\ cBufP > CharsAtEnd /\ Buf.fill
  /\ LET pending == Buf.status = "EOF_PENDING"
         size == IF pending THEN Buf.size ELSE GrownSize[Buf.size]
         read == IF pending THEN <<>> ELSE Portion(Buf, NumToRead(size))
         text == Moved \o read
         b == [AtEnd EXCEPT !.size = size, !.n = Len(read), !.read = @ + Len(read),
                            !.ch = Filled(AtEnd, size, text)]
     IN IF read # <<>>
        THEN \* EOB_ACT_CONTINUE_SCAN
             /\ bufs' = SetBuf(b)
             /\ textPtr' = 0 /\ cBufP' = Len(Moved) /\ nChars' = Len(text)
             /\ LET before == PreviousState(Buf'.ch, StartOf(condition, Buf.bol), 0, cBufP',
                                            lastAccepting)
                IN state' = before[1] /\ lastAccepting' = before[2]
             /\ pc' = "match"
             /\ UNCHANGED <<holdChar, act>>
        ELSE IF Moved = <<>>
        THEN \* yyrestart()
             /\ EndOfFile(Flushed(b), 0) /\ nChars' = 0 /\ holdChar' = EOB
        ELSE LastMatch([b EXCEPT !.status = "EOF_PENDING"], Len(text), 0)
  /\ Unread

-----------------------------------------------------------------------------
(* The code of the rules.                                                  *)

YyText == Between(Buf.ch, textPtr, cBufP - 1)
(* YY_RULE_SETUP                                                           *)
SetUp == [Buf EXCEPT !.bol = Last(YyText) = Newline]
AtRule == pc = "act" /\ act \notin {0, YY_END_OF_BUFFER}

Inlines(rule) == IF rule \in DirectiveRules THEN <<>> ELSE YyText

RunRule ==
  /\ AtRule /\ act # 26
  /\ bufs' = SetBuf(SetUp)
  /\ condition' = ConditionAfter(act, condition)
  /\ string' = StringAfter(act, string, YyText)
  /\ out' = out \o Delivered(act, string, YyText)
  /\ inlined' = inlined \o Inlines(act)
  /\ pc' = "token"
  /\ UNCHANGED <<files, lists, cursor, lastAccepting, state, act>>

(* libconfig_scanctx_push_include() finds files, or none without an error. *)
CanInclude(path) ==
  /\ Len(lists) < MAX_INCLUDE_DEPTH
  /\ path \in DOMAIN Included
  /\ Included[path] # <<>> => Head(Included[path]) \in DOMAIN files

(* The end of a directive: the first of its files gets a buffer.           *)
PushInclude ==
  /\ AtRule /\ act = 26
  /\ string' = <<>>
  /\ LET path == UpToNul(string)
     IN IF ~CanInclude(path)
        THEN /\ bufs' = SetBuf(SetUp) /\ pc' = "failed"
             /\ UNCHANGED <<lists, condition, cursor>>
        ELSE /\ condition' = "INITIAL" /\ pc' = "token"
             /\ IF Included[path] = <<>>
                THEN bufs' = SetBuf(SetUp) /\ UNCHANGED <<lists, cursor>>
                ELSE LET b == Created(Head(Included[path]))
                     IN /\ bufs' = Append(SetBuf(Left(SetUp)), b)
                        /\ lists' = Append(lists, Tail(Included[path]))
                        /\ Load(b)
  /\ UNCHANGED <<files, lastAccepting, state, act, out, inlined>>

(* The end-of-file rule: the next file of the list, in a buffer of its own.*)
NextFile ==
  /\ pc = "eof" /\ lists # <<>> /\ Last(lists) # <<>>
  /\ IF Head(Last(lists)) \in DOMAIN files
     THEN /\ LET b == Created(Head(Last(lists)))
             IN bufs' = SetBuf(b) /\ Load(b)
          /\ lists' = [lists EXCEPT ![Len(lists)] = Tail(@)]
          /\ pc' = "token"
     ELSE pc' = "failed" /\ UNCHANGED <<bufs, lists, cursor>>
  /\ UNCHANGED <<files, lastAccepting, state, act, condition, string, out, inlined>>

\* Mutant: a file ends in the start condition it began in.
PopIncludeInitially ==
  /\ pc = "eof" /\ lists # <<>> /\ Last(lists) = <<>>
  /\ bufs' = Front(bufs) /\ lists' = Front(lists)
  /\ Load(Last(bufs'))
  /\ condition' = "INITIAL"
  /\ pc' = "token"
  /\ UNCHANGED <<files, lastAccepting, state, act, string, out, inlined>>

(* Back to the buffer of the directive.                                    *)
PopInclude ==
  /\ pc = "eof" /\ lists # <<>> /\ Last(lists) = <<>>
  /\ bufs' = Front(bufs) /\ lists' = Front(lists)
  /\ Load(Last(bufs'))
  /\ pc' = "token"
  /\ UNCHANGED <<files, lastAccepting, state, act, condition, string, out, inlined>>

(* yyterminate()                                                           *)
Terminate ==
  /\ pc = "eof" /\ lists = <<>>
  /\ out' = Append(out, <<"EOF", <<>> >>)
  /\ pc' = "ended"
  /\ UNCHANGED <<files, bufs, lists, cursor, lastAccepting, state, act, condition,
                 string, inlined>>

Next ==
  \/ BeginToken \/ ContinueToken \/ BackUp
  \/ NulInText \/ EndOfString \/ ReadMore
  \/ RunRule \/ PushInclude \/ NextFile \/ PopInclude \/ Terminate

(* The parser asks for tokens until the text ends; nobody else runs.       *)
Spec == Init /\ [][Next]_vars /\ WF_vars(Next)

-----------------------------------------------------------------------------
(* Correctness.                                                            *)

(* The buffer with the held character in its place.                        *)
Restored(i) == IF i = Len(bufs) /\ pc # "match" /\ pc # "eof"
               THEN Put(bufs[i].ch, cBufP, holdChar) ELSE bufs[i].ch
CharsIn(i) == IF i < Len(bufs) \/ bufs[i].status = "NEW" THEN bufs[i].n ELSE nChars

(* Every buffer ends with two characters 0 within its memory, where the    *)
(* matching loop is bound to stop, and the cursor is not behind them.      *)
BuffersEnd ==
  /\ \A i \in DOMAIN bufs :
       LET b == bufs[i]
           n == CharsIn(i)
       IN /\ DOMAIN b.ch = 0 .. b.size + 1
          /\ n <= b.size
          /\ Restored(i)[n] = EOB /\ Restored(i)[n + 1] = EOB
  /\ textPtr <= cBufP
  /\ cBufP <= CharsIn(Len(bufs)) + 1

(* What is in a buffer is the part of its file that was read last: nothing *)
(* is lost, doubled or cut when tokens are moved and buffers grow or are   *)
(* switched.                                                               *)
BuffersHoldTheText ==
  \A i \in DOMAIN bufs :
    LET b == bufs[i]
        n == CharsIn(i)
    IN Between(Restored(i), 0, n - 1) = SubSeq(files[b.file], b.read - n + 1, b.read)

(* The characters of its file that were used from a buffer, up to the token*)
(* at work.                                                                *)
Used(i) ==
  LET begin == IF i < Len(bufs) THEN bufs[i].pos ELSE 
                  IF pc \in {"token", "failed"} THEN cBufP ELSE textPtr
  IN bufs[i].read - CharsIn(i) + begin

(* The line of a buffer counts the line breaks of its file up to the end of*)
(* the current token.                                                      *)
LinesAreCounted ==
  \A i \in DOMAIN bufs :
    LET token == IF i = Len(bufs) /\ AtRule THEN cBufP - textPtr ELSE 0
    IN bufs[i].line = 1 + Newlines(SubSeq(files[bufs[i].file], 1, Used(i) + token))

(* Buffers end where the loop stops, hold what was read and count lines.   *)
BuffersAreSound == BuffersEnd /\ BuffersHoldTheText /\ LinesAreCounted

(* The tokens are those of the text in which every directive is replaced by*)
(* its files, whatever the files leave open: the manual says that the      *)
(* contents of the file appear at the point of the directive.              *)
ReadsTheInlinedText == pc = "ended" => out = TokensOf(inlined)

(* Every text comes to its end.                                            *)
ScanTerminates == <>(pc \in {"ended", "failed"})

(* The scanner implements Lexer: refills and the size of buffers do not    *)
(* show.                                                                   *)
OpenFiles ==
  [k \in DOMAIN bufs |->
     LET i == Len(bufs) + 1 - k
     IN [file |-> bufs[i].file, at |-> Used(i) + 1,
         next |-> IF i = 1 THEN <<>> ELSE lists[i - 1]]]

Tokens ==
  INSTANCE Lexer WITH
    open <- OpenFiles,
    status <- IF pc \in {"ended", "failed"} THEN pc ELSE "scanning"

ImplementsLexer == Tokens!LexerSpec
=============================================================================
