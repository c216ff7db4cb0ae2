---------------------------- MODULE StringBuffer -----------------------------
(***************************************************************************)
(* lib/strbuf.c: the buffer in which the scanner and the parser put a      *)
(* string together from pieces and from single characters.                 *)
(***************************************************************************)
EXTENDS Memory

CONSTANTS
  Chars,      \* the characters, with NUL
  NUL,        \* the character that ends a C string
  Pieces,     \* what is appended at once: C strings, without their NUL
  BlockSize,  \* STRING_BLOCK_SIZE, a power of two
  MaxText     \* bound on the length of the text

ASSUME BufferAssumption ==
  /\ NUL \in Chars /\ Garbage \notin Chars
  /\ Pieces \subseteq Seq(Chars \ {NUL})
  /\ BlockSize \in Nat \ {0}
  /\ MaxText \in Nat

VARIABLES
  string,       \* buf->string
  bufLength,    \* buf->length
  bufCapacity,  \* buf->capacity
  text          \* what was appended since the buffer was released

bufVars == <<string, bufLength, bufCapacity, text>>

BufInit == string = NoArray /\ bufLength = 0 /\ bufCapacity = 0 /\ text = <<>>

\* Mutant: no room is counted for the NUL.
NeededForText(len) == bufLength + len
(* newlen                                                                  *)
Needed(len) == bufLength + len + 1

InBlocks(n) == ((n + BlockSize - 1) \div BlockSize) * BlockSize

(* libconfig_strbuf_ensure_capacity(), then chars are written at the end.  *)
Put(chars, len) ==
  /\ bufLength + len <= MaxText
  /\ bufCapacity' = IF Needed(len) > bufCapacity THEN InBlocks(Needed(len)) ELSE bufCapacity
  /\ string' = Written(Reallocated(string, bufCapacity'), bufLength, Append(chars, NUL))
  /\ bufLength' = bufLength + len
  /\ text' = text \o chars

AppendString(s) == Put(s, Len(s))

(* The character may be NUL: "\x00".                                       *)
AppendChar(c) == Put(<<c>>, 1)

(* libconfig_strbuf_release(): the caller owns the string.                 *)
ReleaseString ==
  string' = NoArray /\ bufLength' = 0 /\ bufCapacity' = 0 /\ text' = <<>>

BufNext ==
  \/ \E s \in Pieces : AppendString(s)
  \/ \E c \in Chars : AppendChar(c)
  \/ ReleaseString

BufSpec == BufInit /\ [][BufNext]_bufVars

-----------------------------------------------------------------------------
BufTypeOK ==
  /\ bufLength \in Nat /\ bufCapacity \in Nat
  /\ string \in [0 .. bufCapacity - 1 -> Chars \cup {Garbage}]
  /\ text \in Seq(Chars)

(* However the pieces come, an allocated buffer has all that was appended  *)
(* and, inside its capacity, the NUL behind it, so that a string may be    *)
(* released at any time.                                                   *)
HoldsTheText ==
  /\ bufLength = Len(text)
  /\ bufCapacity = 0 => text = <<>>
  /\ bufCapacity # 0 =>
       /\ bufLength < bufCapacity /\ string[bufLength] = NUL
       /\ \A i \in 0 .. bufLength - 1 : string[i] = text[i + 1]
=============================================================================
