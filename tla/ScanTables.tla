------------------------------ MODULE ScanTables ------------------------------
(***************************************************************************)
(* The tables that flex generates from lib/scanner.l, as they stand in     *)
(* lib/scanner.c, and how yylex() looks a transition up in them.           *)
(***************************************************************************)
EXTENDS Integers, Sequences

(* The rule a state accepts, 0 for none.                                   *)
yy_accept == <<
  0, 0, 0, 0, 0, 0, 0, 0, 0, 0, 0, 49, 47, 27, 28, 27, 8, 1, 44, 45, 35, 47,
  30, 36, 47, 37, 37, 29, 46, 35, 35, 42, 43, 31, 32, 28, 47, 3, 2, 6, 7, 6,
  9, 21, 20, 23, 26, 48, 28, 35, 36, 37, 36, 0, 4, 1, 36, 0, 0, 38, 0, 0,
  35, 35, 28, 0, 0, 5, 9, 18, 0, 17, 10, 11, 16, 12, 13, 14, 15, 23, 25, 24,
  0, 36, 36, 0, 39, 0, 36, 38, 40, 41, 35, 35, 0, 0, 0, 36, 39, 39, 40, 40,
  41, 41, 35, 33, 0, 19, 39, 39, 40, 40, 41, 41, 34, 0, 39, 40, 41, 0, 39,
  40, 41, 0, 39, 40, 41, 0, 39, 40, 41, 0, 39, 40, 41, 22, 39, 40, 41, 39,
  40, 41, 39, 40, 41, 39, 40, 41, 39, 40, 41, 39, 40, 41, 39, 40, 41, 39,
  40, 41, 39, 40, 39, 40, 39, 40, 39, 40, 39, 40, 39, 39, 39, 39, 39, 39,
  39, 39, 39, 39, 39, 39, 39, 39, 39, 39, 39, 39, 39, 39, 39, 39, 39, 39,
  39, 39, 39, 39, 39, 39, 39, 39, 39, 39, 39, 39, 39, 39, 39, 39, 39, 39,
  39, 0>>

(* The class of a character.                                               *)
yy_ec == <<
  0, 1, 1, 1, 1, 1, 1, 2, 3, 4, 5, 6, 7, 8, 1, 1, 1, 1, 1, 1, 1, 1, 1, 1, 1,
  1, 1, 1, 1, 1, 1, 1, 4, 1, 9, 10, 1, 1, 1, 1, 11, 12, 13, 14, 15, 16, 17,
  18, 19, 20, 21, 21, 21, 21, 21, 21, 22, 22, 23, 24, 1, 25, 1, 1, 26, 27,
  28, 29, 29, 30, 31, 32, 32, 32, 32, 32, 33, 32, 32, 34, 32, 34, 35, 36,
  37, 38, 32, 32, 39, 32, 32, 40, 41, 42, 1, 43, 1, 44, 45, 46, 47, 48, 49,
  32, 32, 50, 32, 32, 51, 32, 52, 34, 32, 34, 53, 36, 54, 55, 56, 32, 39,
  32, 32, 57, 1, 58, 1, 1, 1, 1, 1, 1, 1, 1, 1, 1, 1, 1, 1, 1, 1, 1, 1, 1,
  1, 1, 1, 1, 1, 1, 1, 1, 1, 1, 1, 1, 1, 1, 1, 1, 1, 1, 1, 1, 1, 1, 1, 1, 1,
  1, 1, 1, 1, 1, 1, 1, 1, 1, 1, 1, 1, 1, 1, 1, 1, 1, 1, 1, 1, 1, 1, 1, 1, 1,
  1, 1, 1, 1, 1, 1, 1, 1, 1, 1, 1, 1, 1, 1, 1, 1, 1, 1, 1, 1, 1, 1, 1, 1, 1,
  1, 1, 1, 1, 1, 1, 1, 1, 1, 1, 1, 1, 1, 1, 1, 1, 1, 1, 1, 1, 1, 1, 1, 1, 1,
  1, 1, 1, 1, 1, 1, 1, 1, 1, 1, 1, 1>>

(* The class of a class, for states that are templates.                    *)
yy_meta == <<
  0, 1, 1, 1, 1, 1, 1, 1, 1, 2, 1, 1, 1, 3, 1, 1, 3, 1, 1, 4, 4, 4, 4, 1, 1,
  1, 1, 4, 4, 4, 4, 4, 3, 5, 3, 3, 3, 3, 3, 3, 1, 2, 1, 3, 4, 4, 4, 4, 4, 4,
  3, 3, 3, 3, 3, 3, 3, 1, 1>>

(* Where the row of a state begins, and the state it goes on with.         *)
yy_base == <<
  0, 0, 55, 422, 415, 55, 56, 53, 54, 55, 56, 412, 607, 607, 393, 607, 607,
  607, 607, 607, 0, 53, 607, 57, 53, 89, 82, 607, 607, 40, 45, 607, 607,
  607, 607, 81, 343, 607, 607, 607, 607, 360, 0, 607, 129, 0, 607, 73, 359,
  0, 70, 123, 127, 144, 607, 607, 167, 101, 179, 315, 105, 0, 80, 78, 125,
  283, 266, 607, 0, 607, 0, 607, 607, 607, 607, 607, 607, 607, 607, 0, 607,
  607, 183, 187, 191, 203, 157, 207, 211, 607, 215, 270, 256, 102, 242, 0,
  221, 225, 218, 240, 233, 238, 237, 187, 106, 0, 167, 607, 230, 607, 236,
  607, 183, 607, 0, 159, 239, 241, 163, 147, 245, 256, 159, 143, 248, 263,
  151, 176, 260, 266, 146, 79, 271, 281, 139, 607, 275, 286, 136, 278, 296,
  134, 290, 301, 129, 293, 311, 128, 305, 316, 126, 308, 326, 122, 320, 331,
  119, 323, 341, 108, 335, 346, 338, 356, 350, 361, 353, 371, 365, 106, 368,
  376, 380, 383, 386, 388, 391, 395, 398, 403, 406, 410, 413, 415, 418, 421,
  425, 430, 433, 436, 440, 442, 445, 448, 451, 457, 460, 463, 466, 468, 472,
  475, 478, 483, 487, 490, 493, 495, 498, 502, 505, 510, 102, 607, 543, 548,
  553, 558, 561, 566, 571, 123, 89, 573, 82, 575, 577, 579, 581, 583, 585,
  587, 589, 591, 593, 595, 597, 599, 601>>
yy_def == <<
  0, 213, 1, 214, 214, 215, 215, 216, 216, 217, 217, 213, 213, 213, 213,
  213, 213, 213, 213, 213, 218, 213, 213, 213, 213, 213, 213, 213, 213, 218,
  218, 213, 213, 213, 213, 213, 213, 213, 213, 213, 213, 213, 219, 213, 213,
  220, 213, 213, 213, 218, 213, 213, 213, 213, 213, 213, 213, 213, 213, 213,
  213, 221, 218, 218, 213, 213, 213, 213, 219, 213, 222, 213, 213, 213, 213,
  213, 213, 213, 213, 220, 213, 213, 213, 213, 213, 213, 213, 213, 213, 213,
  213, 223, 218, 218, 213, 224, 213, 213, 213, 213, 213, 213, 225, 213, 218,
  218, 213, 213, 213, 213, 213, 213, 226, 213, 218, 213, 213, 213, 227, 213,
  213, 213, 228, 213, 213, 213, 229, 213, 213, 213, 230, 213, 213, 213, 231,
  213, 213, 213, 232, 213, 213, 233, 213, 213, 234, 213, 213, 235, 213, 213,
  236, 213, 213, 237, 213, 213, 238, 213, 213, 213, 213, 213, 213, 213, 213,
  213, 213, 213, 213, 213, 213, 213, 213, 213, 213, 213, 213, 213, 213, 213,
  213, 213, 213, 213, 213, 213, 213, 213, 213, 213, 213, 213, 213, 213, 213,
  213, 213, 213, 213, 213, 213, 213, 213, 213, 213, 213, 213, 213, 213, 213,
  213, 213, 213, 0, 213, 213, 213, 213, 213, 213, 213, 213, 213, 213, 213,
  213, 213, 213, 213, 213, 213, 213, 213, 213, 213, 213, 213, 213, 213>>

(* The rows, packed, and the state that owns an entry.                     *)
yy_nxt == <<
  0, 12, 13, 13, 14, 15, 13, 13, 13, 16, 17, 18, 19, 20, 21, 22, 21, 23, 24,
  25, 26, 26, 26, 27, 28, 27, 12, 20, 20, 20, 20, 29, 20, 20, 20, 20, 20,
  30, 20, 20, 31, 12, 32, 12, 20, 20, 20, 20, 20, 29, 20, 20, 20, 20, 30,
  20, 20, 33, 34, 35, 40, 40, 43, 43, 46, 46, 54, 62, 41, 41, 50, 55, 51,
  51, 51, 51, 52, 52, 52, 52, 63, 36, 80, 131, 62, 64, 107, 53, 135, 52, 52,
  52, 52, 95, 44, 44, 47, 47, 63, 56, 53, 51, 51, 51, 51, 53, 56, 65, 51,
  51, 51, 51, 58, 92, 81, 59, 93, 57, 53, 58, 86, 86, 59, 60, 90, 90, 90,
  91, 61, 64, 58, 92, 105, 93, 57, 99, 114, 58, 69, 101, 56, 103, 51, 51,
  51, 51, 52, 52, 52, 52, 105, 65, 103, 58, 114, 103, 59, 53, 82, 103, 82,
  103, 103, 83, 83, 83, 83, 103, 70, 103, 71, 58, 103, 72, 73, 53, 98, 98,
  74, 103, 131, 75, 76, 77, 103, 78, 84, 84, 84, 84, 99, 127, 103, 87, 123,
  87, 103, 85, 88, 88, 88, 88, 83, 83, 83, 83, 83, 83, 83, 83, 84, 84, 84,
  84, 119, 85, 103, 96, 115, 96, 113, 85, 97, 97, 97, 97, 88, 88, 88, 88,
  88, 88, 88, 88, 100, 100, 100, 108, 108, 85, 97, 97, 97, 97, 97, 97, 97,
  97, 101, 116, 116, 99, 110, 110, 110, 117, 117, 117, 120, 120, 121, 121,
  121, 99, 124, 124, 101, 128, 128, 101, 103, 111, 99, 109, 101, 125, 125,
  125, 99, 132, 132, 99, 129, 129, 129, 133, 133, 133, 106, 101, 136, 136,
  104, 99, 139, 139, 101, 142, 142, 101, 137, 137, 137, 103, 99, 140, 140,
  140, 99, 145, 145, 99, 148, 148, 101, 143, 143, 143, 94, 101, 146, 146,
  146, 99, 151, 151, 99, 154, 154, 101, 149, 149, 149, 66, 101, 152, 152,
  152, 99, 157, 157, 99, 160, 160, 101, 155, 155, 155, 89, 101, 158, 158,
  158, 99, 162, 162, 99, 164, 164, 101, 161, 161, 161, 48, 101, 163, 163,
  163, 99, 166, 166, 99, 168, 168, 101, 165, 165, 165, 67, 101, 167, 167,
  167, 99, 170, 170, 99, 171, 171, 101, 169, 169, 169, 66, 101, 172, 172,
  48, 99, 173, 173, 99, 174, 174, 101, 175, 175, 176, 176, 99, 177, 177,
  213, 99, 178, 178, 99, 179, 179, 99, 38, 99, 180, 180, 99, 181, 181, 38,
  99, 182, 182, 99, 183, 183, 184, 184, 99, 185, 185, 99, 186, 186, 213, 99,
  187, 187, 99, 213, 99, 188, 188, 99, 189, 189, 99, 190, 190, 213, 99, 191,
  191, 192, 192, 99, 193, 193, 99, 194, 194, 99, 195, 195, 213, 99, 213, 99,
  196, 196, 99, 197, 197, 99, 198, 198, 99, 199, 199, 200, 200, 213, 99,
  201, 201, 99, 202, 202, 99, 203, 203, 99, 213, 99, 204, 204, 213, 99, 205,
  205, 99, 206, 206, 99, 207, 207, 208, 208, 99, 209, 209, 213, 99, 210,
  210, 99, 211, 211, 99, 213, 99, 212, 212, 99, 213, 213, 213, 99, 213, 213,
  99, 213, 213, 213, 213, 99, 37, 37, 37, 37, 37, 39, 39, 39, 39, 39, 42,
  42, 42, 42, 42, 45, 45, 45, 45, 45, 49, 49, 49, 68, 213, 68, 68, 68, 79,
  213, 79, 79, 79, 102, 102, 112, 112, 118, 118, 122, 122, 126, 126, 130,
  130, 134, 134, 138, 138, 141, 141, 144, 144, 147, 147, 150, 150, 153, 153,
  156, 156, 159, 159, 11, 213, 213, 213, 213, 213, 213, 213, 213, 213, 213,
  213, 213, 213, 213, 213, 213, 213, 213, 213, 213, 213, 213, 213, 213, 213,
  213, 213, 213, 213, 213, 213, 213, 213, 213, 213, 213, 213, 213, 213, 213,
  213, 213, 213, 213, 213, 213, 213, 213, 213, 213, 213, 213, 213, 213, 213,
  213, 213, 213>>
yy_chk == <<
  0, 1, 1, 1, 1, 1, 1, 1, 1, 1, 1, 1, 1, 1, 1, 1, 1, 1, 1, 1, 1, 1, 1, 1, 1,
  1, 1, 1, 1, 1, 1, 1, 1, 1, 1, 1, 1, 1, 1, 1, 1, 1, 1, 1, 1, 1, 1, 1, 1, 1,
  1, 1, 1, 1, 1, 1, 1, 1, 1, 2, 5, 6, 7, 8, 9, 10, 24, 29, 5, 6, 21, 24, 21,
  21, 21, 21, 23, 23, 23, 23, 30, 2, 47, 131, 29, 35, 224, 23, 131, 50, 50,
  50, 50, 222, 7, 8, 9, 10, 30, 26, 50, 26, 26, 26, 26, 23, 25, 35, 25, 25,
  25, 25, 26, 62, 47, 26, 63, 25, 50, 25, 57, 57, 25, 25, 60, 60, 60, 221,
  25, 64, 26, 62, 93, 63, 25, 212, 104, 25, 44, 169, 51, 159, 51, 51, 51,
  51, 52, 52, 52, 52, 93, 64, 156, 51, 104, 153, 51, 52, 53, 150, 53, 147,
  144, 53, 53, 53, 53, 141, 44, 138, 44, 51, 134, 44, 44, 52, 86, 86, 44,
  130, 127, 44, 44, 44, 126, 44, 56, 56, 56, 56, 86, 123, 122, 58, 119, 58,
  118, 56, 58, 58, 58, 58, 82, 82, 82, 82, 83, 83, 83, 83, 84, 84, 84, 84,
  115, 56, 112, 85, 106, 85, 103, 84, 85, 85, 85, 85, 87, 87, 87, 87, 88,
  88, 88, 88, 90, 90, 90, 98, 98, 84, 96, 96, 96, 96, 97, 97, 97, 97, 90,
  108, 108, 98, 100, 100, 100, 110, 110, 110, 116, 116, 117, 117, 117, 108,
  120, 120, 100, 124, 124, 110, 102, 101, 116, 99, 117, 121, 121, 121, 120,
  128, 128, 124, 125, 125, 125, 129, 129, 129, 94, 121, 132, 132, 92, 128,
  136, 136, 125, 139, 139, 129, 133, 133, 133, 91, 132, 137, 137, 137, 136,
  142, 142, 139, 145, 145, 133, 140, 140, 140, 66, 137, 143, 143, 143, 142,
  148, 148, 145, 151, 151, 140, 146, 146, 146, 65, 143, 149, 149, 149, 148,
  154, 154, 151, 157, 157, 146, 152, 152, 152, 59, 149, 155, 155, 155, 154,
  160, 160, 157, 162, 162, 152, 158, 158, 158, 48, 155, 161, 161, 161, 160,
  164, 164, 162, 166, 166, 158, 163, 163, 163, 41, 161, 165, 165, 165, 164,
  168, 168, 166, 170, 170, 163, 167, 167, 167, 36, 165, 171, 171, 14, 168,
  172, 172, 170, 173, 173, 167, 174, 174, 175, 175, 171, 176, 176, 11, 172,
  177, 177, 173, 178, 178, 174, 4, 175, 179, 179, 176, 180, 180, 3, 177,
  181, 181, 178, 182, 182, 183, 183, 179, 184, 184, 180, 185, 185, 0, 181,
  186, 186, 182, 0, 183, 187, 187, 184, 188, 188, 185, 189, 189, 0, 186,
  190, 190, 191, 191, 187, 192, 192, 188, 193, 193, 189, 194, 194, 0, 190,
  0, 191, 195, 195, 192, 196, 196, 193, 197, 197, 194, 198, 198, 199, 199,
  0, 195, 200, 200, 196, 201, 201, 197, 202, 202, 198, 0, 199, 203, 203, 0,
  200, 204, 204, 201, 205, 205, 202, 206, 206, 207, 207, 203, 208, 208, 0,
  204, 209, 209, 205, 210, 210, 206, 0, 207, 211, 211, 208, 0, 0, 0, 209, 0,
  0, 210, 0, 0, 0, 0, 211, 214, 214, 214, 214, 214, 215, 215, 215, 215, 215,
  216, 216, 216, 216, 216, 217, 217, 217, 217, 217, 218, 218, 218, 219, 0,
  219, 219, 219, 220, 0, 220, 220, 220, 223, 223, 225, 225, 226, 226, 227,
  227, 228, 228, 229, 229, 230, 230, 231, 231, 232, 232, 233, 233, 234, 234,
  235, 235, 236, 236, 237, 237, 238, 238, 213, 213, 213, 213, 213, 213, 213,
  213, 213, 213, 213, 213, 213, 213, 213, 213, 213, 213, 213, 213, 213, 213,
  213, 213, 213, 213, 213, 213, 213, 213, 213, 213, 213, 213, 213, 213, 213,
  213, 213, 213, 213, 213, 213, 213, 213, 213, 213, 213, 213, 213, 213, 213,
  213, 213, 213, 213, 213, 213, 213>>

yy_rule_can_match_eol == <<
  0, 0, 1, 0, 0, 0, 0, 1, 0, 1, 0, 0, 0, 0, 0, 0, 0, 0, 0, 0, 0, 0, 0, 1, 0,
  0, 0, 1, 0, 0, 0, 0, 0, 0, 0, 0, 0, 0, 0, 0, 0, 0, 0, 0, 0, 0, 0, 0, 0>>

-----------------------------------------------------------------------------
JAM_STATE == 213      \* no rule can match more
TEMPLATE == 214       \* the first state that is a template
END_OF_BUFFER == 49   \* accepted after the character 0 that ends a buffer

EcOf(c) == yy_ec[c + 1]
\* Mutant: the character 0 is always the end of the buffer.
ClassOrEnd(c) == EcOf(c)
(* The character 0 within a text has the class of other characters.        *)
CharClass(c) == IF c = 0 THEN 1 ELSE EcOf(c)

(* The class to look up in the state def that a state goes on with.        *)
ClassIn(def, class) == IF def >= TEMPLATE THEN yy_meta[class + 1] ELSE class

(* The state after a character of a class.                                 *)
Follow[s \in 1 .. 238, class \in 0 .. 58] ==
  LET entry == yy_base[s + 1] + class + 1
      def == yy_def[s + 1]
  IN IF yy_chk[entry] = s THEN yy_nxt[entry] ELSE Follow[def, ClassIn(def, class)]

AcceptOf(s) == yy_accept[s + 1]

(* The text of the rule is searched for line breaks.                       *)
RuleCanMatchEol(rule) == yy_rule_can_match_eol[rule + 1] = 1

(* yy_start, and the state to begin with.                                  *)
InitialState(condition, bol) == 2 * condition + 1 + (IF bol THEN 1 ELSE 0)
=============================================================================
