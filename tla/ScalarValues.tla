---------------------------- MODULE ScalarValues ----------------------------
(***************************************************************************)
(* The types of settings and the conversions done by the functions that   *)
(* store a scalar into a setting (config_setting_set_int, _int64, _float,  *)
(* _bool and _string of lib/libconfig.c).                                  *)
(*                                                                         *)
(* Integers keep a width: Int32Max and Int64Max stand for INT32_MAX and    *)
(* INT64_MAX.  A double is represented by twice its value, an integer      *)
(* number of halves, so that a fraction is there to be truncated.          *)
(***************************************************************************)
EXTENDS Integers

CONSTANTS
  Int32Max,    \* INT32_MAX, the bound of a CONFIG_TYPE_INT
  Int64Max,    \* INT64_MAX, the bound of a CONFIG_TYPE_INT64
  FloatExact,  \* 2^24: the integers up to it are exact in single precision
  Single,      \* (float)n for every long long n, rounded as IEEE 754 does
  Strings,     \* what a CONFIG_TYPE_STRING may hold
  NULL         \* the null pointer

ASSUME WidthAssumption ==
  /\ Int32Max \in Nat
  /\ Int64Max \in Nat
  /\ Int32Max <= Int64Max
  /\ FloatExact \in Nat

ASSUME SingleAssumption ==
  /\ Single \in [-(Int64Max + 1) .. Int64Max -> Int]
  /\ \A n \in -(Int64Max + 1) .. Int64Max :
       -FloatExact <= n /\ n <= FloatExact => Single[n] = n

NumberTypes == {"INT", "INT64", "FLOAT"}
ScalarTypes == {"INT", "INT64", "FLOAT", "STRING", "BOOL"}
Aggregates == {"GROUP", "ARRAY", "LIST"}
Types == {"NONE"} \cup ScalarTypes \cup Aggregates

Int32 == -(Int32Max + 1) .. Int32Max
Int64 == -(Int64Max + 1) .. Int64Max

Values == Int \cup Strings \cup {NULL}

(* The values a setting of type t may hold: any int is stored in a boolean *)
(* as it is, and a string setting nobody assigned holds a null pointer.    *)
ValuesOf(t) ==
  IF t \in {"INT", "BOOL"} THEN Int32
  ELSE IF t = "INT64" THEN Int64
  ELSE IF t = "FLOAT" THEN Int
  ELSE IF t = "STRING" THEN Strings \cup {NULL}
  ELSE {NULL}

(* __new() zeroes the setting.                                             *)
ZeroOf(t) == IF t \in {"INT", "INT64", "FLOAT", "BOOL"} THEN 0 ELSE NULL

(* (int)d or (long long)d: the fraction is cut off.  A result that does    *)
(* not fit is undefined behaviour, modelled as any value of the width.     *)
Truncated(d) == IF d < 0 THEN -((-d) \div 2) ELSE d \div 2
CastTo(width, d) == IF Truncated(d) \in width THEN {Truncated(d)} ELSE width

(***************************************************************************)
(* What storing argument v through the accessor for type `as' may leave in *)
(* a setting of type t: the set of the <<type, value>> it can end in, the  *)
(* empty set when the accessor refuses.  Only a setting of type NONE takes *)
(* the accessor's type.                                                    *)
(***************************************************************************)
SetInt(t, v, autoconvert) ==
  IF t \in {"NONE", "INT"} THEN {<<"INT", v>>}
  ELSE IF t = "FLOAT" /\ autoconvert THEN {<<"FLOAT", 2 * Single[v]>>}
  ELSE {}

SetInt64(t, v, autoconvert) ==
  IF t \in {"NONE", "INT64"} THEN {<<"INT64", v>>}
  ELSE IF t = "INT" /\ v \in Int32 THEN {<<"INT", v>>}
  ELSE IF t = "FLOAT" /\ autoconvert THEN {<<"FLOAT", 2 * Single[v]>>}
  ELSE {}

SetFloat(t, d, autoconvert) ==
  IF t \in {"NONE", "FLOAT"} THEN {<<"FLOAT", d>>}
  ELSE IF t = "INT" /\ autoconvert THEN {<<"INT", n>> : n \in CastTo(Int32, d)}
  ELSE IF t = "INT64" /\ autoconvert
    THEN {<<"INT64", n>> : n \in CastTo(Int64, d)}
  ELSE {}

SetBool(t, v) == IF t \in {"NONE", "BOOL"} THEN {<<"BOOL", v>>} ELSE {}

SetString(t, v) == IF t \in {"NONE", "STRING"} THEN {<<"STRING", v>>} ELSE {}

Stored(as, t, v, autoconvert) ==
  IF as = "INT" THEN SetInt(t, v, autoconvert)
  ELSE IF as = "INT64" THEN SetInt64(t, v, autoconvert)
  ELSE IF as = "FLOAT" THEN SetFloat(t, v, autoconvert)
  ELSE IF as = "BOOL" THEN SetBool(t, v)
  ELSE SetString(t, v)
(***************************************************************************)
(* What the accessor for type `as' reads from a setting that holds v: the  *)
(* values it may give, the empty set when it refuses.  A long long is      *)
(* taken to be exact as a double.                                          *)
(***************************************************************************)
\* Mutant: a long long is read as an int without the range check.
GetIntUnchecked(t, v, autoconvert) ==
  IF t \in {"INT", "INT64"} THEN {v}
  ELSE IF t = "FLOAT" /\ autoconvert THEN CastTo(Int32, v) ELSE {}

(* __config_setting_get_int()                                              *)
GetInt(t, v, autoconvert) ==
  IF t = "INT" \/ (t = "INT64" /\ v \in Int32) THEN {v}
  ELSE IF t = "FLOAT" /\ autoconvert THEN CastTo(Int32, v) ELSE {}

(* __config_setting_get_int64()                                            *)
GetInt64(t, v, autoconvert) ==
  IF t \in {"INT", "INT64"} THEN {v}
  ELSE IF t = "FLOAT" /\ autoconvert THEN CastTo(Int64, v) ELSE {}

(* __config_setting_get_float()                                            *)
GetFloat(t, v, autoconvert) ==
  IF t = "FLOAT" THEN {v}
  ELSE IF t \in {"INT", "INT64"} /\ autoconvert THEN {2 * v} ELSE {}

Got(as, t, v, autoconvert) ==
  IF as = "INT" THEN GetInt(t, v, autoconvert)
  ELSE IF as = "INT64" THEN GetInt64(t, v, autoconvert)
  ELSE IF as = "FLOAT" THEN GetFloat(t, v, autoconvert)
  ELSE IF t = as THEN {v} ELSE {}
=============================================================================
