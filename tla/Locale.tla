-------------------------------- MODULE Locale --------------------------------
(***************************************************************************)
(* __config_locale_override() and __config_locale_restore() of             *)
(* lib/libconfig.c, for threads that read and write configurations of      *)
(* their own while the program changes the locale of the process or gives  *)
(* a thread one of its own.  Of a locale only the radix character counts.  *)
(***************************************************************************)
EXTENDS Integers, FiniteSets

CONSTANTS
  Threads,
  Objects,     \* memory for locale_t objects
  GLOBAL,      \* LC_GLOBAL_LOCALE
  MaxNesting   \* bound: calls of the library within each other in a thread;
               \* 1 when include functions do not call it

ASSUME LocaleAssumption == GLOBAL \notin Objects /\ MaxNesting \in Nat

VARIABLES
  process,   \* the radix of the locale of the process
  locale,    \* the locale of each thread: GLOBAL or an object
  radix,     \* the radix of each object, FREED for one that does not exist
  own,       \* the objects that the program made
  nesting    \* for each thread, the reads and writes that have overridden it

localeVars == <<process, locale, radix, own, nesting>>

Radices == {"point", "comma"}
FREED == "freed"

LocaleInit ==
  /\ process \in Radices
  /\ locale = [t \in Threads |-> GLOBAL]
  /\ radix = [o \in Objects |-> FREED]
  /\ own = {}
  /\ nesting = [t \in Threads |-> 0]

(* What strtod() and printf() use in a thread.                             *)
RadixOf(t) == IF locale[t] = GLOBAL THEN process ELSE radix[locale[t]]

(* newlocale() and uselocale().                                            *)
NewLocale(t, r) ==
  \E o \in Objects :
    /\ radix[o] = FREED
    /\ radix' = [radix EXCEPT ![o] = r]
    /\ locale' = [locale EXCEPT ![t] = o]

\* Mutant: the locale of the process is overridden.
OverrideProcess(t) ==
  /\ nesting[t] < MaxNesting
  /\ process' = "point"
  /\ nesting' = [nesting EXCEPT ![t] = @ + 1]
  /\ UNCHANGED <<locale, radix, own>>

(* The locale the thread had is not kept.                                  *)
Override(t) ==
  /\ nesting[t] < MaxNesting
  /\ NewLocale(t, "point")
  /\ nesting' = [nesting EXCEPT ![t] = @ + 1]
  /\ UNCHANGED <<process, own>>

(* The thread gets the locale of the process, and what it had is freed.    *)
Restore(t) ==
  /\ nesting[t] > 0
  /\ locale' = [locale EXCEPT ![t] = GLOBAL]
  /\ radix' = [o \in Objects |-> IF o = locale[t] THEN FREED ELSE radix[o]]
  /\ nesting' = [nesting EXCEPT ![t] = @ - 1]
  /\ UNCHANGED <<process, own>>

-----------------------------------------------------------------------------
(* The program, in threads that are not in the library.                    *)

SetLocale(t, r) ==
  /\ nesting[t] = 0
  /\ process' = r
  /\ UNCHANGED <<locale, radix, own, nesting>>

UseOwnLocale(t, r) ==
  /\ nesting[t] = 0
  /\ NewLocale(t, r)
  /\ own' = own \cup {locale'[t]}
  /\ UNCHANGED <<process, nesting>>

(* A locale no thread uses any more.                                       *)
FreeOwnLocale(o) ==
  /\ o \in own /\ \A t \in Threads : locale[t] # o
  /\ radix' = [radix EXCEPT ![o] = FREED]
  /\ own' = own \ {o}
  /\ UNCHANGED <<process, locale, nesting>>

LocaleStep ==
  \/ \E t \in Threads :
       \/ Restore(t) \/ Override(t)
       \/ \E r \in Radices : SetLocale(t, r) \/ UseOwnLocale(t, r)
  \/ \E o \in Objects : FreeOwnLocale(o)

LocaleSpec == LocaleInit /\ [][LocaleStep]_localeVars

-----------------------------------------------------------------------------
(* While a configuration is read or written its thread has a locale with a *)
(* point of its own, whatever the other threads do to theirs or to that of *)
(* the process; it is freed with the call, and nothing else is.            *)
LocaleIsOverridden ==
  /\ \A t \in Threads : nesting[t] > 0 =>
       /\ RadixOf(t) = "point"
       /\ locale[t] \in Objects \ own
       /\ \A u \in Threads \ {t} : locale[u] # locale[t]
  /\ {o \in Objects : radix[o] # FREED} =
       own \cup {locale[t] : t \in {u \in Threads : nesting[u] > 0}}
=============================================================================
