------------------------------- MODULE CapAuth -------------------------------
(***************************************************************************)
(* The hat: the part of the carrier that remembers the secrets of an       *)
(* environment for trcsh.  PluginDeployEnvFlow validates trcsh, registers  *)
(* it with the operating system in a loop that gives up after TapRetries   *)
(* failures in a row, memorizes the configuration one key at a time, and   *)
(* starts the server.  An agent asks over the feathered connection; the    *)
(* driver, on the hat's own host, over the tap.                            *)
(*                                                                         *)
(* cap and tap are libraries outside the repository: what a Pense answers  *)
(* is modelled from how its callers treat it, with "dots" for the string   *)
(* "...." of a key that is not known.                                      *)
(***************************************************************************)
EXTENDS Naturals

CONSTANTS
  TapRetries,   \* registrations that may fail in a row (5)
  Queries       \* queries a retrying query makes (5)

ASSUME CapAssumption == TapRetries \in Nat \ {0} /\ Queries \in Nat \ {0}

VARIABLES
  provided,   \* the keys the configuration of the carrier has
  hat,        \* where PluginDeployEnvFlow is
  tapFails,   \* retryCap; TapRetries when the loop has ended, or never began
  feather,    \* the FeatherAuth: "none", "port" (staging, prod) or "full"
  memorized,  \* keys of TapMemorize
  feathered   \* keys of TapFeather
capVars == <<provided, hat, tapFails, feather, memorized, feathered>>

Feathers == {"caddress", "configrole"}            \* vaddress goes the same way
Keys     == Feathers \cup {"pubrole", "ctoken", "kubeconfig"}
Answers  == {"value", "dots", "empty"}

CapInit ==
  /\ provided \in SUBSET Keys
  /\ hat = "validate" /\ tapFails = TapRetries
  /\ feather = "none" /\ memorized = {} /\ feathered = {}

\* The certificate of trcsh must have a sha and the program must exist; without
\* either, or without vault, the hat is skipped.
ValidateTrcshPathSha ==
  /\ hat = "validate"
  /\ \E s \in {"register", "skipped"} : hat' = s
  /\ UNCHANGED <<provided, tapFails, feather, memorized, feathered>>

\* Only once, and only for dev and staging.  A configuration without the five
\* values is no error.
Init_FeatherAuth ==
  /\ hat = "register"
  /\ \/ hat' = "skipped" /\ UNCHANGED <<provided, tapFails, feather>>
     \/ /\ hat' = "memorize" /\ tapFails' = 0
        /\ feather' \in {"none", "port", "full"}
  /\ UNCHANGED <<provided, memorized, feathered>>

\* The goroutine that registers trcsh with the tap, for ever unless it fails
\* too often in a row.
Tap ==
  /\ tapFails < TapRetries
  /\ \E failed \in BOOLEAN : tapFails' = IF failed THEN tapFails + 1 ELSE 0
  /\ UNCHANGED <<provided, hat, feather, memorized, feathered>>

\* One key of the map, whose order Go does not fix; other keys are skipped.
Memorize(k) ==
  /\ hat = "memorize" /\ k \in provided \ memorized
  /\ feathered' = feathered \cup ({k} \cap Feathers)
  /\ memorized' = memorized \cup {k}
  /\ UNCHANGED <<provided, hat, tapFails, feather>>

\* A goroutine.  It ends without the certificate, the key or the address; with
\* no FeatherAuth at all it reads the port of a nil pointer, which ends the
\* carrier.
Start ==
  /\ hat = "memorize" /\ memorized = provided
  /\ hat' \in IF feather = "none" THEN {"failed", "crashed"} ELSE {"failed", "serving"}
  /\ UNCHANGED <<provided, tapFails, feather, memorized, feathered>>

CapNext == ValidateTrcshPathSha \/ Init_FeatherAuth \/ Tap \/ Start
           \/ \E k \in Keys : Memorize(k)

-----------------------------------------------------------------------------
(* The two ways to ask.  Every call makes a code of its own and writes its *)
(* sum before it sends the code, so that an answer belongs to the call.    *)

Serves == hat = "serving"

\* The writer, the credentials, the connection and the call may each fail: nil.
\* An answer may hold an empty Pense, and nobody who asks minds.
PenseFeatherQuery(k) ==
  {"nil"} \cup (IF Serves /\ feather = "full"
                THEN {"empty", IF k \in feathered THEN "value" ELSE "dots"} ELSE {})

\* Through the tap, which must also tell the port; the host is looked up
\* twice and must be the same.  A failed write or call answers "" with the error.
PenseQuery(k) ==
  {"nil", "empty"} \cup (IF Serves THEN {IF k \in memorized THEN "value" ELSE "dots"} ELSE {})

\* Mutant of Accepted: the placeholder is taken for a secret.
AcceptedAny(a) == a # "nil"
Accepted(a) == a \notin {"nil", "dots"}

CapTypeOK ==
  /\ hat \in {"validate", "register", "memorize", "serving", "skipped", "failed", "crashed"}
  /\ tapFails \in 0..TapRetries /\ feather \in {"none", "port", "full"}
  /\ feathered = memorized \cap Feathers /\ memorized \subseteq provided
=============================================================================
