-------------------------------- MODULE Rotation --------------------------------
(***************************************************************************)
(* trcinit as it creates and rotates the tokens of a namespace.  A token   *)
(* has the name of its file; the tokens that an approle may hand out, its  *)
(* Token_Permissions, are stored in vault below the approle's name.  A     *)
(* rotation revokes tokens one by one, creates new ones and then takes the *)
(* approles in turn; new tokens not stored yet are known only to the       *)
(* process.                                                                *)
(***************************************************************************)
EXTENDS Naturals, FiniteSets

CONSTANTS
  Names,        \* token files of the namespace
  PoliciesOf,   \* the policies of a token
  Unstored,     \* admin and webapp, which no approle hands out
  Approles,     \* approle files of the namespace
  Bamboo,       \* the approle of a new vault
  Permits,      \* the tokens an approle may hand out
  Filters,      \* the sets of names that a token filter can leave
  MaxTokens     \* bound: tokens made under a name

ASSUME RotationAssumption ==
  /\ Unstored \subseteq Names /\ MaxTokens \in Nat /\ Bamboo \in Approles
  /\ Permits \in [Approles -> SUBSET Names] /\ DOMAIN PoliciesOf = Names
  /\ Filters \subseteq SUBSET Names

VARIABLES
  made,      \* how many tokens were made under a name
  live,      \* those that are not revoked
  stored,    \* what each approle stores under a name; 0 for nothing
  roles,     \* the approles that vault has
  policies,  \* vault has the namespace's policies
  rotAt,     \* where the run is
  chosen,    \* the names its token filter leaves to revoke and to create
  wipe,      \* -approle without a token filter: the approles are made anew
  doomed,    \* tokens still to be revoked
  fresh,     \* names that have a new token
  left,      \* approles still to come
  approle,   \* the one at hand
  tokenMap,  \* what it will store
  updated    \* approles this run has stored tokens for

rotationRun == <<chosen, wipe, doomed, fresh, left, approle, tokenMap, updated>>
rotationVars == <<made, live, stored, roles, policies, rotAt, rotationRun>>

Empty == [n \in Names |-> 0]

RotationInit ==
  /\ made = Empty /\ live = {} /\ stored = [a \in Approles |-> Empty]
  /\ roles = {} /\ policies = FALSE /\ rotAt = "idle"
  /\ chosen = {} /\ wipe = FALSE /\ doomed = {} /\ fresh = {}
  /\ left = {} /\ approle = Bamboo /\ tokenMap = Empty /\ updated = {}

\* The process ends, by os.Exit, log.Fatal or at the operator's hands.
RotationExit ==
  /\ rotAt # "idle" /\ rotAt' = "idle"
  /\ chosen' = {} /\ wipe' = FALSE /\ doomed' = {} /\ fresh' = {}
  /\ left' = {} /\ approle' = Bamboo /\ tokenMap' = Empty /\ updated' = {}
  /\ UNCHANGED <<made, live, stored, roles, policies>>

\* CreateTokenFromFile for the files ns, the number of each name counting on.
Create(ns) ==
  /\ \A n \in ns : made[n] < MaxTokens
  /\ made' = [n \in Names |-> IF n \in ns THEN made[n] + 1 ELSE made[n]]
  /\ live' = live \cup {<<n, made[n] + 1>> : n \in ns}

\* -new: an engine, a policy or data that exists ends it; otherwise policies, tokens
\* and approles are made, and all tokens stored for bamboo.  A failure leaves what
\* there is; that of a policy is ignored.
NewVault ==
  /\ rotAt = "idle" /\ ~policies
  /\ Create(Names) /\ policies' \in BOOLEAN
  /\ \/ roles' = Approles /\ stored' = [stored EXCEPT ![Bamboo] = made']
     \/ roles' \in {roles, {Bamboo}} /\ UNCHANGED stored
  /\ UNCHANGED <<rotAt, rotationRun>>

\* -initns refuses a namespace that has policies; a failure to write a role or a
\* policy is ignored, and the tokens are printed and stored nowhere.
InitNamespace ==
  /\ rotAt = "idle" /\ ~policies
  /\ \E ns \in Filters : Create(ns)
  /\ policies' \in BOOLEAN
  /\ UNCHANGED <<stored, roles, rotAt, rotationRun>>

\* The web server's InitVault, of a vault nobody has initialized.  UploadTokens reads
\* the file filter it was passed nil for, so that the request panics at the first
\* token file, with policies and without tokens; the role is made only if there is
\* no directory of token files, and then no tokens are stored for it.
InitVault ==
  /\ rotAt = "idle" /\ ~policies /\ made = Empty /\ roles = {}
  /\ policies' \in BOOLEAN /\ roles' \in {{}, {Bamboo}}
  /\ UNCHANGED <<made, live, stored, rotAt, rotationRun>>

\* -rotateTokens: a token filter is a prefix of what is revoked and a part of what
\* is created.  GetOrRevokeTokensInScope revokes by policy, whatever the name, what
\* its token may look at.
RotateStart ==
  /\ rotAt = "idle" /\ rotAt' = "revoke"
  /\ \E creates \in Filters, revokes \in Filters \cup {{}}, w \in BOOLEAN :
       LET matching == UNION {PoliciesOf[n] : n \in revokes}
       IN  /\ revokes \subseteq creates
           /\ w => creates = Names
           /\ chosen' = creates /\ wipe' = w
           /\ \E hidden \in {{}, live} :
                doomed' = IF w THEN {}
                          ELSE {k \in live \ hidden : PoliciesOf[k[1]] \cap matching # {}}
  /\ UNCHANGED <<made, live, stored, roles, policies, fresh, left, approle, tokenMap, updated>>

Revoke ==
  /\ rotAt = "revoke"
  /\ \E k \in doomed : doomed' = doomed \ {k} /\ live' = live \ {k}
  /\ UNCHANGED <<made, stored, roles, policies, rotAt, chosen, wipe, fresh, left,
                 approle, tokenMap, updated>>

\* -updateRole and -updatePolicy, and UploadTokens; it ends the process at a token
\* it cannot create.
UploadTokens ==
  /\ rotAt = "revoke" /\ doomed = {}
  /\ policies' \in {policies, TRUE}
  /\ Create(chosen) /\ fresh' = chosen
  /\ rotAt' = "approles" /\ left' = Approles
  /\ UNCHANGED <<stored, roles, chosen, wipe, doomed, approle, tokenMap, updated>>

\* An approle, in any case when the run has a role filter, whose continue is the
\* inner loop's; one whose file cannot be parsed or does not know the token filter
\* is skipped.  The tokens it stores are kept if it still may hand them out, those
\* that cannot be read are dropped, and the new ones take their places.
\* Mutant of Merge: a stored token is kept when there is a new one.
MergeOld(a, old) ==
  [n \in Names |-> IF n \notin Permits[a] \ Unstored THEN 0
                   ELSE IF old[n] # 0 THEN old[n]
                   ELSE IF n \in fresh THEN made[n] ELSE 0]
Merge(a, old) ==
  [n \in Names |-> IF n \notin Permits[a] \ Unstored THEN 0
                   ELSE IF n \in fresh THEN made[n] ELSE old[n]]
ReadApprole(a) ==
  /\ rotAt = "approles" /\ a \in left
  /\ left' = left \ {a}
  /\ \/ \E old \in {stored[a], Empty} :
          /\ tokenMap' = Merge(a, old) /\ approle' = a
          /\ rotAt' = IF wipe THEN "delete" ELSE "store"
     \/ UNCHANGED <<tokenMap, approle, rotAt>>
  /\ UNCHANGED <<made, live, stored, roles, policies, chosen, wipe, doomed, fresh, updated>>

DeleteRole ==
  /\ rotAt = "delete" /\ rotAt' = "create"
  /\ roles' = roles \ {approle}
  /\ UNCHANGED <<made, live, stored, policies, rotationRun>>

CreateNewRole ==
  /\ rotAt = "create" /\ rotAt' = "store"
  /\ roles' = roles \cup {approle}
  /\ UNCHANGED <<made, live, stored, policies, rotationRun>>

\* Without tokens nothing is written.
StoreTokens ==
  /\ rotAt = "store" /\ rotAt' = "approles"
  /\ IF tokenMap = Empty THEN UNCHANGED <<stored, updated>>
     ELSE /\ stored' = [stored EXCEPT ![approle] = tokenMap]
          /\ updated' = updated \cup {approle}
  /\ UNCHANGED <<made, live, roles, policies, chosen, wipe, doomed, fresh, left, approle, tokenMap>>

RotationNext ==
  \/ NewVault \/ InitNamespace \/ InitVault
  \/ RotateStart \/ Revoke \/ UploadTokens
  \/ DeleteRole \/ CreateNewRole \/ StoreTokens \/ RotationExit
  \/ \E a \in Approles : ReadApprole(a)

-----------------------------------------------------------------------------
(* Properties. *)

RotationTypeOK ==
  /\ made \in [Names -> 0..MaxTokens] /\ live \subseteq Names \X (1..MaxTokens)
  /\ stored \in [Approles -> [Names -> 0..MaxTokens]]
  /\ roles \subseteq Approles /\ policies \in BOOLEAN
  /\ rotAt \in {"idle", "revoke", "approles", "delete", "create", "store"}
  /\ chosen \subseteq Names /\ wipe \in BOOLEAN /\ doomed \subseteq live
  /\ fresh \subseteq Names /\ left \subseteq Approles /\ approle \in Approles
  /\ tokenMap \in [Names -> 0..MaxTokens] /\ updated \subseteq Approles

\* What a rotation has stored for an approle under a name that it has made a token
\* for is not a revoked token, whatever earlier runs that ended halfway had left
\* there.  Under the other names it may be: a filtered rotation revokes by policy,
\* and the tokens of other names that have the policy stay where they are stored.
TokensLive ==
  \A a \in updated, n \in fresh : stored[a][n] # 0 => <<n, stored[a][n]>> \in live
=============================================================================
