---------------------------- MODULE RotationProofs ----------------------------
(***************************************************************************)
(* Proofs about Rotation: the state of a rotation is well formed, and what *)
(* it has stored under a name it has made a token for is a token that      *)
(* lives, for any approles, names, filters and policies.  Stated of the    *)
(* initial states and of the steps, for the specifications that run trcinit *)
(* beside something else, and of trcinit by itself.                        *)
(***************************************************************************)
EXTENDS Rotation, TLAPS

(* trcinit by itself. *)
RotationSpec == RotationInit /\ [][RotationNext]_rotationVars

(* Before the upload a run has neither made nor stored anything.            *)
NothingYet ==
  rotAt \in {"idle", "revoke"} => fresh = {} /\ updated = {} /\ tokenMap = Empty

(* The latest token of a name the run has made one for lives: revoking ends *)
(* where uploading begins.                                                  *)
FreshLive == \A n \in fresh : <<n, made[n]>> \in live

(* So does the one that the run is about to store under such a name.        *)
MergedLive == \A n \in fresh : tokenMap[n] # 0 => <<n, tokenMap[n]>> \in live

(* The inductive invariant. *)
RotationInv == RotationTypeOK /\ NothingYet /\ FreshLive /\ MergedLive /\ TokensLive

-----------------------------------------------------------------------------
(* What the operators of the model give. *)

(* Nothing is stored under any name. *)
LEMMA EmptyType == Empty \in [Names -> 0..MaxTokens] /\ \A n \in Names : Empty[n] = 0
BY RotationAssumption DEF Empty

(* Creating tokens counts them, keeps those that live and adds the new ones. *)
LEMMA CreateCounts ==
  ASSUME RotationTypeOK, NEW ns \in SUBSET Names, Create(ns)
  PROVE  /\ made' \in [Names -> 0..MaxTokens]
         /\ live \subseteq live' /\ live' \subseteq Names \X (1..MaxTokens)
         /\ \A n \in ns : made'[n] = made[n] + 1 /\ <<n, made'[n]>> \in live'
<1>1. \A n \in Names : made[n] \in 0..MaxTokens
  BY DEF RotationTypeOK
<1>2. \A n \in ns : made[n] + 1 \in 1..MaxTokens
  BY <1>1, RotationAssumption DEF Create
<1>3. \A n \in Names : (IF n \in ns THEN made[n] + 1 ELSE made[n]) \in 0..MaxTokens
  BY <1>1, <1>2, RotationAssumption
<1>4. made' \in [Names -> 0..MaxTokens]
  BY <1>3, Zenon DEF Create
<1>5. live \subseteq live'
  BY Zenon DEF Create
<1>6. live' \subseteq Names \X (1..MaxTokens)
  BY <1>2 DEF Create, RotationTypeOK
<1>7. \A n \in ns : made'[n] = made[n] + 1 /\ <<n, made[n] + 1>> \in live'
  BY DEF Create
<1> QED BY <1>4, <1>5, <1>6, <1>7

(* What an approle will store is a token of the run for every name it has   *)
(* made one for.                                                            *)
LEMMA MergeTakesFresh ==
  ASSUME RotationTypeOK, NEW a \in Approles, NEW old \in [Names -> 0..MaxTokens]
  PROVE  /\ Merge(a, old) \in [Names -> 0..MaxTokens]
         /\ \A n \in fresh : Merge(a, old)[n] \in {0, made[n]}
BY RotationAssumption DEF Merge, RotationTypeOK

-----------------------------------------------------------------------------
LEMMA RotationInvInit == RotationInit => RotationInv
BY EmptyType, RotationAssumption
   DEF RotationInit, RotationInv, RotationTypeOK, NothingYet, FreshLive, MergedLive, TokensLive

(* A new vault, a new namespace: tokens are made while no rotation runs.     *)
LEMMA InvCreating ==
  ASSUME RotationInv, NewVault \/ InitNamespace \/ InitVault
  PROVE  RotationInv'
<1> USE DEF RotationInv
<1>1. fresh = {} /\ updated = {} /\ fresh' = {} /\ updated' = {}
  BY DEF NewVault, InitNamespace, InitVault, rotationRun, NothingYet
<1>2. NothingYet' /\ FreshLive' /\ MergedLive' /\ TokensLive'
  BY <1>1 DEF NewVault, InitNamespace, InitVault, rotationRun, NothingYet, FreshLive, MergedLive, TokensLive, Empty
<1>3. CASE NewVault
  <2>1. Create(Names)
    BY <1>3 DEF NewVault
  <2>2. /\ made' \in [Names -> 0..MaxTokens]
        /\ live \subseteq live' /\ live' \subseteq Names \X (1..MaxTokens)
    BY <2>1, CreateCounts
  <2>3. roles' \subseteq Approles /\ policies' \in BOOLEAN
    BY <1>3, RotationAssumption DEF NewVault, RotationTypeOK
  <2>4. stored' \in [Approles -> [Names -> 0..MaxTokens]]
    BY <1>3, <2>2, RotationAssumption DEF NewVault, RotationTypeOK
  <2> QED BY <1>2, <1>3, <2>2, <2>3, <2>4 DEF NewVault, rotationRun, RotationTypeOK
<1>4. CASE InitNamespace
  <2>1. PICK ns \in Filters : Create(ns)
    BY <1>4 DEF InitNamespace
  <2>2. /\ made' \in [Names -> 0..MaxTokens]
        /\ live \subseteq live' /\ live' \subseteq Names \X (1..MaxTokens)
    BY <2>1, CreateCounts, RotationAssumption
  <2> QED BY <1>2, <1>4, <2>2 DEF InitNamespace, rotationRun, RotationTypeOK
<1>5. CASE InitVault
  BY <1>2, <1>5, RotationAssumption DEF InitVault, rotationRun, RotationTypeOK
<1> QED BY <1>3, <1>4, <1>5

(* The run starts, revokes what is doomed, and ends. *)
LEMMA InvRevoking ==
  ASSUME RotationInv, RotateStart \/ Revoke \/ RotationExit
  PROVE  RotationInv'
<1> USE DEF RotationInv
<1>1. CASE RotateStart
  <2>1. RotationTypeOK'
    BY <1>1, RotationAssumption DEF RotateStart, RotationTypeOK
  <2> QED BY <1>1, <2>1 DEF RotateStart, NothingYet, FreshLive, MergedLive, TokensLive, Empty
<1>2. CASE Revoke
  <2>1. RotationTypeOK'
    BY <1>2 DEF Revoke, RotationTypeOK
  <2>2. fresh' = {} /\ updated' = {} /\ tokenMap' = tokenMap
    BY <1>2 DEF Revoke, NothingYet
  <2> QED BY <1>2, <2>1, <2>2 DEF Revoke, NothingYet, FreshLive, MergedLive, TokensLive, Empty
<1>3. CASE RotationExit
  <2>1. RotationTypeOK'
    BY <1>3, EmptyType, RotationAssumption DEF RotationExit, RotationTypeOK, Empty
  <2> QED BY <1>3, <2>1 DEF RotationExit, NothingYet, FreshLive, MergedLive, TokensLive, Empty
<1> QED BY <1>1, <1>2, <1>3

(* The new tokens: all of them live, and nothing is doomed any more.         *)
LEMMA InvUpload == ASSUME RotationInv, UploadTokens PROVE RotationInv'
<1> USE DEF RotationInv
<1>1. chosen \in SUBSET Names /\ Create(chosen)
  BY DEF UploadTokens, RotationTypeOK
<1>2. /\ made' \in [Names -> 0..MaxTokens]
      /\ live \subseteq live' /\ live' \subseteq Names \X (1..MaxTokens)
      /\ \A n \in chosen : <<n, made'[n]>> \in live'
  BY <1>1, CreateCounts
<1>3. RotationTypeOK'
  BY <1>2 DEF UploadTokens, RotationTypeOK
<1>4. tokenMap' = Empty /\ updated' = {} /\ fresh' = chosen
  BY DEF UploadTokens, NothingYet
<1>5. \A n \in chosen : tokenMap'[n] = 0
  BY <1>1, <1>4, EmptyType
<1> QED BY <1>2, <1>3, <1>4, <1>5 DEF UploadTokens, NothingYet, FreshLive, MergedLive, TokensLive

(* An approle is read: what it will store under a fresh name is fresh.       *)
LEMMA InvRead == ASSUME RotationInv, NEW a \in Approles, ReadApprole(a) PROVE RotationInv'
<1> USE DEF RotationInv
<1>1. CASE UNCHANGED <<tokenMap, approle, rotAt>>
  BY <1>1 DEF ReadApprole, RotationTypeOK, NothingYet, FreshLive, MergedLive, TokensLive, Empty
<1>2. ASSUME NEW old \in {stored[a], Empty},
             tokenMap' = Merge(a, old), approle' = a, rotAt' = IF wipe THEN "delete" ELSE "store"
      PROVE  RotationInv'
  <2>1. old \in [Names -> 0..MaxTokens]
    BY EmptyType DEF RotationTypeOK
  <2>2. tokenMap' \in [Names -> 0..MaxTokens] /\ \A n \in fresh : tokenMap'[n] \in {0, made[n]}
    BY <1>2, <2>1, MergeTakesFresh
  <2>3. RotationTypeOK'
    BY <1>2, <2>2 DEF ReadApprole, RotationTypeOK
  <2> QED BY <1>2, <2>2, <2>3 DEF ReadApprole, NothingYet, FreshLive, MergedLive, TokensLive
<1> QED BY <1>1, <1>2 DEF ReadApprole

(* Its role is made anew, and its tokens are stored. *)
LEMMA InvStore ==
  ASSUME RotationInv, DeleteRole \/ CreateNewRole \/ StoreTokens
  PROVE  RotationInv'
<1> USE DEF RotationInv
<1>1. CASE DeleteRole
  BY <1>1 DEF DeleteRole, rotationRun, RotationTypeOK, NothingYet, FreshLive, MergedLive, TokensLive
<1>2. CASE CreateNewRole
  BY <1>2 DEF CreateNewRole, rotationRun, RotationTypeOK, NothingYet, FreshLive, MergedLive, TokensLive
<1>3. CASE StoreTokens
  <2>1. RotationTypeOK'
    BY <1>3 DEF StoreTokens, RotationTypeOK
  <2>2. TokensLive'
    <3>1. CASE tokenMap = Empty
      BY <1>3, <3>1 DEF StoreTokens, TokensLive
    <3>2. CASE tokenMap # Empty
      <4>1. stored' = [stored EXCEPT ![approle] = tokenMap] /\ updated' = updated \cup {approle}
        BY <1>3, <3>2 DEF StoreTokens
      <4>2. live' = live /\ fresh' = fresh
        BY <1>3 DEF StoreTokens
      <4>3. SUFFICES ASSUME NEW b \in updated', NEW n \in fresh, stored'[b][n] # 0
                     PROVE  <<n, stored'[b][n]>> \in live
        BY <4>2 DEF TokensLive
      <4>4. CASE b = approle
        BY <4>1, <4>3, <4>4 DEF MergedLive, RotationTypeOK
      <4>5. CASE b # approle
        BY <4>1, <4>3, <4>5 DEF TokensLive, RotationTypeOK
      <4> QED BY <4>4, <4>5
    <3> QED BY <3>1, <3>2
  <2> QED BY <1>3, <2>1, <2>2 DEF StoreTokens, NothingYet, FreshLive, MergedLive
<1> QED BY <1>1, <1>2, <1>3

LEMMA RotationInvNext == RotationInv /\ [RotationNext]_rotationVars => RotationInv'
<1>1. ASSUME RotationInv, RotationNext PROVE RotationInv'
  BY <1>1, InvCreating, InvRevoking, InvUpload, InvRead, InvStore DEF RotationNext
<1>2. ASSUME RotationInv, UNCHANGED rotationVars PROVE RotationInv'
  BY <1>2 DEF rotationVars, rotationRun, RotationInv, RotationTypeOK, NothingYet, FreshLive,
              MergedLive, TokensLive, Empty
<1> QED BY <1>1, <1>2

-----------------------------------------------------------------------------
(* Every variable of a rotation has its type, and a token to be revoked is   *)
(* one that lives (GetOrRevokeTokensInScope).                                *)
THEOREM RotationTypeCorrect == RotationSpec => []RotationTypeOK
<1>1. RotationInv => RotationTypeOK
  BY DEF RotationInv
<1> QED BY <1>1, RotationInvInit, RotationInvNext, PTL DEF RotationSpec

(* A rotation never leaves a revoked token where it has just stored one, for  *)
(* whatever an earlier run that ended halfway had left.                      *)
THEOREM StoredTokensLive == RotationSpec => []TokensLive
<1>1. RotationInv => TokensLive
  BY DEF RotationInv
<1> QED BY <1>1, RotationInvInit, RotationInvNext, PTL DEF RotationSpec
=============================================================================
