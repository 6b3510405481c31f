------------------------- MODULE ProfileStoreProofs -------------------------
(***************************************************************************)
(* Proofs about ProfileStore, for every number of processes, accounts and  *)
(* logins.                                                                 *)
(***************************************************************************)
EXTENDS ProfileStore, TLAPS

USE ProfileAssumption

-----------------------------------------------------------------------------
\* A missing file and a torn one are no profile.
LEMMA NoFileNoRecord == Absent \notin Record /\ Torn \notin Record
<1>1. \A r \in Record : "device" \in DOMAIN r
  BY DEF Record
<1>2. "device" \notin DOMAIN Absent /\ "device" \notin DOMAIN Torn
  BY DEF Absent, Torn
<1> QED
  BY <1>1, <1>2

\* Changing the store, or the account, of a profile gives a profile.
LEMMA RecordUpdate ==
    ASSUME NEW r \in Record
    PROVE  /\ \A s \in Stores : [r EXCEPT !.store = s] \in Record
           /\ \A a \in Accounts : [r EXCEPT !.account = a, !.pending = FALSE] \in Record
BY DEF Record

\* The record a login makes.
LEMMA LoginRecord ==
    ASSUME NEW d \in Devices, NEW a \in Accounts \cup {NoAccount}, NEW b \in BOOLEAN,
           NEW s \in Stores
    PROVE  [device |-> d, account |-> a, pending |-> b, store |-> s] \in Record
BY DEF Record

\* Killed or refused by the file system, a command ends in the same states.
LEMMA Broken ==
    ASSUME NEW p \in Procs, FileFails(p) \/ Killed(p), disturbed \in BOOLEAN
    PROVE  Breaks(p) /\ disturbed' \in BOOLEAN
BY DEF FileFails, Killed

-----------------------------------------------------------------------------
(* Types, and what a process holds *)

TypeInv == TypeOK /\ Held

LEMMA InitType == Init => TypeInv
<1> SUFFICES ASSUME Init PROVE TypeInv
  OBVIOUS
<1>1. loggedOut \in BOOLEAN /\ disturbed \in BOOLEAN
  BY DEF Init
<1>2. /\ profile \in Record \cup {Absent, Torn} /\ keyFile \in Devices \cup {NoSecret}
      /\ osKeys \subseteq Devices /\ pc \in [Procs -> Steps]
      /\ mine \in [Procs -> Record \cup {Absent}]
      /\ secret \in [Procs -> Devices \cup {NoSecret}]
      /\ minted \in 0..MaxLogins /\ approved \subseteq Accounts \X Devices
  BY DEF Init, Steps
<1>3. Held
  BY DEF Init, Held
<1> QED
  BY <1>1, <1>2, <1>3 DEF TypeOK, TypeInv

\* A login holds a record of the device it makes, and that device's secret.
LEMMA LoginType ==
    ASSUME TypeInv, NEW p \in Procs, NEW force \in BOOLEAN, LoginStart(p, force)
    PROVE  TypeInv'
<1> USE DEF TypeInv, TypeOK
<1>1. minted + 1 \in Devices /\ minted' = minted + 1 /\ minted' \in 0..MaxLogins
  BY DEF LoginStart, Devices
<1>2. PICK s \in Stores, a \in Accounts \cup {NoAccount}, b \in BOOLEAN :
        /\ Hold(p, [device |-> minted + 1, account |-> a, pending |-> ~b, store |-> s])
        /\ approved' = approved \cup ({<<a, minted + 1>>} \cap (Accounts \X Devices))
  BY DEF LoginStart
<1>3. PICK r \in Record : r.device = minted + 1 /\ mine' = [mine EXCEPT ![p] = r]
  BY <1>1, <1>2, LoginRecord DEF Hold
<1>4. secret' = [secret EXCEPT ![p] = minted + 1] /\ pc' = [pc EXCEPT ![p] = "store"]
  BY DEF LoginStart, Start
<1>5. Held'
  BY <1>3, <1>4 DEF Held
<1>6. loggedOut' \in BOOLEAN /\ disturbed' \in BOOLEAN
  BY DEF LoginStart, Start
<1>7. /\ pc' \in [Procs -> Steps] /\ mine' \in [Procs -> Record \cup {Absent}]
      /\ secret' \in [Procs -> Devices \cup {NoSecret}]
  BY <1>1, <1>3, <1>4 DEF Steps
<1>8. approved' \subseteq Accounts \X Devices
  BY <1>2
<1>9. UNCHANGED <<profile, keyFile, osKeys>>
  BY DEF LoginStart, files
<1> QED
  BY <1>1, <1>5, <1>6, <1>7, <1>8, <1>9

\* The steps that write.
LEMMA WriteType ==
    ASSUME TypeInv, NEW p \in Procs,
           StoreOsKey(p) \/ StoreKeyFile(p) \/ StoreFails(p) \/ SaveProfile(p)
    PROVE  TypeInv'
<1> USE DEF TypeInv, TypeOK, past, files
<1>1. loggedOut' \in BOOLEAN /\ disturbed' \in BOOLEAN
  BY DEF StoreOsKey, StoreKeyFile, StoreFails, SaveProfile, GoOn
<1>2. UNCHANGED <<minted, approved, secret>>
  BY DEF StoreOsKey, StoreKeyFile, StoreFails, SaveProfile
<1>3. CASE StoreOsKey(p)
  <2>1. /\ pc[p] = "store" /\ pc' = [pc EXCEPT ![p] = "save"]
        /\ osKeys' = osKeys \cup {secret[p]} /\ UNCHANGED <<profile, keyFile, mine>>
    BY <1>3 DEF StoreOsKey, GoOn
  <2>2. secret[p] \in Devices
    BY <2>1 DEF Held, Record
  <2>3. Held'
    BY <1>2, <2>1 DEF Held
  <2> QED
    BY <1>1, <1>2, <2>1, <2>2, <2>3 DEF Steps
<1>4. CASE StoreKeyFile(p)
  <2>1. /\ pc[p] = "store" /\ pc' = [pc EXCEPT ![p] = "save"]
        /\ mine' = [mine EXCEPT ![p] = [mine[p] EXCEPT !.store = "encryptedFileFallback"]]
        /\ keyFile' = secret[p] /\ UNCHANGED <<profile, osKeys>>
    BY <1>4 DEF StoreKeyFile, GoOn, Hold
  <2>2. [mine[p] EXCEPT !.store = "encryptedFileFallback"] \in Record
    BY <2>1, RecordUpdate DEF Held, Stores
  <2>3. Held'
    BY <1>2, <2>1, <2>2 DEF Held
  <2> QED
    BY <1>1, <1>2, <2>1, <2>2, <2>3 DEF Steps
<1>5. CASE StoreFails(p)
  <2>1. pc' = [pc EXCEPT ![p] = "idle"] /\ UNCHANGED <<profile, keyFile, osKeys, mine>>
    BY <1>5 DEF StoreFails, GoOn
  <2>2. Held'
    BY <1>2, <2>1 DEF Held
  <2> QED
    BY <1>1, <1>2, <2>1, <2>2 DEF Steps
<1>6. CASE SaveProfile(p)
  <2>1. /\ pc[p] = "save" /\ pc' = [pc EXCEPT ![p] = "idle"]
        /\ profile' = mine[p] /\ UNCHANGED <<keyFile, osKeys, mine>>
    BY <1>6 DEF SaveProfile, GoOn
  <2>2. Held' /\ mine[p] \in Record
    BY <1>2, <2>1 DEF Held
  <2> QED
    BY <1>1, <1>2, <2>1, <2>2 DEF Steps
<1> QED
  BY <1>3, <1>4, <1>5, <1>6

\* The steps of a wait, but for its save.
LEMMA WaitType ==
    ASSUME TypeInv, NEW p \in Procs,
           WaitStart(p) \/ Unlock(p) \/ WaitFails(p) \/ WaitApproved(p)
    PROVE  TypeInv'
<1> USE DEF TypeInv, TypeOK, past, files
<1>1. loggedOut' \in BOOLEAN /\ disturbed' \in BOOLEAN
  BY DEF WaitStart, Unlock, WaitFails, WaitApproved, Start, GoOn
<1>2. UNCHANGED <<profile, keyFile, osKeys, minted, approved>>
  BY DEF WaitStart, Unlock, WaitFails, WaitApproved
<1>3. CASE WaitStart(p)
  <2>1. /\ profile \in Record /\ pc' = [pc EXCEPT ![p] = "unlock"]
        /\ mine' = [mine EXCEPT ![p] = profile] /\ secret' = secret
    BY <1>3 DEF WaitStart, Start, Hold
  <2>2. Held'
    BY <2>1 DEF Held
  <2> QED
    BY <1>1, <1>2, <2>1, <2>2 DEF Steps
<1>4. CASE Unlock(p)
  <2>1. pc[p] = "unlock" /\ pc' = [pc EXCEPT ![p] = "wait"] /\ mine' = mine
    BY <1>4 DEF Unlock, GoOn
  <2>2. PICK d \in Devices \cup {NoSecret} : secret' = [secret EXCEPT ![p] = d]
    BY <1>4 DEF Unlock
  <2>3. Held'
    BY <2>1, <2>2 DEF Held
  <2> QED
    BY <1>1, <1>2, <2>1, <2>2, <2>3 DEF Steps
<1>5. CASE WaitFails(p)
  <2>1. pc' = [pc EXCEPT ![p] = "idle"] /\ UNCHANGED <<mine, secret>>
    BY <1>5 DEF WaitFails, GoOn
  <2>2. Held'
    BY <2>1 DEF Held
  <2> QED
    BY <1>1, <1>2, <2>1, <2>2 DEF Steps
<1>6. CASE WaitApproved(p)
  <2>1. pc[p] = "wait" /\ pc' = [pc EXCEPT ![p] = "save"] /\ secret' = secret
    BY <1>6 DEF WaitApproved, GoOn
  <2>2. PICK a \in Accounts :
          mine' = [mine EXCEPT ![p] = [mine[p] EXCEPT !.account = a, !.pending = FALSE]]
    BY <1>6 DEF WaitApproved, Hold
  <2>3. [mine[p] EXCEPT !.account = a, !.pending = FALSE] \in Record
    BY <2>1, RecordUpdate DEF Held
  <2>4. Held'
    BY <2>1, <2>2, <2>3 DEF Held
  <2> QED
    BY <1>1, <1>2, <2>1, <2>2, <2>3, <2>4 DEF Steps
<1> QED
  BY <1>3, <1>4, <1>5, <1>6

\* The steps of a logout.
LEMMA LogoutType ==
    ASSUME TypeInv, NEW p \in Procs,
           LogoutStart(p) \/ DropOsKey(p) \/ DropKeyFile(p) \/ DropProfile(p)
    PROVE  TypeInv'
<1> USE DEF TypeInv, TypeOK, past, files
<1>1. loggedOut' \in BOOLEAN /\ disturbed' \in BOOLEAN
  BY DEF LogoutStart, DropOsKey, DropKeyFile, DropProfile, Start, GoOn
<1>2. UNCHANGED <<minted, approved, secret>>
  BY DEF LogoutStart, DropOsKey, DropKeyFile, DropProfile
<1>3. PICK to \in Steps \ {"store", "save", "unlock", "wait"} : pc' = [pc EXCEPT ![p] = to]
  BY DEF LogoutStart, DropOsKey, DropKeyFile, DropProfile, Start, GoOn, Steps
<1>4. PICK r \in Record \cup {Absent} : mine' = [mine EXCEPT ![p] = r]
  BY DEF LogoutStart, DropOsKey, DropKeyFile, DropProfile, Hold
<1>5. Held'
  BY <1>2, <1>3, <1>4 DEF Held
<1>6. profile' \in Record \cup {Absent, Torn}
  BY DEF LogoutStart, DropOsKey, DropKeyFile, DropProfile
<1>7. keyFile' \in Devices \cup {NoSecret} /\ osKeys' \subseteq Devices
  BY DEF LogoutStart, DropOsKey, DropKeyFile, DropProfile
<1> QED
  BY <1>1, <1>2, <1>3, <1>4, <1>5, <1>6, <1>7

\* An approval, and a command killed or refused by the file system.
LEMMA WorldType ==
    ASSUME TypeInv, Approve \/ (\E p \in Procs : FileFails(p) \/ Killed(p)) \/ UNCHANGED vars
    PROVE  TypeInv'
<1> USE DEF TypeInv, TypeOK, past, files
<1>1. CASE Approve
  <2>1. PICK a \in Accounts, d \in 1..minted : approved' = approved \cup {<<a, d>>}
    BY <1>1 DEF Approve
  <2>2. d \in Devices
    BY <2>1 DEF Devices
  <2>3. UNCHANGED <<profile, keyFile, osKeys, pc, mine, secret, minted, loggedOut, disturbed>>
    BY <1>1 DEF Approve
  <2>4. Held'
    BY <2>3 DEF Held
  <2> QED
    BY <2>1, <2>2, <2>3, <2>4
<1>2. ASSUME NEW p \in Procs, FileFails(p) \/ Killed(p) PROVE TypeInv'
  <2>0. Breaks(p) /\ disturbed' \in BOOLEAN
    BY <1>2, Broken
  <2>1. /\ pc' = [pc EXCEPT ![p] = "idle"]
        /\ UNCHANGED <<mine, secret, minted, approved, loggedOut>>
    BY <2>0 DEF Breaks
  <2>2. /\ profile' \in Record \cup {Absent, Torn}
        /\ keyFile' \in Devices \cup {NoSecret} /\ osKeys' \subseteq Devices
    BY <2>0 DEF Breaks
  <2>3. Held'
    BY <2>1 DEF Held
  <2> QED
    BY <2>0, <2>1, <2>2, <2>3 DEF Steps
<1>3. CASE UNCHANGED vars
  BY <1>3 DEF vars, Held
<1> QED
  BY <1>1, <1>2, <1>3

LEMMA TypeStep == TypeInv /\ [Next]_vars => TypeInv'
BY LoginType, WriteType, WaitType, LogoutType, WorldType DEF Next, Command

\* Every file and every process keeps to its type.
THEOREM TypeCorrect == Spec => []TypeOK
<1>1. TypeInv => TypeOK
  BY DEF TypeInv
<1> QED
  BY <1>1, InitType, TypeStep, PTL DEF Spec

-----------------------------------------------------------------------------
(* The invariant *)

Safe == HeldApproved /\ HeldHasOsKey /\ DroppingLoggedOut
            /\ AccountApproved /\ OsKeyOutlivesProfile

\* A login holds the account it was given by hand, or none, and is not yet
\* past its store step.
LEMMA LoginSafe ==
    ASSUME TypeInv, Safe, NEW p \in Procs, NEW force \in BOOLEAN, LoginStart(p, force)
    PROVE  Safe'
<1> USE DEF TypeInv, TypeOK, Safe
<1>1. minted + 1 \in Devices
  BY DEF LoginStart, Devices
<1>2. PICK s \in Stores, a \in Accounts \cup {NoAccount}, b \in BOOLEAN :
        /\ mine' = [mine EXCEPT ![p] = [device |-> minted + 1, account |-> a,
                                       pending |-> ~b, store |-> s]]
        /\ approved' = approved \cup ({<<a, minted + 1>>} \cap (Accounts \X Devices))
  BY DEF LoginStart, Hold
<1>3. /\ pc' = [pc EXCEPT ![p] = "store"]
      /\ UNCHANGED <<profile, osKeys, loggedOut>>
  BY DEF LoginStart, Start, files
<1>4. a # NoAccount => <<a, minted + 1>> \in approved'
  BY <1>1, <1>2
<1>5. HeldApproved'
  BY <1>2, <1>4 DEF HeldApproved
<1>6. HeldHasOsKey' /\ DroppingLoggedOut'
  BY <1>2, <1>3 DEF HeldHasOsKey, DroppingLoggedOut
<1>7. AccountApproved' /\ OsKeyOutlivesProfile'
  BY <1>2, <1>3 DEF AccountApproved, OsKeyOutlivesProfile
<1> QED
  BY <1>5, <1>6, <1>7

\* The key is in the credential store before the profile names it.
LEMMA WriteSafe ==
    ASSUME TypeInv, Safe, NEW p \in Procs,
           StoreOsKey(p) \/ StoreKeyFile(p) \/ StoreFails(p) \/ SaveProfile(p)
    PROVE  Safe'
<1> USE DEF TypeInv, TypeOK, Safe, past, files
<1>1. UNCHANGED <<approved, loggedOut, secret>>
  BY DEF StoreOsKey, StoreKeyFile, StoreFails, SaveProfile, GoOn
<1>2. CASE StoreOsKey(p)
  <2>1. /\ pc[p] = "store" /\ pc' = [pc EXCEPT ![p] = "save"]
        /\ osKeys' = osKeys \cup {mine[p].device} /\ UNCHANGED <<profile, mine>>
    BY <1>2 DEF StoreOsKey, GoOn, Held
  <2>2. HeldApproved' /\ DroppingLoggedOut' /\ AccountApproved'
    BY <1>1, <2>1 DEF HeldApproved, DroppingLoggedOut, AccountApproved
  <2>3. HeldHasOsKey' /\ OsKeyOutlivesProfile'
    BY <1>1, <2>1 DEF HeldHasOsKey, OsKeyOutlivesProfile
  <2> QED
    BY <2>2, <2>3
<1>3. CASE StoreKeyFile(p)
  <2> DEFINE r == [mine[p] EXCEPT !.store = "encryptedFileFallback"]
  <2>1. /\ pc[p] = "store" /\ pc' = [pc EXCEPT ![p] = "save"]
        /\ mine' = [mine EXCEPT ![p] = r] /\ UNCHANGED <<profile, osKeys>>
    BY <1>3 DEF StoreKeyFile, GoOn, Hold
  <2>2. /\ mine[p] \in Record /\ r.store = "encryptedFileFallback"
        /\ r.account = mine[p].account /\ r.device = mine[p].device
    BY <2>1 DEF Held, Record
  <2> HIDE DEF r
  <2>3. HeldApproved' /\ DroppingLoggedOut' /\ AccountApproved'
    BY <1>1, <2>1, <2>2 DEF HeldApproved, DroppingLoggedOut, AccountApproved
  <2>4. HeldHasOsKey' /\ OsKeyOutlivesProfile'
    BY <1>1, <2>1, <2>2 DEF HeldHasOsKey, OsKeyOutlivesProfile
  <2> QED
    BY <2>3, <2>4
<1>4. CASE StoreFails(p)
  <2>1. pc' = [pc EXCEPT ![p] = "idle"] /\ UNCHANGED <<profile, osKeys, mine>>
    BY <1>4 DEF StoreFails, GoOn
  <2> QED
    BY <1>1, <2>1 DEF HeldApproved, HeldHasOsKey, DroppingLoggedOut, AccountApproved,
                      OsKeyOutlivesProfile
<1>5. CASE SaveProfile(p)
  <2>1. /\ pc[p] = "save" /\ pc' = [pc EXCEPT ![p] = "idle"]
        /\ profile' = mine[p] /\ UNCHANGED <<osKeys, mine>>
    BY <1>5 DEF SaveProfile, GoOn
  <2>2. HeldApproved' /\ HeldHasOsKey' /\ DroppingLoggedOut'
    BY <1>1, <2>1 DEF HeldApproved, HeldHasOsKey, DroppingLoggedOut
  <2>3. AccountApproved' /\ OsKeyOutlivesProfile'
    BY <1>1, <2>1 DEF AccountApproved, OsKeyOutlivesProfile, HeldApproved, HeldHasOsKey
  <2> QED
    BY <2>2, <2>3
<1> QED
  BY <1>2, <1>3, <1>4, <1>5

\* A wait holds the profile it read, and sets in it the account that approved
\* its device.
LEMMA WaitSafe ==
    ASSUME TypeInv, Safe, NEW p \in Procs,
           WaitStart(p) \/ Unlock(p) \/ WaitFails(p) \/ WaitApproved(p)
    PROVE  Safe'
<1> USE DEF TypeInv, TypeOK, Safe, past, files
<1>1. UNCHANGED <<profile, osKeys, approved, loggedOut>>
  BY DEF WaitStart, Unlock, WaitFails, WaitApproved, GoOn
<1>2. AccountApproved' /\ OsKeyOutlivesProfile'
  BY <1>1 DEF AccountApproved, OsKeyOutlivesProfile
<1>3. CASE WaitStart(p)
  <2>1. /\ profile \in Record /\ pc' = [pc EXCEPT ![p] = "unlock"]
        /\ mine' = [mine EXCEPT ![p] = profile]
    BY <1>3 DEF WaitStart, Start, Hold
  <2>2. HeldApproved'
    BY <1>1, <2>1 DEF HeldApproved, AccountApproved
  <2>3. HeldHasOsKey' /\ DroppingLoggedOut'
    BY <1>1, <2>1 DEF HeldHasOsKey, OsKeyOutlivesProfile, DroppingLoggedOut
  <2> QED
    BY <1>2, <2>2, <2>3
<1>4. CASE Unlock(p)
  <2>1. pc[p] = "unlock" /\ pc' = [pc EXCEPT ![p] = "wait"] /\ mine' = mine
    BY <1>4 DEF Unlock, GoOn
  <2> QED
    BY <1>1, <1>2, <2>1 DEF HeldApproved, HeldHasOsKey, DroppingLoggedOut
<1>5. CASE WaitFails(p)
  <2>1. pc' = [pc EXCEPT ![p] = "idle"] /\ mine' = mine
    BY <1>5 DEF WaitFails, GoOn
  <2> QED
    BY <1>1, <1>2, <2>1 DEF HeldApproved, HeldHasOsKey, DroppingLoggedOut
<1>6. CASE WaitApproved(p)
  <2>1. pc[p] = "wait" /\ pc' = [pc EXCEPT ![p] = "save"]
    BY <1>6 DEF WaitApproved, GoOn
  <2>2. PICK a \in Accounts :
          /\ <<a, mine[p].device>> \in approved
          /\ mine' = [mine EXCEPT ![p] = [mine[p] EXCEPT !.account = a, !.pending = FALSE]]
    BY <1>6 DEF WaitApproved, Hold
  <2> DEFINE r == [mine[p] EXCEPT !.account = a, !.pending = FALSE]
  <2>3. r.account = a /\ r.device = mine[p].device /\ r.store = mine[p].store
    BY <2>1 DEF Held, Record
  <2>4. mine' = [mine EXCEPT ![p] = r]
    BY <2>2
  <2> HIDE DEF r
  <2>5. HeldApproved'
    BY <1>1, <2>2, <2>3, <2>4 DEF HeldApproved
  <2>6. HeldHasOsKey' /\ DroppingLoggedOut'
    BY <1>1, <2>1, <2>3, <2>4 DEF HeldHasOsKey, DroppingLoggedOut
  <2> QED
    BY <1>2, <2>5, <2>6
<1> QED
  BY <1>3, <1>4, <1>5, <1>6

\* A logout takes keys away, and is noted as such before it does.
LEMMA LogoutSafe ==
    ASSUME TypeInv, Safe, NEW p \in Procs,
           LogoutStart(p) \/ DropOsKey(p) \/ DropKeyFile(p) \/ DropProfile(p)
    PROVE  Safe'
<1> USE DEF TypeInv, TypeOK, Safe, past, files
<1>1. loggedOut' /\ approved' = approved
  BY DEF LogoutStart, DropOsKey, DropKeyFile, DropProfile, GoOn, DroppingLoggedOut
<1>2. HeldHasOsKey' /\ DroppingLoggedOut' /\ OsKeyOutlivesProfile'
  BY <1>1 DEF HeldHasOsKey, DroppingLoggedOut, OsKeyOutlivesProfile
<1>3. profile' = profile \/ profile' = Absent
  BY DEF LogoutStart, DropOsKey, DropKeyFile, DropProfile
<1>4. AccountApproved'
  BY <1>1, <1>3, NoFileNoRecord DEF AccountApproved
<1>5. mine' = mine \/ \E r \in {profile, Absent} : mine' = [mine EXCEPT ![p] = r]
  BY DEF LogoutStart, DropOsKey, DropKeyFile, DropProfile, Hold
<1>6. HeldApproved'
  BY <1>1, <1>5, NoFileNoRecord DEF HeldApproved, AccountApproved
<1> QED
  BY <1>2, <1>4, <1>6

\* A command that is broken off writes no more; at worst it leaves a torn file.
LEMMA WorldSafe ==
    ASSUME TypeInv, Safe, Approve \/ (\E p \in Procs : Breaks(p)) \/ UNCHANGED vars
    PROVE  Safe'
<1> USE DEF TypeInv, TypeOK, Safe, past, files
<1>1. UNCHANGED <<osKeys, mine, loggedOut>> /\ approved \subseteq approved'
  BY DEF Approve, Breaks, vars
<1>2. profile' = profile \/ profile' = Torn
  BY DEF Approve, Breaks, vars
<1>3. pc' = pc \/ \E p \in Procs : pc' = [pc EXCEPT ![p] = "idle"]
  BY DEF Approve, Breaks, vars
<1>4. HeldApproved'
  BY <1>1 DEF HeldApproved
<1>5. HeldHasOsKey' /\ DroppingLoggedOut'
  BY <1>1, <1>3 DEF HeldHasOsKey, DroppingLoggedOut
<1>6. AccountApproved' /\ OsKeyOutlivesProfile'
  BY <1>1, <1>2, NoFileNoRecord DEF AccountApproved, OsKeyOutlivesProfile
<1> QED
  BY <1>4, <1>5, <1>6

LEMMA ProfileInvAlways == Spec => []ProfileInv
<1>1. Init => TypeInv /\ Safe
  <2> SUFFICES ASSUME Init PROVE Safe
    BY InitType
  <2>1. HeldApproved /\ AccountApproved
    BY NoFileNoRecord DEF Init, HeldApproved, AccountApproved
  <2>2. HeldHasOsKey /\ DroppingLoggedOut /\ OsKeyOutlivesProfile
    BY NoFileNoRecord DEF Init, HeldHasOsKey, DroppingLoggedOut, OsKeyOutlivesProfile
  <2> QED
    BY <2>1, <2>2 DEF Safe
<1>2. (TypeInv /\ Safe) /\ [Next]_vars => (TypeInv /\ Safe)'
  <2>1. TypeInv /\ Safe /\ [Next]_vars => Safe'
    BY LoginSafe, WriteSafe, WaitSafe, LogoutSafe, WorldSafe, Broken DEF Next, Command, TypeInv, TypeOK
  <2> QED
    BY <2>1, TypeStep
<1>3. TypeInv /\ Safe => ProfileInv
  BY DEF ProfileInv, TypeInv, Safe
<1> QED
  BY <1>1, <1>2, <1>3, PTL DEF Spec

-----------------------------------------------------------------------------
(* What the files keep to *)

\* An account stands in the profile only with a device it approved, whatever
\* processes overlap or are killed.
THEOREM AccountSound == Spec => []AccountApproved
<1>1. ProfileInv => AccountApproved
  BY DEF ProfileInv
<1> QED
  BY <1>1, ProfileInvAlways, PTL

\* A profile whose key is in the credential store can be unlocked until someone
\* logs out.
THEOREM OsKeySound == Spec => []OsKeyOutlivesProfile
<1>1. ProfileInv => OsKeyOutlivesProfile
  BY DEF ProfileInv
<1> QED
  BY <1>1, ProfileInvAlways, PTL

-----------------------------------------------------------------------------
(* One command after the other *)

\* A record whose key is there and is its own.
Keyed(record) == record \in Record => KeyOf(record) = record.device

\* As long as nothing was disturbed one command runs at a time, and the profile
\* has its key but for the time from the first key touched to the profile.
OneByOne ==
    ~disturbed =>
        /\ \A p, q \in Procs : pc[p] # "idle" /\ pc[q] # "idle" => p = q
        /\ (\A p \in Procs : pc[p] \notin {"save", "dropKeyFile", "dropProfile"}) => Keyed(profile)
        /\ \A p \in Procs : pc[p] \in {"save", "unlock", "wait"} => Keyed(mine[p])

\* A step of the one command that runs.
LEMMA StepAlone ==
    ASSUME TypeInv, OneByOne, NEW p \in Procs, ~disturbed, ~disturbed',
           NEW s \in Steps, pc' = [pc EXCEPT ![p] = s],
           \A q \in Procs : q # p => pc[q] = "idle" /\ mine'[q] = mine[q],
           s \notin {"save", "dropKeyFile", "dropProfile"} => Keyed(profile)',
           s \in {"save", "unlock", "wait"} => Keyed(mine[p])'
    PROVE  OneByOne'
<1>1. pc \in [Procs -> Steps]
  BY DEF TypeInv, TypeOK
<1>2. pc'[p] = s /\ \A q \in Procs : q # p => pc'[q] = "idle"
  BY <1>1
<1>3. \A q, r \in Procs : pc'[q] # "idle" /\ pc'[r] # "idle" => q = r
  BY <1>2
<1>4. (\A q \in Procs : pc'[q] \notin {"save", "dropKeyFile", "dropProfile"}) => Keyed(profile)'
  BY <1>2
<1>5. \A q \in Procs : pc'[q] \in {"save", "unlock", "wait"} => Keyed(mine[q])'
  BY <1>2
<1> QED
  BY <1>3, <1>4, <1>5 DEF OneByOne, Keyed, KeyOf

\* A write that fails and replaces no profile leaves the one that stands as it
\* was, with its key, or leaves none.
LEMMA FailedAlone ==
    ASSUME TypeInv, OneByOne, NEW p \in Procs, FileFails(p), ~disturbed'
    PROVE  OneByOne'
<1>1. /\ ~disturbed /\ ~Replaces(p) /\ pc[p] \in {"store", "save"} /\ mine' = mine
      /\ pc' = [pc EXCEPT ![p] = "idle"]
  BY DEF FileFails, Breaks
<1>2. \A q \in Procs : q # p => pc[q] = "idle"
  BY <1>1 DEF OneByOne
<1>3. Keyed(profile)'
  <2>1. CASE profile' \notin Record
    BY <2>1 DEF Keyed
  <2>2. CASE profile' \in Record
    <3>1. profile' = profile /\ pc[p] = "save"
      BY <1>1, <2>2, NoFileNoRecord DEF FileFails, Breaks, Replaces, files
    <3>2. UNCHANGED files
      BY <2>2, <3>1, NoFileNoRecord DEF FileFails, Breaks, files
    <3>3. Keyed(mine[p]) /\ mine[p] \in Record
      BY <1>1, <3>1 DEF OneByOne, TypeInv, Held
    <3>4. profile.device = mine[p].device /\ profile.store = mine[p].store
      BY <1>1, <2>2, <3>1 DEF Replaces
    <3> QED
      BY <3>2, <3>3, <3>4 DEF Keyed, KeyOf, files
  <2> QED
    BY <2>1, <2>2
<1> QED
  BY <1>1, <1>2, <1>3, StepAlone DEF Steps

LEMMA OneByOneStep == TypeInv /\ OneByOne /\ [Next]_vars => OneByOne'
<1> SUFFICES ASSUME TypeInv, OneByOne, [Next]_vars PROVE OneByOne'
  OBVIOUS
<1>1. CASE disturbed'
  BY <1>1 DEF OneByOne
<1>2. CASE UNCHANGED <<files, pc, mine, disturbed>>
  BY <1>2 DEF OneByOne, Keyed, KeyOf, files
<1>3. ASSUME NEW p \in Procs, Command(p), ~disturbed' PROVE OneByOne'
  <2>1. ~disturbed
    BY <1>3 DEF Command, LoginStart, StoreOsKey, StoreKeyFile, StoreFails, SaveProfile, WaitStart,
        Unlock, WaitFails, WaitApproved, LogoutStart, DropOsKey, DropKeyFile, DropProfile,
        Start, GoOn, past
  <2>2. /\ pc \in [Procs -> Steps] /\ mine \in [Procs -> Record \cup {Absent}]
        /\ profile \in Record \cup {Absent, Torn} /\ Absent \notin Record
    BY NoFileNoRecord DEF TypeInv, TypeOK
  <2>3. \A q \in Procs : q # p => pc[q] = "idle"
    <3>1. CASE pc[p] # "idle"
      BY <2>1, <3>1 DEF OneByOne
    <3>2. CASE pc[p] = "idle"
      BY <1>3, <3>2 DEF Command, LoginStart, StoreOsKey, StoreKeyFile, StoreFails, SaveProfile,
          WaitStart, Unlock, WaitFails, WaitApproved, LogoutStart, DropOsKey, DropKeyFile,
          DropProfile, Start, GoOn
    <3> QED
      BY <3>1, <3>2
  <2>4. pc[p] \notin {"save", "dropKeyFile", "dropProfile"} => Keyed(profile)
    BY <2>1, <2>3 DEF OneByOne
  <2>5. pc[p] \in {"save", "unlock", "wait"} => Keyed(mine[p])
    BY <2>1 DEF OneByOne
  <2>6. ASSUME NEW force \in BOOLEAN, LoginStart(p, force) PROVE OneByOne'
    <3>1. pc' = [pc EXCEPT ![p] = "store"] /\ UNCHANGED files /\ pc[p] = "idle"
      BY <2>6 DEF LoginStart, Start
    <3>2. \A q \in Procs : q # p => mine'[q] = mine[q]
      BY <2>2, <2>6 DEF LoginStart, Hold
    <3>3. Keyed(profile)'
      BY <2>4, <3>1 DEF Keyed, KeyOf, files
    <3> QED
      BY <1>3, <2>1, <2>3, <3>1, <3>2, <3>3, StepAlone DEF Steps
  <2>7. CASE StoreOsKey(p)
    <3>1. /\ pc[p] = "store" /\ pc' = [pc EXCEPT ![p] = "save"] /\ mine' = mine
          /\ osKeys' = osKeys \cup {secret[p]} /\ mine[p].store = "osCredentialStore"
      BY <2>7 DEF StoreOsKey, GoOn
    <3>2. mine'[p] \in Record /\ secret[p] = mine[p].device
      BY <3>1 DEF TypeInv, Held
    <3>3. Keyed(mine[p])'
      BY <3>1, <3>2 DEF Keyed, KeyOf
    <3> QED
      BY <1>3, <2>1, <2>3, <3>1, <3>3, StepAlone DEF Steps
  <2>8. CASE StoreKeyFile(p)
    <3>1. /\ pc[p] = "store" /\ pc' = [pc EXCEPT ![p] = "save"] /\ keyFile' = secret[p]
          /\ mine' = [mine EXCEPT ![p] = [mine[p] EXCEPT !.store = "encryptedFileFallback"]]
      BY <2>8 DEF StoreKeyFile, GoOn, Hold
    <3>2. mine[p] \in Record /\ secret[p] = mine[p].device
      BY <3>1 DEF TypeInv, Held
    <3>3. mine'[p].store = "encryptedFileFallback" /\ mine'[p].device = mine[p].device
      BY <2>2, <3>1, <3>2 DEF Record
    <3>4. Keyed(mine[p])'
      BY <3>1, <3>2, <3>3 DEF Keyed, KeyOf
    <3>5. \A q \in Procs : q # p => mine'[q] = mine[q]
      BY <2>2, <3>1
    <3> QED
      BY <1>3, <2>1, <2>3, <3>1, <3>4, <3>5, StepAlone DEF Steps
  <2>9. CASE StoreFails(p) \/ WaitFails(p)
    <3>1. pc[p] \in {"store", "unlock", "wait"} /\ pc' = [pc EXCEPT ![p] = "idle"]
          /\ UNCHANGED <<files, mine>>
      BY <2>9 DEF StoreFails, WaitFails, GoOn
    <3>2. Keyed(profile)'
      BY <2>4, <3>1 DEF Keyed, KeyOf, files
    <3> QED
      BY <1>3, <2>1, <2>3, <3>1, <3>2, StepAlone DEF Steps
  <2>10. CASE SaveProfile(p)
    <3>1. /\ pc[p] = "save" /\ pc' = [pc EXCEPT ![p] = "idle"] /\ profile' = mine[p]
          /\ UNCHANGED <<keyFile, osKeys, mine>>
      BY <2>10 DEF SaveProfile, GoOn
    <3>2. Keyed(profile)'
      BY <2>5, <3>1 DEF Keyed, KeyOf
    <3> QED
      BY <1>3, <2>1, <2>3, <3>1, <3>2, StepAlone DEF Steps
  <2>11. CASE WaitStart(p)
    <3>1. /\ pc[p] = "idle" /\ pc' = [pc EXCEPT ![p] = "unlock"] /\ UNCHANGED files
          /\ mine' = [mine EXCEPT ![p] = profile]
      BY <2>11 DEF WaitStart, Start, Hold
    <3>2. mine'[p] = profile /\ \A q \in Procs : q # p => mine'[q] = mine[q]
      BY <2>2, <3>1
    <3>3. Keyed(profile)' /\ Keyed(mine[p])'
      BY <2>4, <3>1, <3>2 DEF Keyed, KeyOf, files
    <3> QED
      BY <1>3, <2>1, <2>3, <3>1, <3>2, <3>3, StepAlone DEF Steps
  <2>12. CASE Unlock(p)
    <3>1. pc[p] = "unlock" /\ pc' = [pc EXCEPT ![p] = "wait"] /\ UNCHANGED <<files, mine>>
      BY <2>12 DEF Unlock, GoOn
    <3>2. Keyed(profile)' /\ Keyed(mine[p])'
      BY <2>4, <2>5, <3>1 DEF Keyed, KeyOf, files
    <3> QED
      BY <1>3, <2>1, <2>3, <3>1, <3>2, StepAlone DEF Steps
  <2>13. CASE WaitApproved(p)
    <3>1. pc[p] = "wait" /\ pc' = [pc EXCEPT ![p] = "save"] /\ UNCHANGED files
      BY <2>13 DEF WaitApproved, GoOn
    <3>2. mine[p] \in Record
      BY <3>1 DEF TypeInv, Held
    <3>3. PICK a \in Accounts :
            mine' = [mine EXCEPT ![p] = [mine[p] EXCEPT !.account = a, !.pending = FALSE]]
      BY <2>13 DEF WaitApproved, Hold
    <3>4. /\ mine'[p].store = mine[p].store /\ mine'[p].device = mine[p].device
          /\ \A q \in Procs : q # p => mine'[q] = mine[q]
      BY <2>2, <3>2, <3>3 DEF Record
    <3>5. Keyed(mine[p])'
      BY <2>5, <3>1, <3>2, <3>4 DEF Keyed, KeyOf, files
    <3> QED
      BY <1>3, <2>1, <2>3, <3>1, <3>4, <3>5, StepAlone DEF Steps
  <2>14. CASE LogoutStart(p)
    <3>1. /\ pc[p] = "idle" /\ pc' = [pc EXCEPT ![p] = "dropOsKey"] /\ UNCHANGED files
      BY <2>14 DEF LogoutStart, Start
    <3>2. \A q \in Procs : q # p => mine'[q] = mine[q]
      BY <2>2, <2>14 DEF LogoutStart, Hold
    <3>3. Keyed(profile)'
      BY <2>4, <3>1 DEF Keyed, KeyOf, files
    <3> QED
      BY <1>3, <2>1, <2>3, <3>1, <3>2, <3>3, StepAlone DEF Steps
  <2>15. CASE DropOsKey(p) \/ DropKeyFile(p)
    <3>1. mine' = mine /\ \E s \in {"dropKeyFile", "dropProfile"} : pc' = [pc EXCEPT ![p] = s]
      BY <2>15 DEF DropOsKey, DropKeyFile, GoOn
    <3> QED
      BY <1>3, <2>1, <2>3, <3>1, StepAlone DEF Steps
  <2>16. CASE DropProfile(p)
    <3>1. pc' = [pc EXCEPT ![p] = "idle"] /\ profile' = Absent /\ mine' = mine
      BY <2>16 DEF DropProfile, GoOn
    <3>2. Keyed(profile)'
      BY <2>2, <3>1 DEF Keyed, Record
    <3> QED
      BY <1>3, <2>1, <2>3, <3>1, <3>2, StepAlone DEF Steps
  <2> QED
    BY <1>3, <2>6, <2>7, <2>8, <2>9, <2>10, <2>11, <2>12, <2>13, <2>14, <2>15, <2>16 DEF Command
<1>4. ASSUME NEW p \in Procs, FileFails(p), ~disturbed' PROVE OneByOne'
  BY <1>4, FailedAlone
<1>6. ASSUME NEW p \in Procs, Killed(p) PROVE disturbed'
  BY <1>6 DEF Killed
<1>5. Approve \/ UNCHANGED vars => UNCHANGED <<files, pc, mine, disturbed>>
  BY DEF Approve, vars, files, past
<1> QED
  BY <1>1, <1>2, <1>3, <1>4, <1>5, <1>6 DEF Next

\* Logins, waits and logouts that run one after the other, none of them killed,
\* never leave a profile behind without its own key, although a file may fail to
\* be written at any of them; but for a forced login whose write fails and a
\* logout whose removal does.
THEOREM KeySound == Spec => []UndisturbedProfileHasItsKey
<1>1. Init => OneByOne
  BY NoFileNoRecord DEF Init, OneByOne, Keyed
<1>2. TypeInv /\ OneByOne /\ [Next]_vars => OneByOne'
  BY OneByOneStep
<1>3. OneByOne => UndisturbedProfileHasItsKey
  BY DEF OneByOne, Keyed, UndisturbedProfileHasItsKey, ProfileHasItsKey, Quiet
<1>4. TypeInv /\ [Next]_vars => TypeInv'
  BY TypeStep
<1>5. Init => TypeInv
  BY InitType
<1> QED
  BY <1>1, <1>2, <1>3, <1>4, <1>5, PTL DEF Spec

-----------------------------------------------------------------------------
(* What a logout took away *)

\* A login is about to store the secret of device d.
Storing(d) == \E p \in Procs : pc[p] = "store" /\ secret[p] = d

\* A record refers to a device that has been made.
Settled(r) == r \in Record => r.device \in 1..minted

\* Every secret is stored once, by the login that made it: until then no record
\* but that login's refers to its device.
StoredOnce ==
    /\ osKeys \subseteq 1..minted
    /\ Settled(profile)
    /\ \A p \in Procs : Settled(mine[p])
    /\ profile \in Record => ~Storing(profile.device)
    /\ \A p, q \in Procs :
          pc[p] = "store" /\ mine[q] \in Record /\ mine[q].device = secret[p] => p = q
    /\ \A p \in Procs : pc[p] = "store" => secret[p] \notin osKeys

\* A device that was made, has no credential and gets none.
Gone(d) == d \in 1..minted /\ d \notin osKeys /\ ~Storing(d)

\* The profile names device d, or a process past the store step of its login does.
Named(d) ==
    \/ profile \in Record /\ profile.device = d
    \/ \E p \in Procs : pc[p] # "store" /\ mine[p] \in Record /\ mine[p].device = d

\* Record r names the device of a record past its store step.
Copied(r) ==
    r \in Record =>
        \E s \in Record :
            /\ s = profile \/ \E q \in Procs : pc[q] # "store" /\ s = mine[q]
            /\ r.device = s.device

\* Such a record is sound.
LEMMA CopiedSettled ==
    ASSUME TypeInv, StoredOnce, NEW r \in Record, Copied(r)
    PROVE  /\ Settled(r)
           /\ ~Storing(r.device)
<1>1. PICK s \in Record :
        /\ s = profile \/ \E q \in Procs : pc[q] # "store" /\ s = mine[q]
        /\ r.device = s.device
  BY DEF Copied
<1>2. CASE s = profile
  BY <1>1, <1>2 DEF StoredOnce, Settled
<1>3. ASSUME NEW q \in Procs, pc[q] # "store", s = mine[q]
      PROVE  Settled(r) /\ ~Storing(r.device)
  <2>1. Settled(mine[q])
    BY DEF StoredOnce
  <2>2. Settled(r)
    BY <1>1, <1>3, <2>1 DEF Settled
  <2>3. ASSUME NEW p \in Procs, pc[p] = "store", secret[p] = r.device PROVE FALSE
    <3>1. mine[q] \in Record /\ mine[q].device = secret[p]
      BY <1>1, <1>3, <2>3
    <3>2. p = q
      BY <2>3, <3>1 DEF StoredOnce
    <3> QED
      BY <1>3, <2>3, <3>2
  <2> QED
    BY <2>2, <2>3 DEF Storing
<1> QED
  BY <1>1, <1>2, <1>3

\* A step that stores nothing, makes no device and takes over only records past
\* their store step.
LEMMA CopiesKeep ==
    ASSUME TypeInv, StoredOnce, minted' = minted, osKeys' \subseteq osKeys,
           \A q \in Procs : pc'[q] = "store" => pc[q] = "store" /\ secret'[q] = secret[q],
           Copied(profile'),
           \A q \in Procs : mine'[q] = mine[q] \/ Copied(mine'[q])
    PROVE  StoredOnce'
<1>1. \A r : Settled(r) => Settled(r)'
  BY DEF Settled
<1>2. \A d : ~Storing(d) => ~Storing(d)'
  BY DEF Storing
<1>3. (osKeys \subseteq 1..minted)'
  BY DEF StoredOnce
<1>4. Settled(profile)' /\ (profile \in Record => ~Storing(profile.device))'
  <2>1. CASE profile' \in Record
    <3> DEFINE r == profile'
    <3>1. Settled(r) /\ ~Storing(r.device)
      BY <2>1, CopiedSettled
    <3> QED
      BY <2>1, <3>1 DEF Settled, Storing
  <2> QED
    BY <2>1 DEF Settled
<1>5. ASSUME NEW q \in Procs
      PROVE  /\ Settled(mine[q])'
             /\ mine'[q] \in Record =>
                  \A p \in Procs : pc'[p] = "store" /\ mine'[q].device = secret'[p] => p = q
  <2>1. CASE mine'[q] = mine[q]
    <3>1. Settled(mine[q])
      BY DEF StoredOnce
    <3>2. Settled(mine[q])'
      BY <2>1, <3>1 DEF Settled
    <3>3. mine[q] \in Record =>
            \A p \in Procs : pc[p] = "store" /\ mine[q].device = secret[p] => p = q
      BY DEF StoredOnce
    <3> QED
      BY <2>1, <3>2, <3>3
  <2>2. CASE Copied(mine'[q]) /\ mine'[q] \in Record
    <3> DEFINE r == mine'[q]
    <3>1. Settled(r) /\ ~Storing(r.device)
      BY <2>2, CopiedSettled
    <3>2. Settled(mine[q])'
      BY <2>2, <3>1 DEF Settled
    <3>3. \A p \in Procs : pc'[p] = "store" => r.device # secret'[p]
      BY <3>1 DEF Storing
    <3> QED
      BY <3>2, <3>3
  <2>3. CASE mine'[q] \notin Record
    BY <2>3 DEF Settled
  <2> QED
    BY <2>1, <2>2, <2>3
<1>6. \A p \in Procs : pc'[p] = "store" => secret'[p] \notin osKeys'
  BY DEF StoredOnce
<1> QED
  BY <1>3, <1>4, <1>5, <1>6 DEF StoredOnce

\* What stands is a copy of itself.
LEMMA ProfileCopied == Copied(profile)
BY DEF Copied

LEMMA MineCopied ==
    ASSUME NEW q \in Procs, pc[q] # "store" PROVE Copied(mine[q])
BY DEF Copied

\* A login makes a device that nothing refers to.
LEMMA LoginStores ==
    ASSUME TypeInv, StoredOnce, NEW p \in Procs, NEW force \in BOOLEAN,
           LoginStart(p, force)
    PROVE  StoredOnce'
<1>1. PICK s \in Stores, a \in Accounts \cup {NoAccount}, b \in BOOLEAN :
        mine' = [mine EXCEPT ![p] = [device |-> minted + 1, account |-> a,
                                     pending |-> ~b, store |-> s]]
  BY DEF LoginStart, Hold
<1>2. /\ pc' = [pc EXCEPT ![p] = "store"] /\ pc[p] = "idle"
      /\ secret' = [secret EXCEPT ![p] = minted + 1]
      /\ minted' = minted + 1
      /\ profile' = profile /\ osKeys' = osKeys
  BY DEF LoginStart, Start, files
<1>3. /\ minted \in Nat /\ pc \in [Procs -> Steps]
      /\ secret \in [Procs -> Devices \cup {NoSecret}]
      /\ mine \in [Procs -> Record \cup {Absent}]
  BY DEF TypeInv, TypeOK
<1>4. minted + 1 \notin 1..minted /\ 1..minted \subseteq 1..minted' /\ minted + 1 \in 1..minted'
  BY <1>2, <1>3
<1>5. osKeys \subseteq 1..minted /\ minted + 1 \notin osKeys
  BY <1>4 DEF StoredOnce
<1>6. \A r : Settled(r) => Settled(r)'
  BY <1>2, <1>4 DEF Settled
<1>7. mine'[p].device = minted + 1 /\ \A q \in Procs : q # p => mine'[q] = mine[q]
  BY <1>1, <1>3
<1>8. \A q \in Procs : Settled(mine[q])'
  <2> TAKE q \in Procs
  <2>1. CASE q = p
    BY <1>2, <1>4, <1>5, <1>7, <2>1 DEF Settled
  <2>2. CASE q # p
    <3>1. Settled(mine[q])
      BY DEF StoredOnce
    <3> QED
      BY <1>2, <1>4, <1>7, <2>2, <3>1 DEF Settled
  <2> QED
    BY <2>1, <2>2
<1>9. \A q \in Procs : q # p =>
        /\ mine[q] \in Record => mine[q].device # minted + 1
        /\ pc[q] = "store" => secret[q] # minted + 1 /\ secret[q] \in 1..minted
  <2> TAKE q \in Procs
  <2>1. Settled(mine[q])
    BY DEF StoredOnce
  <2>2. mine[q] \in Record => mine[q].device \in 1..minted
    BY <2>1 DEF Settled
  <2>3. pc[q] = "store" => mine[q] \in Record /\ secret[q] = mine[q].device
    BY DEF TypeInv, Held
  <2> QED
    BY <1>4, <2>2, <2>3
<1>10. \A q \in Procs : q # p => pc'[q] = pc[q] /\ secret'[q] = secret[q]
  BY <1>2, <1>3
<1>11. pc'[p] = "store" /\ secret'[p] = minted + 1
  BY <1>2, <1>3
<1>12. profile \in Record => profile.device \in 1..minted /\ ~Storing(profile.device)
  BY DEF StoredOnce, Settled
<1>13. (profile \in Record => ~Storing(profile.device))'
  BY <1>2, <1>4, <1>10, <1>11, <1>12 DEF Storing
<1>14. ASSUME NEW o \in Procs, NEW q \in Procs,
              pc'[o] = "store", mine'[q] \in Record, mine'[q].device = secret'[o]
       PROVE  o = q
  <2>1. CASE o = p /\ q # p
    BY <1>7, <1>9, <1>11, <1>14, <2>1
  <2>2. CASE o # p /\ q = p
    BY <1>7, <1>9, <1>10, <1>14, <2>2
  <2>3. CASE o # p /\ q # p
    BY <1>7, <1>10, <1>14, <2>3 DEF StoredOnce
  <2> QED
    BY <2>1, <2>2, <2>3
<1>15. \A q \in Procs : pc'[q] = "store" => secret'[q] \notin osKeys'
  BY <1>2, <1>5, <1>10, <1>11 DEF StoredOnce
<1>16. Settled(profile)'
  BY <1>2, <1>6 DEF StoredOnce, Settled
<1>17. (osKeys \subseteq 1..minted)'
  BY <1>2, <1>4, <1>5
<1> QED
  BY <1>8, <1>13, <1>14, <1>15, <1>16, <1>17 DEF StoredOnce

\* Its secret goes into one store or the other.
LEMMA StoreStores ==
    ASSUME TypeInv, StoredOnce, NEW p \in Procs,
           StoreOsKey(p) \/ StoreKeyFile(p) \/ StoreFails(p)
    PROVE  StoredOnce'
<1> DEFINE d == secret[p]
<1>1. /\ pc[p] = "store" /\ minted' = minted /\ secret' = secret
      /\ profile' = profile
      /\ pc'[p] # "store" /\ \A q \in Procs : q # p => pc'[q] = pc[q]
  BY DEF StoreOsKey, StoreKeyFile, StoreFails, GoOn, files, TypeInv, TypeOK
<1>2. mine[p] \in Record /\ mine[p].device = d
  BY <1>1 DEF TypeInv, Held
<1>3. d \in 1..minted /\ d \notin osKeys
  BY <1>1, <1>2 DEF StoredOnce, Settled
<1>4. \A q \in Procs : q # p => (mine[q] \in Record => mine[q].device # d)
  BY <1>1 DEF StoredOnce
<1>5. profile \in Record => profile.device # d
  BY <1>1 DEF StoredOnce, Storing
<1>6. \A q \in Procs : q # p /\ pc[q] = "store" => secret[q] # d
  BY <1>2 DEF StoredOnce
<1>7. \A q \in Procs : pc'[q] = "store" => q # p /\ pc[q] = "store"
  BY <1>1
<1>8. CASE StoreOsKey(p)
  <2>1. osKeys' = osKeys \cup {d} /\ mine' = mine
    BY <1>8 DEF StoreOsKey
  <2>2. Settled(profile)'
    BY <1>1, <1>5, <2>1 DEF StoredOnce, Settled
  <2>3. \A q \in Procs : Settled(mine[q])'
    BY <1>1, <1>2, <1>4, <2>1 DEF StoredOnce, Settled
  <2>4. (osKeys \subseteq 1..minted)'
    BY <1>1, <1>3, <2>1 DEF StoredOnce
  <2>5. \A q \in Procs : pc'[q] = "store" => secret'[q] \notin osKeys'
    BY <1>1, <1>6, <1>7, <2>1 DEF StoredOnce
  <2>6. (profile \in Record => ~Storing(profile.device))'
    BY <1>1, <1>7 DEF StoredOnce, Storing
  <2>7. \A o, q \in Procs :
          pc'[o] = "store" /\ mine'[q] \in Record /\ mine'[q].device = secret'[o] => o = q
    BY <1>1, <1>7, <2>1 DEF StoredOnce
  <2> QED
    BY <2>2, <2>3, <2>4, <2>5, <2>6, <2>7 DEF StoredOnce
<1>9. CASE StoreKeyFile(p)
  <2>1. /\ osKeys' = osKeys
        /\ mine' = [mine EXCEPT ![p] = [mine[p] EXCEPT !.store = "encryptedFileFallback"]]
    BY <1>9 DEF StoreKeyFile, Hold
  <2>2. mine'[p].device = d /\ \A q \in Procs : q # p => mine'[q] = mine[q]
    BY <1>2, <2>1 DEF TypeInv, TypeOK, Record
  <2>3. Settled(profile)'
    BY <1>1, <2>1 DEF StoredOnce, Settled
  <2>4. \A q \in Procs : Settled(mine[q])'
    BY <1>1, <1>3, <2>1, <2>2 DEF StoredOnce, Settled
  <2>5. (osKeys \subseteq 1..minted)'
    BY <1>1, <2>1 DEF StoredOnce
  <2>6. \A q \in Procs : pc'[q] = "store" => secret'[q] \notin osKeys'
    BY <1>1, <1>7, <2>1 DEF StoredOnce
  <2>7. (profile \in Record => ~Storing(profile.device))'
    BY <1>1, <1>7 DEF StoredOnce, Storing
  <2>8. \A o, q \in Procs :
          pc'[o] = "store" /\ mine'[q] \in Record /\ mine'[q].device = secret'[o] => o = q
    BY <1>1, <1>6, <1>7, <2>2 DEF StoredOnce
  <2> QED
    BY <2>3, <2>4, <2>5, <2>6, <2>7, <2>8 DEF StoredOnce
<1>10. CASE StoreFails(p)
  <2>1. osKeys' = osKeys /\ mine' = mine
    BY <1>10 DEF StoreFails, files
  <2>2. Copied(profile')
    BY <1>1, ProfileCopied
  <2> QED
    BY <1>1, <1>7, <2>1, <2>2, CopiesKeep
<1> QED
  BY <1>8, <1>9, <1>10

\* The other steps save, copy and drop records.
LEMMA OtherStores ==
    ASSUME TypeInv, StoredOnce, NEW p \in Procs,
           \/ SaveProfile(p) \/ WaitStart(p) \/ Unlock(p) \/ WaitFails(p) \/ WaitApproved(p)
           \/ LogoutStart(p) \/ DropOsKey(p) \/ DropKeyFile(p) \/ DropProfile(p)
           \/ Breaks(p)
    PROVE  StoredOnce'
<1> USE DEF TypeInv, TypeOK, files
<1>1. minted' = minted /\ osKeys' \subseteq osKeys
  BY DEF SaveProfile, WaitStart, Unlock, WaitFails, WaitApproved, LogoutStart, DropOsKey,
         DropKeyFile, DropProfile, Breaks
<1>2. \A q \in Procs : pc'[q] = "store" => pc[q] = "store" /\ q # p
  BY DEF SaveProfile, WaitStart, Unlock, WaitFails, WaitApproved, LogoutStart, DropOsKey,
         DropKeyFile, DropProfile, Breaks, GoOn, Start
<1>3. \A q \in Procs : q # p => secret'[q] = secret[q]
  BY DEF SaveProfile, WaitStart, Unlock, WaitFails, WaitApproved, LogoutStart, DropOsKey,
         DropKeyFile, DropProfile, Breaks
<1>4. profile' = profile \/ profile' \in {Absent, Torn} \/ (pc[p] = "save" /\ profile' = mine[p])
  BY DEF SaveProfile, WaitStart, Unlock, WaitFails, WaitApproved, LogoutStart, DropOsKey,
         DropKeyFile, DropProfile, Breaks, GoOn
<1>5. Copied(profile')
  BY <1>4, ProfileCopied, MineCopied, NoFileNoRecord DEF Copied
<1>6. \A q \in Procs : q # p => mine'[q] = mine[q]
  BY DEF SaveProfile, WaitStart, Unlock, WaitFails, WaitApproved, LogoutStart, DropOsKey,
         DropKeyFile, DropProfile, Breaks, Hold
<1>7. mine'[p] = mine[p] \/ Copied(mine'[p])
  <2>1. CASE WaitStart(p) \/ LogoutStart(p)
    <3>1. mine'[p] = profile \/ mine'[p] = Absent
      BY <2>1 DEF WaitStart, LogoutStart, Hold
    <3> QED
      BY <3>1, ProfileCopied, NoFileNoRecord DEF Copied
  <2>2. CASE WaitApproved(p)
    <3>1. PICK a \in Accounts :
            mine' = [mine EXCEPT ![p] = [mine[p] EXCEPT !.account = a, !.pending = FALSE]]
      BY <2>2 DEF WaitApproved, Hold
    <3>2. pc[p] = "wait" /\ mine[p] \in Record
      BY <2>2 DEF WaitApproved, GoOn, Held
    <3>3. mine'[p].device = mine[p].device
      BY <3>1, <3>2 DEF Record
    <3> QED
      BY <3>2, <3>3 DEF Copied
  <2>3. CASE ~(WaitStart(p) \/ LogoutStart(p) \/ WaitApproved(p))
    BY <2>3 DEF SaveProfile, Unlock, WaitFails, DropOsKey, DropKeyFile, DropProfile, Breaks
  <2> QED
    BY <2>1, <2>2, <2>3
<1>8. \A q \in Procs : mine'[q] = mine[q] \/ Copied(mine'[q])
  BY <1>6, <1>7
<1>9. \A q \in Procs : pc'[q] = "store" => pc[q] = "store" /\ secret'[q] = secret[q]
  BY <1>2, <1>3
<1> QED
  BY <1>1, <1>5, <1>8, <1>9, CopiesKeep

LEMMA StoredOnceStep ==
    ASSUME TypeInv, StoredOnce, [Next]_vars PROVE StoredOnce'
<1>1. CASE Approve \/ UNCHANGED vars
  <2>1. UNCHANGED <<profile, osKeys, pc, mine, secret, minted>>
    BY <1>1 DEF Approve, vars, files
  <2>2. Copied(profile')
    BY <2>1, ProfileCopied
  <2> QED
    BY <2>1, <2>2, CopiesKeep
<1>2. ASSUME NEW p \in Procs, Command(p) \/ FileFails(p) \/ Killed(p) PROVE StoredOnce'
  BY <1>2, LoginStores, StoreStores, OtherStores, Broken DEF Command, TypeInv, TypeOK
<1> QED
  BY <1>1, <1>2 DEF Next

\* What is gone stays gone: the secret of a device that was made reaches the
\* credential store from its own login alone.
LEMMA GoneStep ==
    ASSUME TypeInv, StoredOnce, [Next]_vars, NEW d \in Devices, Gone(d)
    PROVE  Gone(d)'
<1> USE DEF TypeInv, TypeOK, Gone
<1>1. CASE Approve \/ UNCHANGED vars
  BY <1>1 DEF Approve, vars, files, Storing
<1>2. ASSUME NEW p \in Procs, NEW force \in BOOLEAN, LoginStart(p, force) PROVE Gone(d)'
  <2>1. /\ pc' = [pc EXCEPT ![p] = "store"] /\ secret' = [secret EXCEPT ![p] = minted + 1]
        /\ minted' = minted + 1 /\ osKeys' = osKeys
    BY <1>2 DEF LoginStart, Start, files
  <2>2. minted + 1 # d /\ d \in 1..minted'
    BY <2>1
  <2> QED
    BY <2>1, <2>2 DEF Storing
<1>3. ASSUME NEW p \in Procs, StoreOsKey(p) PROVE Gone(d)'
  <2>1. /\ pc[p] = "store" /\ pc' = [pc EXCEPT ![p] = "save"]
        /\ osKeys' = osKeys \cup {secret[p]} /\ UNCHANGED <<secret, minted>>
    BY <1>3 DEF StoreOsKey, GoOn
  <2>2. secret[p] # d
    BY <2>1 DEF Storing
  <2> QED
    BY <2>1, <2>2 DEF Storing
<1>4. ASSUME NEW p \in Procs,
             \/ StoreKeyFile(p) \/ StoreFails(p)
             \/ SaveProfile(p) \/ WaitStart(p) \/ Unlock(p) \/ WaitFails(p) \/ WaitApproved(p)
             \/ LogoutStart(p) \/ DropOsKey(p) \/ DropKeyFile(p) \/ DropProfile(p)
             \/ Breaks(p)
      PROVE  Gone(d)'
  <2>1. minted' = minted /\ osKeys' \subseteq osKeys
    BY <1>4 DEF StoreKeyFile, StoreFails, SaveProfile, WaitStart, Unlock, WaitFails,
           WaitApproved, LogoutStart, DropOsKey, DropKeyFile, DropProfile, Breaks, files
  <2>2. \A q \in Procs : pc'[q] = "store" => pc[q] = "store" /\ q # p
    BY <1>4 DEF StoreKeyFile, StoreFails, SaveProfile, WaitStart, Unlock, WaitFails,
           WaitApproved, LogoutStart, DropOsKey, DropKeyFile, DropProfile, Breaks, GoOn, Start
  <2>3. \A q \in Procs : q # p => secret'[q] = secret[q]
    BY <1>4 DEF StoreKeyFile, StoreFails, SaveProfile, WaitStart, Unlock, WaitFails,
           WaitApproved, LogoutStart, DropOsKey, DropKeyFile, DropProfile, Breaks
  <2> QED
    BY <2>1, <2>2, <2>3 DEF Storing
<1> QED
  BY <1>1, <1>2, <1>3, <1>4, Broken DEF Next, Command

\* The credential of a device that a profile names does not come back.  If it is
\* not in the credential store (a logout took it away, or the secret went to the
\* key file) it is never there again, whatever logins, waits and logouts overlap,
\* fail and are killed: delete_secret of keystore.rs, where it succeeds, is final.
\* A wait that was under way can write the profile back after a logout
\* (save_profile), but not the credential.  Nothing is said of the devices that a
\* forced login has replaced.
THEOREM CredentialGoneForGood ==
    ASSUME NEW d \in Devices
    PROVE  Spec => [](Named(d) /\ d \notin osKeys => [](d \notin osKeys))
<1>1. Init => StoredOnce
  <2> SUFFICES ASSUME Init PROVE StoredOnce
    OBVIOUS
  <2>1. /\ profile = Absent /\ osKeys = {}
        /\ \A p \in Procs : pc[p] = "idle" /\ mine[p] = Absent
    BY DEF Init
  <2> QED
    BY <2>1, NoFileNoRecord DEF StoredOnce, Settled
<1>2. TypeInv /\ StoredOnce /\ [Next]_vars => StoredOnce'
  BY StoredOnceStep
<1>3. TypeInv /\ StoredOnce /\ [Next]_vars /\ Gone(d) => Gone(d)'
  BY GoneStep
<1>4. StoredOnce /\ Named(d) /\ d \notin osKeys => Gone(d)
  BY DEF StoredOnce, Settled, Named, Gone, Storing
<1>5. Gone(d) => d \notin osKeys
  BY DEF Gone
<1> QED
  BY <1>1, <1>2, <1>3, <1>4, <1>5, InitType, TypeStep, PTL DEF Spec
=============================================================================
