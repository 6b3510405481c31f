---------------------------- MODULE ProfileStore ----------------------------
(***************************************************************************)
(* The files of one profile and the `auth` commands that write them:       *)
(* auth_login, auth_wait and Logout of src/src/app.rs over config.rs and   *)
(* keystore.rs.  Every command is a process of its own, nothing locks the  *)
(* files, a process may be killed between two of its writes or in the      *)
(* middle of one, and a write or a removal may fail, which ends the        *)
(* command.  (A write that is not cut short is one step, and so is the     *)
(* test for a file with the removal that follows it.)                      *)
(*                                                                         *)
(* A device, its key pair and its secret are named by the number of the    *)
(* login that generated them.  Other profiles have files of their own.     *)
(***************************************************************************)
EXTENDS Naturals

CONSTANTS
    Procs,      \* processes that may run at once
    Accounts,   \* account identities
    NoAccount,
    MaxLogins   \* key pairs generated (bound)

ASSUME ProfileAssumption == MaxLogins \in Nat /\ NoAccount \notin Accounts

VARIABLES
    profile,    \* profiles/<profile>.json: a record, Absent or Torn
    keyFile,    \* secrets/<profile>.key.json: a secret, Absent or Torn
    osKeys,     \* secrets in the credential store, under profile:public_key
    pc,         \* of each process
    mine,       \* the profile record it holds in memory
    secret,     \* the secret it holds, or generated
    minted,     \* key pairs generated so far
    approved,   \* accounts given to a device, by its approval or by hand
    \* history
    loggedOut,  \* a logout has begun
    disturbed   \* a process was killed, two have overlapped, or a file operation
                \* failed in a logout or while a profile was being replaced

files == <<profile, keyFile, osKeys>>
past  == <<loggedOut, disturbed>>
vars  == <<files, pc, mine, secret, minted, approved, past>>

-----------------------------------------------------------------------------
Devices == 1..MaxLogins
Stores  == {"osCredentialStore", "encryptedFileFallback"}

\* ProfileRecord: pending is pending_enrollment.is_some(), store its key_store.
Record ==
    [device : Devices, account : Accounts \cup {NoAccount}, pending : BOOLEAN,
     store : Stores]

\* What a file holds when it is missing, or cut short.
Absent   == [missing |-> TRUE]
Torn     == [missing |-> FALSE]
NoSecret == 0

Steps == {"idle", "store", "save", "unlock", "wait", "dropOsKey", "dropKeyFile",
          "dropProfile"}

TypeOK ==
    /\ profile \in Record \cup {Absent, Torn}
    /\ keyFile \in Devices \cup {NoSecret}
    /\ osKeys \subseteq Devices
    /\ pc \in [Procs -> Steps]
    /\ mine \in [Procs -> Record \cup {Absent}]
    /\ secret \in [Procs -> Devices \cup {NoSecret}]
    /\ minted \in 0..MaxLogins
    /\ approved \subseteq Accounts \X Devices
    /\ loggedOut \in BOOLEAN
    /\ disturbed \in BOOLEAN

Init ==
    /\ profile = Absent
    /\ keyFile = NoSecret
    /\ osKeys = {}
    /\ pc = [p \in Procs |-> "idle"]
    /\ mine = [p \in Procs |-> Absent]
    /\ secret = [p \in Procs |-> NoSecret]
    /\ minted = 0
    /\ approved = {}
    /\ loggedOut = FALSE
    /\ disturbed = FALSE

-----------------------------------------------------------------------------
Start(p, step) ==
    /\ pc[p] = "idle"
    /\ pc' = [pc EXCEPT ![p] = step]
    /\ disturbed' = (disturbed \/ \E q \in Procs : pc[q] # "idle")

GoOn(p, from, to) ==
    /\ pc[p] = from
    /\ pc' = [pc EXCEPT ![p] = to]
    /\ UNCHANGED past

Hold(p, record) == mine' = [mine EXCEPT ![p] = record]

-----------------------------------------------------------------------------
(* auth login *)

\* A profile that cannot be parsed counts as none.
LoginStart(p, force) ==
    /\ minted < MaxLogins
    /\ profile \in Record => force
    /\ Start(p, "store")
    /\ minted' = minted + 1
    /\ secret' = [secret EXCEPT ![p] = minted + 1]
    /\ \E store \in Stores, account \in Accounts \cup {NoAccount}, manual \in BOOLEAN :
        /\ account # NoAccount => manual
        /\ Hold(p, [device |-> minted + 1, account |-> account,
                    pending |-> ~manual, store |-> store])
        /\ approved' = approved \cup ({<<account, minted + 1>>} \cap (Accounts \X Devices))
    /\ UNCHANGED <<files, loggedOut>>

\* Mutant: the store's answer is not looked at.
StoreOsKeyUnchecked(p) ==
    /\ GoOn(p, "store", "save")
    /\ mine[p].store = "osCredentialStore"
    /\ UNCHANGED <<files, mine, secret, minted, approved>>

StoreOsKey(p) ==
    /\ GoOn(p, "store", "save")
    /\ mine[p].store = "osCredentialStore"
    /\ osKeys' = osKeys \cup {secret[p]}
    /\ UNCHANGED <<profile, keyFile, mine, secret, minted, approved>>

\* Mutant: a fallback that keeps the record of the store first asked for.
StoreKeyFileUnnoted(p) ==
    /\ GoOn(p, "store", "save")
    /\ keyFile' = secret[p]
    /\ UNCHANGED <<profile, osKeys, mine, secret, minted, approved>>

\* Asked for, or because the credential store failed.
StoreKeyFile(p) ==
    /\ GoOn(p, "store", "save")
    /\ Hold(p, [mine[p] EXCEPT !.store = "encryptedFileFallback"])
    /\ keyFile' = secret[p]
    /\ UNCHANGED <<profile, osKeys, secret, minted, approved>>

\* No passphrase for the key file: nothing has been written.
StoreFails(p) ==
    /\ GoOn(p, "store", "idle")
    /\ UNCHANGED <<files, mine, secret, minted, approved>>

\* save_profile, of a login and of a wait; where it fails, see FileFails.
SaveProfile(p) ==
    /\ GoOn(p, "save", "idle")
    /\ profile' = mine[p]
    /\ UNCHANGED <<keyFile, osKeys, mine, secret, minted, approved>>

-----------------------------------------------------------------------------
(* auth wait *)

WaitStart(p) ==
    /\ profile \in Record
    /\ Start(p, "unlock")
    /\ Hold(p, profile)
    /\ UNCHANGED <<files, secret, minted, approved, loggedOut>>

\* The key file holds no public key that is compared with the profile's.
Unlock(p) ==
    /\ GoOn(p, "unlock", "wait")
    /\ mine[p].pending
    /\ \/ /\ mine[p].store = "osCredentialStore"
          /\ mine[p].device \in osKeys
          /\ secret' = [secret EXCEPT ![p] = mine[p].device]
       \/ /\ mine[p].store = "encryptedFileFallback"
          /\ keyFile # NoSecret
          /\ secret' = [secret EXCEPT ![p] = keyFile]
    /\ UNCHANGED <<files, mine, minted, approved>>

\* No key, a wrong passphrase, no pending enrollment; or the wait fails.
WaitFails(p) ==
    /\ GoOn(p, "unlock", "idle") \/ GoOn(p, "wait", "idle")
    /\ UNCHANGED <<files, mine, secret, minted, approved>>

\* Mutant: the profile is read again before the account is set in it.
WaitApprovedRereads(p) ==
    /\ profile \in Record
    /\ GoOn(p, "wait", "save")
    /\ \E a \in Accounts :
        /\ <<a, mine[p].device>> \in approved
        /\ Hold(p, [profile EXCEPT !.account = a, !.pending = FALSE])
    /\ UNCHANGED <<files, secret, minted, approved>>

\* An approval opens only with the secret of the device it was made for.
WaitApproved(p) ==
    /\ GoOn(p, "wait", "save")
    /\ secret[p] = mine[p].device
    /\ \E a \in Accounts :
        /\ <<a, mine[p].device>> \in approved
        /\ Hold(p, [mine[p] EXCEPT !.account = a, !.pending = FALSE])
    /\ UNCHANGED <<files, secret, minted, approved>>

-----------------------------------------------------------------------------
(* auth logout *)

\* Mutant: a profile that cannot be parsed is used all the same.
LogoutStartAnyProfile(p) ==
    /\ Start(p, "dropOsKey")
    /\ Hold(p, profile)
    /\ loggedOut' = TRUE
    /\ UNCHANGED <<files, secret, minted, approved>>

LogoutStart(p) ==
    /\ Start(p, "dropOsKey")
    /\ Hold(p, IF profile \in Record THEN profile ELSE Absent)
    /\ loggedOut' = TRUE
    /\ UNCHANGED <<files, secret, minted, approved>>

\* A credential that cannot be deleted stays, and the logout goes on.
DropOsKey(p) ==
    /\ GoOn(p, "dropOsKey", "dropKeyFile")
    /\ \/ osKeys' = osKeys
       \/ /\ mine[p] # Absent
          /\ mine[p].store = "osCredentialStore"
          /\ osKeys' = osKeys \ {mine[p].device}
    /\ UNCHANGED <<profile, keyFile, mine, secret, minted, approved>>

DropKeyFile(p) ==
    /\ GoOn(p, "dropKeyFile", "dropProfile")
    /\ keyFile' = NoSecret
    /\ UNCHANGED <<profile, osKeys, mine, secret, minted, approved>>

DropProfile(p) ==
    /\ GoOn(p, "dropProfile", "idle")
    /\ profile' = Absent
    /\ UNCHANGED <<keyFile, osKeys, mine, secret, minted, approved>>

-----------------------------------------------------------------------------
\* The account's own device approves this one.
Approve ==
    /\ \E a \in Accounts, d \in 1..minted : approved' = approved \cup {<<a, d>>}
    /\ UNCHANGED <<files, pc, mine, secret, minted, past>>

\* A command ends before it has done what it was about to do.  fs::write
\* truncates the file before it fills it, so a write may leave it cut short.
Breaks(p) ==
    /\ pc' = [pc EXCEPT ![p] = "idle"]
    /\ \/ UNCHANGED files
       \/ /\ pc[p] = "save"
          /\ profile' = Torn
          /\ UNCHANGED <<keyFile, osKeys>>
       \/ /\ pc[p] = "store"
          /\ keyFile' = NoSecret
          /\ UNCHANGED <<profile, osKeys>>
    /\ UNCHANGED <<mine, secret, minted, approved, loggedOut>>

\* What a login or a wait writes is for another device, or another key store,
\* than the profile that stands.
Replaces(p) ==
    /\ profile \in Record
    /\ pc[p] = "save" =>
        ~(profile.device = mine[p].device /\ profile.store = mine[p].store)

\* fs::create_dir_all, fs::write or fs::remove_file returns an error: the command
\* passes it on, and nothing of what it has done is undone.
FileFails(p) ==
    /\ pc[p] \in {"store", "save", "dropKeyFile", "dropProfile"}
    /\ Breaks(p)
    /\ disturbed' = (disturbed \/ pc[p] \in {"dropKeyFile", "dropProfile"} \/ Replaces(p))

\* At any step.
Killed(p) ==
    /\ pc[p] # "idle"
    /\ Breaks(p)
    /\ disturbed' = TRUE

Command(p) ==
    \/ \E force \in BOOLEAN : LoginStart(p, force)
    \/ StoreOsKey(p) \/ StoreKeyFile(p) \/ StoreFails(p)
    \/ SaveProfile(p)
    \/ WaitStart(p) \/ Unlock(p) \/ WaitFails(p) \/ WaitApproved(p)
    \/ LogoutStart(p) \/ DropOsKey(p) \/ DropKeyFile(p) \/ DropProfile(p)

Next == (\E p \in Procs : Command(p) \/ FileFails(p) \/ Killed(p)) \/ Approve

Spec == Init /\ [][Next]_vars

-----------------------------------------------------------------------------
(* Properties *)

\* An account stands in the profile only with the very device it approved,
\* although a wait writes back a record it read minutes before and a forced
\* login may have put a new device in between.
AccountApproved ==
    profile \in Record /\ profile.account # NoAccount =>
        <<profile.account, profile.device>> \in approved

\* A profile whose key went to the credential store can always be unlocked
\* until someone logs out, whatever is killed and whatever overlaps: the
\* secret is stored before the profile that refers to it.
OsKeyOutlivesProfile ==
    profile \in Record /\ profile.store = "osCredentialStore" /\ ~loggedOut =>
        profile.device \in osKeys

KeyOf(record) ==
    IF record.store = "osCredentialStore"
    THEN IF record.device \in osKeys THEN record.device ELSE NoSecret
    ELSE keyFile

Quiet == \A p \in Procs : pc[p] = "idle"

\* "profile already exists; pass --force to replace" (app.rs:310): between
\* commands a profile that is there unlocks to its own device key.
ProfileHasItsKey == Quiet /\ profile \in Record => KeyOf(profile) = profile.device

\* It does after any sequence of logins, waits and logouts, with either key
\* store and the fallback between them, so long as none is killed or overlaps
\* another.  Files that cannot be written or removed do not change that, but for
\* two cases: a logout that cannot remove a file, and a forced login that cannot
\* write one, which has the old key replaced and the old profile left.
UndisturbedProfileHasItsKey == ~disturbed => ProfileHasItsKey

-----------------------------------------------------------------------------
(* Why the first two hold *)

\* A process that is to write a record, or waits on one, holds one; a login
\* holds the secret of the device it made.
Held ==
    \A p \in Procs :
        /\ pc[p] \in {"store", "save", "unlock", "wait"} => mine[p] \in Record
        /\ pc[p] = "store" => secret[p] = mine[p].device

\* What a process would write is as sound as what is written.
HeldApproved ==
    \A p \in Procs :
        mine[p] \in Record /\ mine[p].account # NoAccount =>
            <<mine[p].account, mine[p].device>> \in approved

HeldHasOsKey ==
    \A p \in Procs :
        pc[p] \in {"save", "unlock", "wait"} /\ ~loggedOut
            /\ mine[p].store = "osCredentialStore" => mine[p].device \in osKeys

\* Only a logout removes keys.
DroppingLoggedOut ==
    \A p \in Procs : pc[p] \in {"dropOsKey", "dropKeyFile", "dropProfile"} => loggedOut

ProfileInv ==
    /\ TypeOK
    /\ Held
    /\ HeldApproved
    /\ HeldHasOsKey
    /\ DroppingLoggedOut
    /\ AccountApproved
    /\ OsKeyOutlivesProfile
=============================================================================
