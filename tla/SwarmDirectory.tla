--------------------------- MODULE SwarmDirectory ---------------------------
(***************************************************************************)
(* What the capability and channel commands and the doctor make of a swarm *)
(* directory (src/src/swarm_ops.rs): functions of the directory a gateway  *)
(* answers with, a capability and the time.                                *)
(*                                                                         *)
(* A directory has sets of definitions (capabilities), advertisements,     *)
(* entries and channels.  A reference that is absent is Unnamed.  Which    *)
(* advertisements are active, and which entries have a capability, the     *)
(* protocol library decides.                                               *)
(***************************************************************************)
EXTENDS Naturals

CONSTANTS
    MemberKeys,     \* references in the form of a member's key
    OpaqueRefs,     \* references in the form that hides a service
    Unnamed         \* no reference

\* validate_swarm_directory asks of an advertisement that it does not expire at
\* time 0: any other loads, however long ago it expired.
Loads(ad) == ad.expires > 0

Active(ad, now) == ad.expires > now

ActiveAds(d, capability, now) ==
    {ad \in d.advertisements : ad.capability = capability /\ Active(ad, now)}

Agree(a, b) == a = Unnamed \/ b = Unnamed \/ a = b

Matches(ad, entry) ==
    /\ entry.channel \in ad.channels
    /\ Agree(ad.service, entry.service)
    /\ Agree(ad.member, entry.member)

EntriesWith(d, capability) == {e \in d.entries : e.capability = capability}

\* Mutant: entries that match no active advertisement are given all the same
\* when none does.
EntriesForLenient(d, capability, now) ==
    LET matched == {e \in EntriesWith(d, capability) :
                      \E ad \in ActiveAds(d, capability, now) : Matches(ad, e)}
    IN  IF matched = {} THEN EntriesWith(d, capability) ELSE matched

\* active_entries_for_capability: without an active advertisement, all of them.
EntriesFor(d, capability, now) ==
    LET ads == ActiveAds(d, capability, now) IN
    IF ads = {}
    THEN EntriesWith(d, capability)
    ELSE {e \in EntriesWith(d, capability) : \E ad \in ads : Matches(ad, e)}

\* The channels described of those the entries name.
ChannelsFor(d, entries) == {c \in d.channels : \E e \in entries : e.channel = c}

Found(d, capability) == capability \in d.definitions

Missing == [found |-> FALSE]

\* capability_lookup, and channel_list, which shows the channels of it only.
Lookup(d, capability, now) ==
    IF ~Found(d, capability)
    THEN Missing
    ELSE LET entries == EntriesFor(d, capability, now) IN
         [found    |-> TRUE,
          ads      |-> ActiveAds(d, capability, now),
          entries  |-> entries,
          channels |-> ChannelsFor(d, entries)]

\* Whom a new channel can be announced to: the first entry in the order of the
\* gateway's answer, which may be any; none fails the command.
ChannelTargets(d, capability, now) ==
    IF Found(d, capability) THEN Lookup(d, capability, now).entries ELSE {}

\* shared_infra_uses_boundary_refs.
UsesBoundaryRefs(d) ==
    \A x \in d.entries \cup d.advertisements :
        /\ x.member \in MemberKeys \cup {Unnamed}
        /\ x.service \in OpaqueRefs \cup {Unnamed}

-----------------------------------------------------------------------------
(* Properties *)

\* As time passes, a directory's answer for a capability only narrows while any
\* of its advertisements is still active: an entry never comes back because the
\* advertisement that covered it expired before the others.
Narrows(d, capability, t1, t2) ==
    t1 <= t2 /\ ActiveAds(d, capability, t2) # {}
    => /\ EntriesFor(d, capability, t2) \subseteq EntriesFor(d, capability, t1)
       /\ ChannelsFor(d, EntriesFor(d, capability, t2))
            \subseteq ChannelsFor(d, EntriesFor(d, capability, t1))
=============================================================================
