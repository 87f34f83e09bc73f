---------------------------- MODULE AdSkipProofs ----------------------------
(***************************************************************************)
(* Proofs about AdSkip, for any opportunities, requests, grant periods,    *)
(* attempts and length of the pending list.                                *)
(***************************************************************************)
EXTENDS AdSkip, FiniteSetTheorems, TLAPS

\* The client's rows: what a flight may be, and that the pending list is finite.
FlightOK(k) ==
  /\ flight[k].phase # "idle" => flight[k].id \in RequestIds
  /\ flight[k].phase = "ready" => flight[k].tries < MaxAttempts
  /\ flight[k].phase = "sent" => flight[k].tries > 0
ClientType ==
  /\ memory \in ClientStates /\ disk \in ClientStates
  /\ flight \in [Opportunities -> Flights]
  /\ effects \in [EffectKeys -> Nat]
  /\ late \subseteq Requests /\ receipts \subseteq EffectKeys /\ running \subseteq EffectKeys
  /\ told \in [RequestIds -> {"unused", "nothing", "receipt", "rejected"}]
  /\ \A k \in Opportunities : FlightOK(k)
  /\ IsFiniteSet(memory.pending) /\ IsFiniteSet(disk.pending)

\* Every request there is a trace of: an ID belongs to one opportunity, and to
\* none before it is made up.
Traced(r) ==
  \/ r \in memory.pending \cup disk.pending \cup late
  \/ flight[r.opp].phase # "idle" /\ flight[r.opp].id = r.id
  \/ redemption[r.id] # NoReceipt /\ redemption[r.id].opp = r.opp
Asked == {r \in Requests : Traced(r)}
AskedInv ==
  \A r \in Asked : told[r.id] # "unused" /\ \A q \in Asked : q.id = r.id => q.opp = r.opp

\* A receipt for another request names the resolution that is there.
ResolvedInv ==
  \A i \in RequestIds : redemption[i].resolution = "ALREADY_RESOLVED" => opportunity[redemption[i].opp] # Unresolved

\* The server's rows and what they add up to.
ServerInv ==
  /\ wallet \in Nat /\ granted \subseteq Periods
  /\ opportunity \in [Opportunities -> OpportunityRows \cup {Unresolved}]
  /\ redemption \in [RequestIds -> Receipts \cup {NoReceipt}]
  /\ advanced \in [Opportunities -> Nat]
  /\ prompted \in Opportunities \cup {0} /\ current \in Opportunities \cup {0} /\ current <= prompted
  /\ IsFiniteSet(granted) /\ IsFiniteSet(Charged)
  /\ wallet = Cardinality(granted) - Cardinality(Charged)
  /\ \A p, q \in granted : p # q => ~Overlap(p, q)
  /\ \A k \in Opportunities : ResolvedOnce(k)
  /\ ResolvedInv

\* An effect's key names how its opportunity was resolved, and an effect runs
\* between the mark in memory and the next kill.
KeyIsTrue(e) == (e[1] = "FREE" /\ e[3] # 0) \/ opportunity[e[2]] = [by |-> e[1], id |-> e[3]]
EffectOK(e) ==
  /\ e \in receipts \cup memory.applied \cup disk.applied => KeyIsTrue(e)
  /\ e \in running => e \in memory.applied /\ effects[e] = 0
  /\ effects[e] # 0 => effects[e] = 1 /\ e \in memory.applied /\ e \in disk.applied
EffectInv == \A e \in EffectKeys : EffectOK(e)

Inv == ServerInv /\ ClientType /\ AskedInv /\ EffectInv

\* An opportunity has one pending request, the one in flight, and a request
\* that was sent and may be charged stays pending until its answer is told.
Settled(k) == opportunity[k].by \in {"AD", "FREE"}
Awaited(r) == told[r.id] = "nothing" /\ ~Settled(r.opp)
OnePending ==
  /\ \A state \in {memory, disk} : \A r, q \in state.pending : r.opp = q.opp => r = q
  /\ \A r \in memory.pending : flight[r.opp].phase # "idle" => flight[r.opp].id = r.id
FlightKept(k) ==
  LET r == [id |-> flight[k].id, opp |-> k] IN
  flight[k].phase # "idle" /\ Awaited(r) =>
    r \in memory.pending /\ (flight[k].tries > 0 => r \in disk.pending)
LateKept(r) == r \in late /\ Awaited(r) => r \in memory.pending /\ r \in disk.pending
KeptInv ==
  /\ OnePending /\ ChargesAreKnown
  /\ \A k \in Opportunities : FlightKept(k)
  /\ \A r \in Requests : LateKept(r)

\* A choice that makes up a new request finds room for it: the cut drops nothing.
RoomLeft ==
  \A k \in Opportunities : PendingOf(memory, k) = {} => Cardinality(memory.pending) < MaxPending

-----------------------------------------------------------------------------
\* A request is its ID and its opportunity; requests that agree on both are one.
LEMMA RequestFields ==
  /\ \A i \in RequestIds, k \in Opportunities :
       /\ [id |-> i, opp |-> k] \in Requests
       /\ [id |-> i, opp |-> k].id = i /\ [id |-> i, opp |-> k].opp = k
  /\ \A r \in Requests : r.id \in RequestIds /\ r.opp \in Opportunities /\ r = [id |-> r.id, opp |-> r.opp]
  /\ 0 \notin RequestIds /\ 0 \notin Opportunities
BY AdSkipAssumption DEF Requests

\* A flight that is under way is a request there is a trace of.
LEMMA FlightAsked ==
  ASSUME ClientType, NEW k \in Opportunities, flight[k].phase # "idle"
  PROVE  [id |-> flight[k].id, opp |-> k] \in Asked
BY RequestFields DEF ClientType, FlightOK, Asked, Traced

\* What is left of a pending list.
LEMMA PendingLeft ==
  ASSUME NEW state \in ClientStates, IsFiniteSet(state.pending), NEW k \in Opportunities
  PROVE  /\ Without(state, k) \in ClientStates
         /\ Without(state, k).pending = {r \in state.pending : r.opp # k}
         /\ Without(state, k).applied = state.applied
         /\ IsFiniteSet(Without(state, k).pending)
<1>1. state.pending \subseteq Requests /\ state.applied \subseteq EffectKeys
  BY DEF ClientStates
<1>2. Without(state, k) = [state EXCEPT !.pending = {r \in state.pending : r.opp # k}]
  BY DEF Without, PendingOf
<1> DEFINE left == {r \in state.pending : r.opp # k}
<1>3. left \in SUBSET state.pending
  OBVIOUS
<1>4. IsFiniteSet(left)
  BY <1>3, FS_Subset, Zenon
<1> HIDE DEF left
<1>5. Without(state, k) = [state EXCEPT !.pending = left]
  BY <1>2 DEF left
<1>6. Without(state, k) \in ClientStates /\ Without(state, k).pending = left /\ Without(state, k).applied = state.applied
  BY <1>1, <1>3, <1>5 DEF ClientStates
<1> QED BY <1>4, <1>6 DEF left

\* What a new request leaves of the list: nothing is cut while there is room.
LEMMA PendingKept ==
  ASSUME NEW state \in ClientStates, IsFiniteSet(state.pending), NEW r \in Requests
  PROVE  LET new == Remember(state, r) IN
         /\ new \in ClientStates /\ new.applied = state.applied
         /\ new.pending \subseteq state.pending \cup {r}
         /\ IsFiniteSet(new.pending)
         /\ Cardinality(state.pending) < MaxPending => new.pending = state.pending \cup {r}
<1> DEFINE all == state.pending \cup {r}
           newer(q) == {n \in all : n.id > q.id}
           kept == {q \in all : Cardinality(newer(q)) < MaxPending}
<1>1. state.pending \subseteq Requests /\ state.applied \subseteq EffectKeys
  BY DEF ClientStates
<1>2. Remember(state, r) = [state EXCEPT !.pending = kept]
  BY DEF Remember
<1>3. IsFiniteSet(all)
  BY FS_AddElement, Zenon
<1>4. kept \in SUBSET all
  OBVIOUS
<1>5. IsFiniteSet(kept)
  BY <1>3, <1>4, FS_Subset, Zenon
<1>6. ASSUME Cardinality(state.pending) < MaxPending PROVE kept = all
  <2>1. Cardinality(all) \in Nat /\ Cardinality(all) <= MaxPending
    <3>1. Cardinality(state.pending) \in Nat
      BY FS_CardinalityType, Zenon
    <3>2. Cardinality(all) = Cardinality(state.pending) \/ Cardinality(all) = Cardinality(state.pending) + 1
      BY FS_AddElement
    <3> QED BY <1>6, <3>1, <3>2, AdSkipAssumption
  <2>2. ASSUME NEW q \in all PROVE Cardinality(newer(q)) < MaxPending
    <3>1. newer(q) \in SUBSET (all \ {q})
      BY <1>1, RequestFields, AdSkipAssumption
    <3>2. IsFiniteSet(all \ {q}) /\ Cardinality(all \ {q}) = Cardinality(all) - 1
      BY <1>3, <2>2, FS_RemoveElement, Zenon
    <3>3. IsFiniteSet(newer(q)) /\ Cardinality(newer(q)) <= Cardinality(all \ {q}) /\ Cardinality(newer(q)) \in Nat
      <4> HIDE DEF newer, all
      <4> QED BY <3>1, <3>2, FS_Subset, FS_CardinalityType, Zenon
    <3> QED BY <2>1, <3>2, <3>3, AdSkipAssumption
  <2> QED BY <2>2
<1> HIDE DEF kept
<1>7. [state EXCEPT !.pending = kept] \in ClientStates
  BY <1>1, <1>4 DEF ClientStates
<1>8. [state EXCEPT !.pending = kept].pending = kept /\ [state EXCEPT !.pending = kept].applied = state.applied
  BY DEF ClientStates
<1> QED BY <1>2, <1>4, <1>5, <1>6, <1>7, <1>8

-----------------------------------------------------------------------------
\* A redemption charges a ticket, leaves another receipt or does nothing.
Charges(r) ==
  /\ redemption[r.id] = NoReceipt /\ opportunity[r.opp] = Unresolved /\ wallet >= 1
  /\ redemption' = [redemption EXCEPT ![r.id] = [opp |-> r.opp, resolution |-> "TICKET"]]
  /\ opportunity' = [opportunity EXCEPT ![r.opp] = [by |-> "TICKET", id |-> r.id]]
  /\ wallet' = wallet - 1 /\ current' = 0
  /\ advanced' = [advanced EXCEPT ![r.opp] = @ + 1]
Notes(r, resolution) ==
  /\ redemption[r.id] = NoReceipt
  /\ resolution = "ALREADY_RESOLVED" => opportunity[r.opp] # Unresolved
  /\ redemption' = [redemption EXCEPT ![r.id] = [opp |-> r.opp, resolution |-> resolution]]
  /\ UNCHANGED <<opportunity, wallet, current, advanced>>
Stays == UNCHANGED <<redemption, opportunity, wallet, current, advanced>>

LEMMA RedeemCases ==
  ASSUME ServerInv, NEW r \in Requests, NEW allowed \in BOOLEAN, Redeem(r, allowed)
  PROVE  /\ Charges(r) \/ (\E resolution \in {"FREE", "ALREADY_RESOLVED"} : Notes(r, resolution)) \/ Stays
         /\ UNCHANGED <<granted, prompted>>
<1> DEFINE verdict == Verdict(r.opp, allowed)
<1>1. /\ verdict \in {"NOT_ALLOWED", "ALREADY_RESOLVED", "FREE", "INSUFFICIENT", "STALE", "TICKET"}
      /\ verdict = "ALREADY_RESOLVED" => opportunity[r.opp] # Unresolved
      /\ verdict = "TICKET" => opportunity[r.opp] = Unresolved /\ ~(wallet < 1)
  BY DEF Verdict
<1>2. wallet \in Nat
  BY DEF ServerInv
<1>3. CASE redemption[r.id] # NoReceipt
  BY <1>3 DEF Redeem, Stays
<1>4. CASE redemption[r.id] = NoReceipt /\ verdict = "TICKET"
  BY <1>1, <1>2, <1>4 DEF Redeem, Charges, WithReceipt
<1>5. CASE redemption[r.id] = NoReceipt /\ verdict \in {"FREE", "ALREADY_RESOLVED"}
  BY <1>1, <1>5 DEF Redeem, Notes, WithReceipt
<1>6. CASE redemption[r.id] = NoReceipt /\ verdict \notin {"FREE", "ALREADY_RESOLVED", "TICKET"}
  BY <1>6 DEF Redeem, Stays, WithReceipt
<1>7. UNCHANGED <<granted, prompted>>
  BY DEF Redeem
<1> QED BY <1>3, <1>4, <1>5, <1>6, <1>7

\* What stays true of an opportunity and a receipt once it is: they are final.
ServerGrows(r) ==
  /\ \A k \in Opportunities : opportunity[k] # Unresolved => opportunity'[k] = opportunity[k]
  /\ \A i \in RequestIds : i # r.id => redemption'[i] = redemption[i]
  /\ redemption'[r.id] # NoReceipt => redemption[r.id] = redemption'[r.id] \/ redemption'[r.id].opp = r.opp

\* A redemption keeps the wallet, the receipts and the opportunities in step.
LEMMA RedeemServer ==
  ASSUME ServerInv, NEW r \in Requests, NEW allowed \in BOOLEAN, Redeem(r, allowed)
  PROVE  ServerInv' /\ ServerGrows(r)
<1>0. ServerInv /\ r.id \in RequestIds /\ r.opp \in Opportunities
  BY RequestFields
<1>1. UNCHANGED <<granted, prompted>>
  BY <1>0, RedeemCases
<1>2. CASE Stays
  <2>1. Charged' = Charged /\ \A k \in Opportunities : TicketsOf(k)' = TicketsOf(k)
    BY <1>2 DEF Stays, Charged, TicketsOf
  <2>2. \A k \in Opportunities : ResolvedOnce(k)'
    BY <1>0, <1>2, <2>1 DEF ServerInv, ResolvedOnce, Stays
  <2>3. ServerInv'
    BY <1>0, <1>1, <1>2, <2>1, <2>2 DEF ServerInv, ResolvedInv, Stays
  <2> QED BY <1>2, <2>3 DEF Stays, ServerGrows
<1>3. ASSUME NEW resolution \in {"FREE", "ALREADY_RESOLVED"}, Notes(r, resolution)
      PROVE  ServerInv' /\ ServerGrows(r)
  <2> DEFINE receipt == [opp |-> r.opp, resolution |-> resolution]
  <2>1. receipt \in Receipts /\ receipt.resolution # "TICKET" /\ receipt.opp = r.opp
    BY <1>0 DEF Receipts
  <2>2. /\ redemption[r.id] = NoReceipt /\ redemption' = [redemption EXCEPT ![r.id] = receipt]
        /\ resolution = "ALREADY_RESOLVED" => opportunity[r.opp] # Unresolved
        /\ UNCHANGED <<opportunity, wallet, current, advanced>>
    BY <1>3 DEF Notes
  <2>3. redemption'[r.id] = receipt /\ \A i \in RequestIds : i # r.id => redemption'[i] = redemption[i]
    BY <1>0, <2>2 DEF ServerInv
  <2>4. Charged' = Charged
    BY <2>1, <2>2, <2>3 DEF Charged, NoReceipt
  <2>5. \A k \in Opportunities : TicketsOf(k)' = TicketsOf(k)
    BY <2>1, <2>2, <2>3, <2>4 DEF TicketsOf, Charged
  <2>6. \A k \in Opportunities : ResolvedOnce(k)'
    BY <1>0, <2>2, <2>5 DEF ServerInv, ResolvedOnce
  <2>7. redemption' \in [RequestIds -> Receipts \cup {NoReceipt}]
    BY <1>0, <2>1, <2>2 DEF ServerInv
  <2>8. ResolvedInv'
    BY <1>0, <2>2, <2>3 DEF ServerInv, ResolvedInv
  <2>9. ServerInv'
    BY <1>0, <1>1, <2>2, <2>4, <2>6, <2>7, <2>8 DEF ServerInv
  <2>10. ServerGrows(r)
    BY <2>1, <2>2, <2>3 DEF ServerGrows
  <2> QED BY <2>9, <2>10
<1>4. CASE Charges(r)
  <2> DEFINE receipt == [opp |-> r.opp, resolution |-> "TICKET"]
             row == [by |-> "TICKET", id |-> r.id]
  <2>1. receipt \in Receipts /\ receipt.resolution = "TICKET" /\ receipt.opp = r.opp
    BY <1>0 DEF Receipts
  <2>2. row \in OpportunityRows /\ row # Unresolved /\ row.by = "TICKET" /\ row.id = r.id
    BY <1>0 DEF OpportunityRows, Unresolved, Resolutions
  <2>3. /\ redemption[r.id] = NoReceipt /\ redemption' = [redemption EXCEPT ![r.id] = receipt]
        /\ opportunity[r.opp] = Unresolved /\ opportunity' = [opportunity EXCEPT ![r.opp] = row]
        /\ wallet >= 1 /\ wallet' = wallet - 1 /\ current' = 0
        /\ advanced' = [advanced EXCEPT ![r.opp] = @ + 1]
    BY <1>4 DEF Charges
  <2>4. redemption'[r.id] = receipt /\ \A i \in RequestIds : i # r.id => redemption'[i] = redemption[i]
    BY <1>0, <2>3 DEF ServerInv
  <2>5. opportunity'[r.opp] = row /\ \A k \in Opportunities : k # r.opp => opportunity'[k] = opportunity[k]
    BY <1>0, <2>3 DEF ServerInv
  <2>6. advanced'[r.opp] = advanced[r.opp] + 1 /\ \A k \in Opportunities : k # r.opp => advanced'[k] = advanced[k]
    BY <1>0, <2>3 DEF ServerInv
  <2> HIDE DEF receipt, row
  <2>7. Charged' = Charged \cup {r.id} /\ r.id \notin Charged
    BY <1>0, <2>1, <2>3, <2>4 DEF Charged, NoReceipt
  <2>8. IsFiniteSet(Charged') /\ Cardinality(Charged') = Cardinality(Charged) + 1
    BY <1>0, <2>7, FS_AddElement DEF ServerInv
  <2>9. Cardinality(Charged) \in Nat /\ Cardinality(granted) \in Nat
    BY <1>0, FS_CardinalityType DEF ServerInv
  <2>10. ASSUME NEW k \in Opportunities PROVE ResolvedOnce(k)'
    <3>1. ResolvedOnce(k)
      BY <1>0 DEF ServerInv
    <3>2. CASE k = r.opp
      <4>1. TicketsOf(k) = {} /\ advanced[k] = 0
        BY <2>3, <3>1, <3>2 DEF ResolvedOnce, Unresolved
      <4>2. TicketsOf(k)' = {r.id}
        BY <2>1, <2>4, <2>7, <3>2, <4>1 DEF TicketsOf, Charged
      <4> QED BY <2>2, <2>5, <2>6, <3>2, <4>1, <4>2 DEF ResolvedOnce
    <3>3. CASE k # r.opp
      <4>1. TicketsOf(k)' = TicketsOf(k)
        BY <2>1, <2>4, <2>7, <3>3 DEF TicketsOf, Charged
      <4> QED BY <2>5, <2>6, <3>1, <3>3, <4>1 DEF ResolvedOnce
    <3> QED BY <3>2, <3>3
  <2>11. ResolvedInv'
    <3> SUFFICES ASSUME NEW i \in RequestIds, redemption'[i].resolution = "ALREADY_RESOLVED"
                 PROVE  opportunity'[redemption'[i].opp] # Unresolved
      BY DEF ResolvedInv
    <3>1. i # r.id /\ redemption'[i] = redemption[i]
      BY <2>1, <2>4
    <3>2. redemption[i] \in Receipts
      BY <1>0, <3>1 DEF ServerInv, NoReceipt
    <3>3. redemption[i].opp \in Opportunities /\ opportunity[redemption[i].opp] # Unresolved
      BY <1>0, <3>1, <3>2 DEF ServerInv, ResolvedInv, Receipts
    <3> QED BY <2>2, <2>5, <3>1, <3>3
  <2>12. /\ wallet' \in Nat
         /\ opportunity' \in [Opportunities -> OpportunityRows \cup {Unresolved}]
         /\ redemption' \in [RequestIds -> Receipts \cup {NoReceipt}]
         /\ advanced' \in [Opportunities -> Nat]
    BY <1>0, <2>1, <2>2, <2>3 DEF ServerInv
  <2>13. current' \in Opportunities \cup {0} /\ current' <= prompted
    <3>1. prompted \in Nat
      BY <1>0, AdSkipAssumption DEF ServerInv
    <3> QED BY <1>1, <2>3, <3>1
  <2>14. wallet' = Cardinality(granted) - Cardinality(Charged')
    BY <1>0, <2>3, <2>8, <2>9 DEF ServerInv
  <2>15. ServerInv'
    BY <1>0, <1>1, <2>8, <2>10, <2>11, <2>12, <2>13, <2>14 DEF ServerInv
  <2>16. ServerGrows(r)
    BY <2>1, <2>3, <2>4, <2>5 DEF ServerGrows
  <2> QED BY <2>15, <2>16
<1> QED BY <1>0, <1>2, <1>3, <1>4, RedeemCases

-----------------------------------------------------------------------------
\* Where the server's rows stay, so does what the invariant says of them.
LEMMA SameServer ==
  ASSUME ServerInv, UNCHANGED <<serverVars, appVars>>
  PROVE  ServerInv'
<1>1. UNCHANGED <<wallet, granted, opportunity, redemption, prompted, current, advanced>>
  BY DEF serverVars, appVars
<1>2. Charged' = Charged /\ \A k : TicketsOf(k)' = TicketsOf(k)
  BY <1>1 DEF Charged, TicketsOf
<1> QED BY <1>1, <1>2 DEF ServerInv, ResolvedOnce, ResolvedInv

\* No request appears that there was no trace of, and what the client was told
\* of one does not go back to unused.
LEMMA AskedShrinks ==
  ASSUME AskedInv, Asked' \subseteq Asked,
         \A r \in Asked : told[r.id] # "unused" => told'[r.id] # "unused"
  PROVE  AskedInv'
BY DEF AskedInv

\* A key that is true of an opportunity stays true: it is resolved for good.
LEMMA KeysStayTrue ==
  ASSUME \A k \in Opportunities : opportunity[k] # Unresolved => opportunity'[k] = opportunity[k],
         NEW e \in EffectKeys, KeyIsTrue(e)
  PROVE  KeyIsTrue(e)'
<1>1. e[1] \in Resolutions /\ e[2] \in Opportunities
  BY DEF EffectKeys
<1>2. [by |-> e[1], id |-> e[3]] # Unresolved
  BY <1>1 DEF Resolutions, Unresolved
<1> QED BY <1>1, <1>2 DEF KeyIsTrue

\* Where the effects and their marks stay, so does what is known of them.
LEMMA SameEffects ==
  ASSUME EffectInv, \A k \in Opportunities : opportunity[k] # Unresolved => opportunity'[k] = opportunity[k],
         UNCHANGED <<receipts, running, effects>>,
         memory'.applied = memory.applied, disk'.applied = disk.applied
  PROVE  EffectInv'
<1> SUFFICES ASSUME NEW e \in EffectKeys PROVE EffectOK(e)'
  BY DEF EffectInv
<1>1. EffectOK(e)
  BY DEF EffectInv
<1> QED BY <1>1, KeysStayTrue DEF EffectOK

\* The steps of the app and of the server alone leave the client as it is.
LEMMA SameClient ==
  ASSUME ClientType, UNCHANGED clientVars
  PROVE  ClientType'
BY DEF clientVars, ClientType, FlightOK

-----------------------------------------------------------------------------
\* Nothing is prompted, granted or asked for at first.
LEMMA InitInv == AdSkipInit => Inv
<1> SUFFICES ASSUME AdSkipInit PROVE Inv
  OBVIOUS
<1>1. IsFiniteSet({}) /\ Cardinality({}) = 0
  BY FS_EmptySet, Zenon
<1>2. Charged = {} /\ \A k \in Opportunities : TicketsOf(k) = {}
  BY DEF AdSkipInit, Charged, TicketsOf, NoReceipt
<1>3. ServerInv
  BY <1>1, <1>2 DEF AdSkipInit, ServerInv, ResolvedOnce, ResolvedInv, Unresolved, NoReceipt
<1>4. memory = [pending |-> {}, applied |-> {}] /\ disk = memory /\ memory \in ClientStates
  BY DEF AdSkipInit, ClientStates
<1>5. ClientType
  BY <1>1, <1>4, AdSkipAssumption DEF AdSkipInit, ClientType, FlightOK, Flights, Idle
<1>6. Asked = {}
  BY <1>4, RequestFields DEF AdSkipInit, Asked, Traced, Idle
<1>7. AskedInv
  BY <1>6 DEF AskedInv
<1>8. EffectInv
  BY <1>4 DEF AdSkipInit, EffectInv, EffectOK
<1> QED BY <1>3, <1>5, <1>7, <1>8 DEF Inv

\* The next prompt moves the ad that is due, and no row.
LEMMA PromptStep == ASSUME Inv, Prompt PROVE Inv'
<1> USE DEF Inv
<1>1. UNCHANGED <<wallet, granted, opportunity, redemption, advanced>> /\ UNCHANGED clientVars
  BY DEF Prompt, serverVars
<1>2. Charged' = Charged /\ \A k : TicketsOf(k)' = TicketsOf(k)
  BY <1>1 DEF Charged, TicketsOf
<1>3. ServerInv'
  BY <1>1, <1>2, AdSkipAssumption DEF Prompt, ServerInv, ResolvedOnce, ResolvedInv
<1>4. Asked' = Asked /\ UNCHANGED told
  BY <1>1 DEF Asked, Traced, clientVars
<1>5. AskedInv'
  BY <1>4, AskedShrinks
<1>6. EffectInv'
  BY <1>1, SameEffects DEF clientVars
<1> QED BY <1>1, <1>3, <1>5, <1>6, SameClient

\* A grant adds a ticket for a period that overlaps no earlier one.
LEMMA GrantStep == ASSUME Inv, NEW p \in Periods, GrantTickets(p) PROVE Inv'
<1> USE DEF Inv
<1>1. /\ granted' = granted \cup {p} /\ wallet' = wallet + 1 /\ \A q \in granted : ~Overlap(p, q)
      /\ UNCHANGED <<opportunity, redemption, advanced, prompted, current>> /\ UNCHANGED clientVars
  BY DEF GrantTickets, appVars
<1>2. Charged' = Charged /\ \A k : TicketsOf(k)' = TicketsOf(k)
  BY <1>1 DEF Charged, TicketsOf
<1>3. ServerInv'
  <2>1. p[1] \in Int /\ p[2] \in Int /\ p[1] <= p[2]
    BY AdSkipAssumption
  <2>2. p \notin granted
    BY <1>1, <2>1 DEF Overlap
  <2>3. /\ IsFiniteSet(granted') /\ Cardinality(granted') = Cardinality(granted) + 1
        /\ Cardinality(granted) \in Nat /\ Cardinality(Charged) \in Nat
    BY <1>1, <2>2, FS_AddElement, FS_CardinalityType DEF ServerInv
  <2>4. \A q \in Periods : Overlap(p, q) = Overlap(q, p)
    BY AdSkipAssumption DEF Overlap
  <2>5. \A a, b \in granted' : a # b => ~Overlap(a, b)
    BY <1>1, <2>4 DEF ServerInv
  <2>6. wallet' \in Nat /\ granted' \subseteq Periods /\ wallet' = Cardinality(granted') - Cardinality(Charged')
    BY <1>1, <1>2, <2>3 DEF ServerInv
  <2> QED BY <1>1, <1>2, <2>3, <2>5, <2>6 DEF ServerInv, ResolvedOnce, ResolvedInv
<1>4. Asked' = Asked /\ UNCHANGED told
  BY <1>1 DEF Asked, Traced, clientVars
<1>5. AskedInv'
  BY <1>4, AskedShrinks
<1>6. EffectInv'
  BY <1>1, SameEffects DEF clientVars
<1> QED BY <1>1, <1>3, <1>5, <1>6, SameClient

\* An ad settles its opportunity once, and charges no ticket.
LEMMA ClaimStep ==
  ASSUME Inv, NEW k \in Opportunities, NEW how \in {"AD", "FREE"}, ClaimAdOpportunity(k, how)
  PROVE  Inv'
<1> USE DEF Inv
<1> DEFINE row == [by |-> how, id |-> 0]
<1>1. /\ opportunity[k] = Unresolved /\ opportunity' = [opportunity EXCEPT ![k] = row]
      /\ advanced' = [advanced EXCEPT ![k] = @ + 1] /\ current' = IF current = k THEN 0 ELSE current
      /\ UNCHANGED <<wallet, granted, redemption, prompted>> /\ UNCHANGED clientVars
  BY DEF ClaimAdOpportunity, Claims
<1>2. row \in OpportunityRows /\ row # Unresolved /\ row.by # "TICKET"
  BY DEF OpportunityRows, Unresolved, Resolutions
<1> HIDE DEF row
<1>3. Charged' = Charged /\ \A m : TicketsOf(m)' = TicketsOf(m)
  BY <1>1 DEF Charged, TicketsOf
<1>4. opportunity'[k] = row /\ \A m \in Opportunities : m # k => opportunity'[m] = opportunity[m]
  BY <1>1 DEF ServerInv
<1>5. ServerInv'
  <2>1. ASSUME NEW m \in Opportunities PROVE ResolvedOnce(m)'
    <3>1. ResolvedOnce(m)
      BY DEF ServerInv
    <3>2. CASE m = k
      BY <1>1, <1>2, <1>3, <1>4, <3>1, <3>2 DEF ServerInv, ResolvedOnce, Unresolved
    <3>3. CASE m # k
      BY <1>1, <1>3, <1>4, <3>1, <3>3 DEF ServerInv, ResolvedOnce
    <3> QED BY <3>2, <3>3
  <2>2. ASSUME NEW i \in RequestIds, redemption'[i].resolution = "ALREADY_RESOLVED"
        PROVE  opportunity'[redemption'[i].opp] # Unresolved
    <3>1. redemption[i] \in Receipts
      BY <1>1, <2>2 DEF ServerInv, NoReceipt
    <3>2. redemption[i].opp \in Opportunities /\ opportunity[redemption[i].opp] # Unresolved
      BY <1>1, <2>2, <3>1 DEF ServerInv, ResolvedInv, Receipts
    <3> QED BY <1>1, <1>2, <1>4, <3>2
  <2>3. prompted \in Nat /\ current' \in Opportunities \cup {0} /\ current' <= prompted
    <3>1. prompted \in Nat
      BY AdSkipAssumption DEF ServerInv
    <3> QED BY <1>1, <3>1 DEF ServerInv
  <2>4. opportunity' \in [Opportunities -> OpportunityRows \cup {Unresolved}] /\ advanced' \in [Opportunities -> Nat]
    BY <1>1, <1>2 DEF ServerInv
  <2> QED BY <1>1, <1>3, <2>1, <2>2, <2>3, <2>4 DEF ServerInv, ResolvedInv
<1>6. Asked' = Asked /\ UNCHANGED told
  BY <1>1 DEF Asked, Traced, clientVars
<1>7. AskedInv'
  BY <1>6, AskedShrinks
<1>8. EffectInv'
  <2>1. \A m \in Opportunities : opportunity[m] # Unresolved => opportunity'[m] = opportunity[m]
    BY <1>1, <1>4
  <2> QED BY <1>1, <2>1, SameEffects DEF clientVars
<1> QED BY <1>1, <1>5, <1>7, <1>8, SameClient

-----------------------------------------------------------------------------
\* The steps of the client leave no trace of a request that had none.
LEMMA AskedAfter ==
  ASSUME memory'.pending \subseteq memory.pending \cup disk.pending,
         disk'.pending \subseteq memory.pending \cup disk.pending,
         late' \subseteq Asked,
         \A k \in Opportunities : flight'[k].phase # "idle" => [id |-> flight'[k].id, opp |-> k] \in Asked,
         \A q \in Requests : redemption'[q.id] # NoReceipt /\ redemption'[q.id].opp = q.opp => q \in Asked
  PROVE  Asked' \subseteq Asked
<1> SUFFICES ASSUME NEW q \in Requests, Traced(q)' PROVE q \in Asked
  BY DEF Asked
<1>1. CASE q \in memory'.pending \cup disk'.pending \cup late'
  BY <1>1 DEF Asked, Traced
<1>2. CASE flight'[q.opp].phase # "idle" /\ flight'[q.opp].id = q.id
  BY <1>2, RequestFields
<1>3. CASE redemption'[q.id] # NoReceipt /\ redemption'[q.id].opp = q.opp
  BY <1>3
<1> QED BY <1>1, <1>2, <1>3 DEF Traced

\* What is asked already: pending, late, in flight and answered requests.
LEMMA AskedHolds ==
  ASSUME ClientType
  PROVE  /\ late \subseteq Asked
         /\ \A k \in Opportunities : flight[k].phase # "idle" => [id |-> flight[k].id, opp |-> k] \in Asked
         /\ \A q \in Requests : redemption[q.id] # NoReceipt /\ redemption[q.id].opp = q.opp => q \in Asked
         /\ memory.pending \cup disk.pending \subseteq Asked
<1>1. memory.pending \cup disk.pending \cup late \subseteq Requests
  BY DEF ClientType, ClientStates
<1> QED BY <1>1, FlightAsked DEF Asked, Traced

\* A redemption of a request there is a trace of leaves no other trace.
LEMMA AskedRedeem ==
  ASSUME ClientType, NEW r \in Asked, ServerGrows(r)
  PROVE  \A q \in Requests : redemption'[q.id] # NoReceipt /\ redemption'[q.id].opp = q.opp => q \in Asked
<1> SUFFICES ASSUME NEW q \in Requests, redemption'[q.id] # NoReceipt, redemption'[q.id].opp = q.opp
             PROVE  q \in Asked
  OBVIOUS
<1>1. CASE redemption'[q.id] = redemption[q.id]
  BY <1>1, AskedHolds
<1>2. CASE redemption'[q.id] # redemption[q.id]
  <2>1. q.id = r.id
    BY <1>2, RequestFields DEF ServerGrows
  <2>2. q.opp = r.opp
    BY <1>2, <2>1 DEF ServerGrows
  <2>3. q = r
    BY <2>1, <2>2, RequestFields DEF Asked
  <2> QED BY <2>3
<1> QED BY <1>1, <1>2

\* An effect's key is its three parts.
LEMMA KeyParts ==
  ASSUME NEW by \in Resolutions, NEW k \in Opportunities, NEW i \in RequestIds \cup {0}
  PROVE  /\ <<by, k, i>> \in EffectKeys
         /\ <<by, k, i>>[1] = by /\ <<by, k, i>>[2] = k /\ <<by, k, i>>[3] = i
BY DEF EffectKeys

\* The effect of a receipt is the one of the resolution it tells of.
LEMMA ReceiptKey ==
  ASSUME ServerInv', NEW i \in RequestIds, redemption'[i] # NoReceipt, NEW k, k = redemption'[i].opp,
         NEW e, e = EffectKey(i, k, redemption'[i].resolution, opportunity'[k])
  PROVE  e \in EffectKeys /\ KeyIsTrue(e)'
<1>1. /\ redemption'[i] \in Receipts /\ k \in Opportunities
      /\ redemption'[i].resolution \in {"TICKET", "FREE", "ALREADY_RESOLVED"}
  BY DEF ServerInv, Receipts
<1>2. opportunity'[k] \in OpportunityRows \cup {Unresolved} /\ ResolvedOnce(k)'
  BY <1>1 DEF ServerInv
<1>3. CASE redemption'[i].resolution = "TICKET"
  <2>1. i \in TicketsOf(k)'
    BY <1>3 DEF TicketsOf, Charged
  <2>2. opportunity'[k].by = "TICKET" /\ opportunity'[k].id = i
    BY <1>2, <2>1 DEF ResolvedOnce
  <2>3. opportunity'[k] = [by |-> "TICKET", id |-> i]
    BY <1>2, <2>2 DEF OpportunityRows, Unresolved
  <2>4. EffectKey(i, k, redemption'[i].resolution, opportunity'[k]) = <<"TICKET", k, i>>
    BY <1>3 DEF EffectKey
  <2>5. "TICKET" \in Resolutions
    BY DEF Resolutions
  <2>6. e \in EffectKeys /\ e[1] = "TICKET" /\ e[2] = k /\ e[3] = i
    BY <1>1, <2>4, <2>5, KeyParts
  <2> QED BY <2>3, <2>6 DEF KeyIsTrue
<1>4. CASE redemption'[i].resolution = "FREE"
  <2>1. EffectKey(i, k, redemption'[i].resolution, opportunity'[k]) = <<"FREE", k, i>>
    BY <1>4 DEF EffectKey
  <2>2. "FREE" \in Resolutions /\ i # 0
    BY RequestFields DEF Resolutions
  <2>3. e \in EffectKeys /\ e[1] = "FREE" /\ e[3] # 0
    BY <1>1, <2>1, <2>2, KeyParts
  <2> QED BY <2>3 DEF KeyIsTrue
<1>5. CASE redemption'[i].resolution = "ALREADY_RESOLVED"
  <2>1. opportunity'[k] \in OpportunityRows
    BY <1>2, <1>5 DEF ServerInv, ResolvedInv
  <2>2. /\ opportunity'[k].by \in Resolutions /\ opportunity'[k].id \in RequestIds \cup {0}
        /\ opportunity'[k] = [by |-> opportunity'[k].by, id |-> opportunity'[k].id]
    BY <2>1 DEF OpportunityRows
  <2>3. EffectKey(i, k, redemption'[i].resolution, opportunity'[k]) = <<opportunity'[k].by, k, opportunity'[k].id>>
    BY <1>5 DEF EffectKey
  <2>4. e \in EffectKeys /\ e[1] = opportunity'[k].by /\ e[2] = k /\ e[3] = opportunity'[k].id
    BY <1>1, <2>2, <2>3, KeyParts
  <2> QED BY <2>2, <2>4 DEF KeyIsTrue
<1> QED BY <1>1, <1>3, <1>4, <1>5

-----------------------------------------------------------------------------
\* A choice sends a request that is pending, or stores a new one of a new ID.
LEMMA ChooseStep == ASSUME Inv, NEW k \in Opportunities, Choose(k) PROVE Inv'
<1> USE DEF Inv
<1>0. UNCHANGED <<serverVars, appVars>> /\ UNCHANGED <<disk, late, receipts, running, effects>>
  BY DEF Choose
<1>1. ServerInv' /\ UNCHANGED <<redemption, opportunity>>
  BY <1>0, SameServer DEF serverVars
<1>2. 0 < MaxAttempts /\ 0 \in 0..MaxAttempts
  BY AdSkipAssumption
<1>3. ASSUME NEW r \in Requests, Reusable(k, r), UNCHANGED <<memory, told>>,
             flight' = [flight EXCEPT ![k] = [id |-> r.id, tries |-> 0, phase |-> "ready"]]
      PROVE  Inv'
  <2>1. r \in memory.pending /\ r.opp = k /\ r.id \in RequestIds
    BY <1>3, RequestFields DEF Reusable, PendingOf
  <2>2. ClientType'
    BY <1>0, <1>2, <1>3, <2>1 DEF ClientType, Flights, FlightOK
  <2>3. \A m \in Opportunities : flight'[m].phase # "idle" => [id |-> flight'[m].id, opp |-> m] \in Asked
    BY <1>3, <2>1, AskedHolds, RequestFields DEF ClientType
  <2>4. Asked' \subseteq Asked
    BY <1>0, <1>1, <1>3, <2>3, AskedAfter, AskedHolds
  <2>5. AskedInv'
    BY <1>3, <2>4, AskedShrinks
  <2>6. EffectInv'
    BY <1>0, <1>1, <1>3, SameEffects
  <2> QED BY <1>1, <2>2, <2>5, <2>6
<1>4. ASSUME NEW i \in RequestIds, Fresh(i), memory' = Remember(memory, [id |-> i, opp |-> k]),
             flight' = [flight EXCEPT ![k] = [id |-> i, tries |-> 0, phase |-> "ready"]],
             told' = [told EXCEPT ![i] = "nothing"]
      PROVE  Inv'
  <2> DEFINE r == [id |-> i, opp |-> k]
  <2>1. r \in Requests /\ r.id = i /\ r.opp = k
    BY RequestFields
  <2> HIDE DEF r
  <2>2. memory' = Remember(memory, r)
    BY <1>4 DEF r
  <2>3. /\ memory' \in ClientStates /\ memory'.applied = memory.applied
        /\ memory'.pending \subseteq memory.pending \cup {r} /\ IsFiniteSet(memory'.pending)
    BY <2>1, <2>2, PendingKept DEF ClientType
  <2>4. ClientType'
    BY <1>0, <1>2, <1>4, <2>3 DEF ClientType, Flights, FlightOK
  <2>5. told[i] = "unused" /\ told'[i] = "nothing" /\ \A j \in RequestIds : j # i => told'[j] = told[j]
    BY <1>4 DEF Fresh, ClientType
  <2>6. \A q \in Asked : q.id # i
    BY <2>5 DEF AskedInv
  <2>7. Asked' \subseteq Asked \cup {r}
    <3> SUFFICES ASSUME NEW q \in Requests, Traced(q)' PROVE q \in Asked \cup {r}
      BY DEF Asked
    <3>1. CASE q \in memory'.pending \cup disk'.pending \cup late'
      BY <1>0, <2>3, <3>1, AskedHolds
    <3>2. CASE flight'[q.opp].phase # "idle" /\ flight'[q.opp].id = q.id
      <4>1. CASE q.opp = k
        BY <1>4, <2>1, <3>2, <4>1, RequestFields DEF ClientType
      <4>2. CASE q.opp # k
        BY <1>4, <3>2, <4>2, RequestFields, AskedHolds DEF ClientType
      <4> QED BY <4>1, <4>2
    <3>3. CASE redemption'[q.id] # NoReceipt /\ redemption'[q.id].opp = q.opp
      BY <1>1, <3>3, AskedHolds
    <3> QED BY <3>1, <3>2, <3>3 DEF Traced
  <2>8. AskedInv'
    <3> SUFFICES ASSUME NEW q \in Asked'
                 PROVE  told'[q.id] # "unused" /\ \A m \in Asked' : m.id = q.id => m.opp = q.opp
      BY DEF AskedInv
    <3>1. CASE q \in Asked
      <4>1. q.id \in RequestIds
        BY <3>1, RequestFields DEF Asked
      <4> QED BY <2>1, <2>5, <2>6, <2>7, <3>1, <4>1 DEF AskedInv
    <3>2. CASE q = r
      BY <2>1, <2>5, <2>6, <2>7, <3>2
    <3> QED BY <2>7, <3>1, <3>2
  <2>9. EffectInv'
    BY <1>0, <1>1, <2>3, SameEffects
  <2> QED BY <1>1, <2>4, <2>8, <2>9
<1> QED BY <1>3, <1>4 DEF Choose

\* An attempt that is sent or times out is the same request.
LEMMA SendStep == ASSUME Inv, NEW k \in Opportunities, Send(k) PROVE Inv'
<1> USE DEF Inv
<1>0. /\ UNCHANGED <<serverVars, appVars>> /\ UNCHANGED <<memory, disk, late, receipts, running, effects, told>>
      /\ flight[k].phase = "ready" /\ flight' = [flight EXCEPT ![k].phase = "sent", ![k].tries = @ + 1]
  BY DEF Send
<1>1. ServerInv' /\ UNCHANGED <<redemption, opportunity>>
  BY <1>0, SameServer DEF serverVars
<1>2. /\ flight[k] \in Flights /\ flight[k].id \in RequestIds
      /\ flight[k].tries \in Nat /\ flight[k].tries < MaxAttempts /\ flight[k].tries + 1 \in 0..MaxAttempts
  BY <1>0, AdSkipAssumption DEF ClientType, FlightOK, Flights
<1>3. flight'[k] = [id |-> flight[k].id, tries |-> flight[k].tries + 1, phase |-> "sent"]
  <2>1. flight'[k] = [flight[k] EXCEPT !.phase = "sent", !.tries = @ + 1]
    BY <1>0 DEF ClientType
  <2>2. PICK i \in RequestIds \cup {0}, n \in 0..MaxAttempts, p \in {"idle", "ready", "sent"} :
          flight[k] = [id |-> i, tries |-> n, phase |-> p]
    BY <1>2 DEF Flights
  <2> QED BY <2>1, <2>2
<1>4. \A m \in Opportunities : m # k => flight'[m] = flight[m]
  BY <1>0 DEF ClientType
<1>5. ClientType'
  <2>1. flight'[k] \in Flights /\ FlightOK(k)'
    BY <1>2, <1>3 DEF Flights, FlightOK
  <2>2. \A m \in Opportunities : FlightOK(m)'
    BY <1>4, <2>1 DEF ClientType, FlightOK
  <2>3. flight' \in [Opportunities -> Flights]
    BY <1>0, <1>3, <2>1 DEF ClientType
  <2> QED BY <1>0, <2>2, <2>3 DEF ClientType
<1>6. \A m \in Opportunities : flight'[m].phase # "idle" => [id |-> flight'[m].id, opp |-> m] \in Asked
  <2>1. flight'[k].id = flight[k].id /\ flight[k].phase # "idle"
    BY <1>0, <1>3
  <2> QED BY <1>4, <2>1, AskedHolds
<1>7. AskedInv'
  BY <1>0, <1>1, <1>6, AskedAfter, AskedHolds, AskedShrinks
<1>8. EffectInv'
  BY <1>0, <1>1, SameEffects
<1> QED BY <1>1, <1>5, <1>7, <1>8

LEMMA TimeOutStep == ASSUME Inv, NEW k \in Opportunities, TimeOut(k) PROVE Inv'
<1> USE DEF Inv
<1>0. /\ UNCHANGED <<serverVars, appVars>> /\ UNCHANGED <<memory, disk, receipts, running, effects, told>>
      /\ flight[k].phase = "sent" /\ late' = late \cup {[id |-> flight[k].id, opp |-> k]}
      /\ flight' = [flight EXCEPT ![k] =
           IF flight[k].tries < MaxAttempts THEN [flight[k] EXCEPT !.phase = "ready"] ELSE Idle]
  BY DEF TimeOut
<1>1. ServerInv' /\ UNCHANGED <<redemption, opportunity>>
  BY <1>0, SameServer DEF serverVars
<1>2. /\ flight[k] \in Flights /\ flight[k].id \in RequestIds /\ flight[k].tries \in 0..MaxAttempts
      /\ Idle \in Flights
  BY <1>0, AdSkipAssumption DEF ClientType, FlightOK, Flights, Idle
<1>3. flight'[k] = IF flight[k].tries < MaxAttempts
                   THEN [id |-> flight[k].id, tries |-> flight[k].tries, phase |-> "ready"] ELSE Idle
  BY <1>0, <1>2 DEF ClientType, Flights
<1>4. \A m \in Opportunities : m # k => flight'[m] = flight[m]
  BY <1>0 DEF ClientType
<1>5. ClientType'
  <2>1. flight'[k] \in Flights /\ FlightOK(k)'
    BY <1>2, <1>3 DEF Flights, FlightOK, Idle
  <2>2. \A m \in Opportunities : FlightOK(m)'
    BY <1>4, <2>1 DEF ClientType, FlightOK
  <2>3. flight' \in [Opportunities -> Flights]
    BY <1>0, <1>3, <2>1 DEF ClientType
  <2>4. late' \subseteq Requests
    BY <1>0, <1>2, RequestFields DEF ClientType
  <2> QED BY <1>0, <2>2, <2>3, <2>4 DEF ClientType
<1>6. \A m \in Opportunities : flight'[m].phase # "idle" => [id |-> flight'[m].id, opp |-> m] \in Asked
  BY <1>0, <1>3, <1>4, AskedHolds DEF Idle
<1>7. late' \subseteq Asked
  BY <1>0, AskedHolds
<1>8. AskedInv'
  BY <1>0, <1>1, <1>6, <1>7, AskedAfter, AskedHolds, AskedShrinks
<1>9. EffectInv'
  BY <1>0, <1>1, SameEffects
<1> QED BY <1>1, <1>5, <1>8, <1>9

\* The writes that reach storage leave the state that was in memory.
LEMMA FlushStep == ASSUME Inv, Flush PROVE Inv'
<1> USE DEF Inv
<1>0. /\ UNCHANGED <<serverVars, appVars>> /\ UNCHANGED <<memory, flight, late, receipts, running, effects, told>>
      /\ disk' = memory
  BY DEF Flush
<1>1. ServerInv' /\ UNCHANGED <<redemption, opportunity>>
  BY <1>0, SameServer DEF serverVars
<1>2. ClientType'
  BY <1>0 DEF ClientType, FlightOK
<1>3. AskedInv'
  BY <1>0, <1>1, AskedAfter, AskedHolds, AskedShrinks
<1>4. EffectInv'
  <2> SUFFICES ASSUME NEW e \in EffectKeys PROVE EffectOK(e)'
    BY DEF EffectInv
  <2>1. EffectOK(e) /\ (KeyIsTrue(e) => KeyIsTrue(e)')
    BY <1>1 DEF EffectInv, KeyIsTrue
  <2> QED BY <1>0, <2>1 DEF EffectOK
<1> QED BY <1>1, <1>2, <1>3, <1>4

\* What is discarded was pending for an opportunity an ad settled.
LEMMA DiscardStep == ASSUME Inv, NEW k \in Opportunities, Discard(k) PROVE Inv'
<1> USE DEF Inv
<1>0. /\ UNCHANGED <<serverVars, appVars>> /\ UNCHANGED <<disk, flight, late, receipts, running, effects, told>>
      /\ memory' = Without(memory, k)
  BY DEF Discard
<1>1. ServerInv' /\ UNCHANGED <<redemption, opportunity>>
  BY <1>0, SameServer DEF serverVars
<1>2. /\ memory' \in ClientStates /\ memory'.applied = memory.applied
      /\ memory'.pending \subseteq memory.pending /\ IsFiniteSet(memory'.pending)
  BY <1>0, PendingLeft DEF ClientType
<1>3. ClientType'
  BY <1>0, <1>2 DEF ClientType, FlightOK
<1>4. AskedInv'
  BY <1>0, <1>1, <1>2, AskedAfter, AskedHolds, AskedShrinks
<1>5. EffectInv'
  BY <1>0, <1>1, <1>2, SameEffects
<1> QED BY <1>1, <1>3, <1>4, <1>5

\* A mark is stored for a receipt's effect, which runs if it was not marked.
LEMMA MarkStep == ASSUME Inv, NEW e \in EffectKeys, MarkEffect(e) PROVE Inv'
<1> USE DEF Inv
<1>0. /\ UNCHANGED <<serverVars, appVars>> /\ UNCHANGED <<disk, flight, late, effects, told>>
      /\ e \in receipts /\ receipts' = receipts \ {e}
      /\ memory' = [memory EXCEPT !.applied = @ \cup {e}]
      /\ running' = IF e \in memory.applied THEN running ELSE running \cup {e}
  BY DEF MarkEffect
<1>1. ServerInv' /\ UNCHANGED <<redemption, opportunity>>
  BY <1>0, SameServer DEF serverVars
<1>2. memory' \in ClientStates /\ memory'.applied = memory.applied \cup {e} /\ memory'.pending = memory.pending
  BY <1>0 DEF ClientType, ClientStates
<1>3. ClientType'
  BY <1>0, <1>2 DEF ClientType, FlightOK
<1>4. AskedInv'
  BY <1>0, <1>1, <1>2, AskedAfter, AskedHolds, AskedShrinks
<1>5. EffectInv'
  <2> SUFFICES ASSUME NEW d \in EffectKeys PROVE EffectOK(d)'
    BY DEF EffectInv
  <2>1. EffectOK(d) /\ EffectOK(e) /\ (KeyIsTrue(d) => KeyIsTrue(d)')
    BY <1>1 DEF EffectInv, KeyIsTrue
  <2>2. CASE d = e
    BY <1>0, <1>2, <2>1, <2>2 DEF EffectOK
  <2>3. CASE d # e
    BY <1>0, <1>2, <2>1, <2>3 DEF EffectOK
  <2> QED BY <2>2, <2>3
<1> QED BY <1>1, <1>3, <1>4, <1>5

\* An effect runs once its mark is stored.
LEMMA RunStep == ASSUME Inv, NEW e \in EffectKeys, RunEffect(e) PROVE Inv'
<1> USE DEF Inv
<1>0. /\ UNCHANGED <<serverVars, appVars>> /\ UNCHANGED <<memory, disk, flight, late, receipts, told>>
      /\ e \in running /\ disk = memory /\ running' = running \ {e}
      /\ effects' = [effects EXCEPT ![e] = @ + 1]
  BY DEF RunEffect, MayRun
<1>1. ServerInv' /\ UNCHANGED <<redemption, opportunity>>
  BY <1>0, SameServer DEF serverVars
<1>2. ClientType'
  BY <1>0 DEF ClientType, FlightOK
<1>3. AskedInv'
  BY <1>0, <1>1, AskedAfter, AskedHolds, AskedShrinks
<1>4. EffectInv'
  <2> SUFFICES ASSUME NEW d \in EffectKeys PROVE EffectOK(d)'
    BY DEF EffectInv
  <2>1. EffectOK(d) /\ EffectOK(e) /\ (KeyIsTrue(d) => KeyIsTrue(d)')
    BY <1>1 DEF EffectInv, KeyIsTrue
  <2>2. effects'[e] = effects[e] + 1 /\ \A x \in EffectKeys : x # e => effects'[x] = effects[x]
    BY <1>0 DEF ClientType
  <2>3. CASE d = e
    BY <1>0, <2>1, <2>2, <2>3 DEF EffectOK
  <2>4. CASE d # e
    BY <1>0, <2>1, <2>2, <2>4 DEF EffectOK
  <2> QED BY <2>3, <2>4
<1> QED BY <1>1, <1>2, <1>3, <1>4

\* A killed app has what it stored; what it had sent is still on the way.
LEMMA RestartStep == ASSUME Inv, Restart PROVE Inv'
<1> USE DEF Inv
<1>0. /\ UNCHANGED <<serverVars, appVars>> /\ UNCHANGED <<disk, effects, told>>
      /\ memory' = disk /\ receipts' = {} /\ running' = {}
      /\ flight' = [k \in Opportunities |-> Idle]
      /\ late' = late \cup {[id |-> flight[k].id, opp |-> k] : k \in {j \in Opportunities : flight[j].phase = "sent"}}
  BY DEF Restart
<1>1. ServerInv' /\ UNCHANGED <<redemption, opportunity>>
  BY <1>0, SameServer DEF serverVars
<1>2. late' \subseteq Asked
  BY <1>0, AskedHolds
<1>3. ClientType'
  <2>1. Idle \in Flights /\ late' \subseteq Requests
    BY <1>2, AdSkipAssumption DEF Flights, Idle, Asked
  <2> QED BY <1>0, <2>1 DEF ClientType, FlightOK, Idle
<1>4. AskedInv'
  <2>1. \A m \in Opportunities : flight'[m].phase = "idle"
    BY <1>0 DEF Idle
  <2> QED BY <1>0, <1>1, <1>2, <2>1, AskedAfter, AskedHolds, AskedShrinks
<1>5. EffectInv'
  <2> SUFFICES ASSUME NEW e \in EffectKeys PROVE EffectOK(e)'
    BY DEF EffectInv
  <2>1. EffectOK(e) /\ (KeyIsTrue(e) => KeyIsTrue(e)')
    BY <1>1 DEF EffectInv, KeyIsTrue
  <2> QED BY <1>0, <2>1 DEF EffectOK
<1> QED BY <1>1, <1>3, <1>4, <1>5

\* A request that is handled unheard changes the server alone.
LEMMA UnheardStep ==
  ASSUME Inv, NEW r \in Requests, NEW allowed \in BOOLEAN, HandleUnheard(r, allowed)
  PROVE  Inv'
<1> USE DEF Inv
<1>0. Redeem(r, allowed) /\ UNCHANGED clientVars
  BY DEF HandleUnheard
<1>1. r \in Asked
  BY DEF HandleUnheard, Asked, Traced
<1>2. ServerInv' /\ ServerGrows(r)
  BY <1>0, RedeemServer
<1>3. ClientType'
  BY <1>0, SameClient
<1>4. AskedInv'
  BY <1>0, <1>1, <1>2, AskedRedeem, AskedAfter, AskedHolds, AskedShrinks DEF clientVars
<1>5. EffectInv'
  BY <1>0, <1>2, SameEffects DEF clientVars, ServerGrows
<1> QED BY <1>2, <1>3, <1>4, <1>5

\* An answer is handled, clears what is pending for its opportunity and, with a
\* receipt, brings the effect of the resolution it tells of.
LEMMA AnswerStep ==
  ASSUME Inv, NEW k \in Opportunities, NEW allowed \in BOOLEAN, Answer(k, allowed)
  PROVE  Inv'
<1> USE DEF Inv
<1> DEFINE r == [id |-> flight[k].id, opp |-> k]
<1>0. /\ flight[k].phase = "sent" /\ Redeem(r, allowed)
      /\ flight' = [flight EXCEPT ![k] = Idle] /\ memory' = Without(memory, k)
      /\ UNCHANGED <<disk, late, running, effects>>
  BY DEF Answer
<1>1. r \in Asked /\ r \in Requests /\ r.opp = k /\ r.id = flight[k].id /\ r.id \in RequestIds
  BY <1>0, FlightAsked, RequestFields DEF Asked, ClientType, FlightOK
<1>2. /\ redemption'[r.id] # NoReceipt =>
           /\ receipts' = receipts \cup {EffectKey(r.id, k, redemption'[r.id].resolution, opportunity'[k])}
           /\ told' = [told EXCEPT ![r.id] = "receipt"]
      /\ redemption'[r.id] = NoReceipt =>
           told' = [told EXCEPT ![r.id] = "rejected"] /\ UNCHANGED receipts
  BY DEF Answer
<1> HIDE DEF r
<1>3. ServerInv' /\ ServerGrows(r)
  BY <1>0, <1>1, RedeemServer
<1>4. redemption'[r.id] # NoReceipt => redemption'[r.id].opp = k
  <2> SUFFICES ASSUME redemption[r.id] # NoReceipt, redemption[r.id] = redemption'[r.id]
               PROVE  redemption[r.id].opp = k
    BY <1>1, <1>3 DEF ServerGrows
  <2> DEFINE q == [id |-> r.id, opp |-> redemption[r.id].opp]
  <2>1. redemption[r.id].opp \in Opportunities
    BY <1>1 DEF ServerInv, Receipts
  <2>2. q \in Requests /\ q.id = r.id /\ q.opp = redemption[r.id].opp
    BY <1>1, <2>1, RequestFields
  <2> HIDE DEF q
  <2>3. q \in Asked
    BY <2>2, AskedHolds
  <2> QED BY <1>1, <2>2, <2>3 DEF AskedInv
<1>5. ASSUME NEW e, e \in receipts', e \notin receipts
      PROVE  e \in EffectKeys /\ KeyIsTrue(e)'
  <2>1. redemption'[r.id] # NoReceipt /\ e = EffectKey(r.id, k, redemption'[r.id].resolution, opportunity'[k])
    BY <1>2, <1>5
  <2> QED BY <1>1, <1>3, <1>4, <2>1, ReceiptKey
<1>6. /\ memory' \in ClientStates /\ memory'.applied = memory.applied
      /\ memory'.pending \subseteq memory.pending /\ IsFiniteSet(memory'.pending)
  BY <1>0, PendingLeft DEF ClientType
<1>7. ClientType'
  <2>1. Idle \in Flights
    BY AdSkipAssumption DEF Flights, Idle
  <2>2. flight' \in [Opportunities -> Flights] /\ \A m \in Opportunities : FlightOK(m)'
    BY <1>0, <2>1 DEF ClientType, FlightOK, Idle
  <2>3. told' \in [RequestIds -> {"unused", "nothing", "receipt", "rejected"}]
    BY <1>1, <1>2 DEF ClientType
  <2>4. receipts' \subseteq EffectKeys
    BY <1>5 DEF ClientType
  <2> QED BY <1>0, <1>6, <2>2, <2>3, <2>4 DEF ClientType
<1>8. AskedInv'
  <2>1. \A m \in Opportunities : flight'[m].phase # "idle" => [id |-> flight'[m].id, opp |-> m] \in Asked
    BY <1>0, AskedHolds DEF ClientType, Idle
  <2>2. Asked' \subseteq Asked
    BY <1>0, <1>1, <1>3, <1>6, <2>1, AskedRedeem, AskedAfter, AskedHolds
  <2>3. \A q \in Asked : told[q.id] # "unused" => told'[q.id] # "unused"
    BY <1>1, <1>2, RequestFields DEF ClientType, Asked
  <2> QED BY <2>2, <2>3, AskedShrinks
<1>9. EffectInv'
  <2> SUFFICES ASSUME NEW e \in EffectKeys PROVE EffectOK(e)'
    BY DEF EffectInv
  <2>1. EffectOK(e) /\ (KeyIsTrue(e) => KeyIsTrue(e)')
    BY <1>3, KeysStayTrue DEF EffectInv, ServerGrows
  <2>2. e \in receipts' => e \in receipts \/ KeyIsTrue(e)'
    BY <1>5
  <2> QED BY <1>0, <1>6, <2>1, <2>2 DEF EffectOK
<1> QED BY <1>3, <1>7, <1>8, <1>9

-----------------------------------------------------------------------------
\* What is awaited was awaited before, unless its request is new: an
\* opportunity that is settled stays settled.
LEMMA AwaitedBefore ==
  ASSUME \A k \in Opportunities : opportunity[k] # Unresolved => opportunity'[k] = opportunity[k],
         NEW r \in Requests, told'[r.id] = "nothing" => told[r.id] = "nothing", Awaited(r)'
  PROVE  Awaited(r)
BY RequestFields DEF Awaited, Settled, Unresolved

\* A flight is kept when the one request it may be is.
LEMMA FlightRule ==
  ASSUME ClientType', NEW k \in Opportunities,
         \A q \in Requests :
           Awaited(q)' /\ flight'[k].phase # "idle" /\ q.id = flight'[k].id /\ q.opp = k =>
             q \in memory'.pending /\ (flight'[k].tries > 0 => q \in disk'.pending)
  PROVE  FlightKept(k)'
<1> SUFFICES ASSUME flight'[k].phase # "idle" PROVE FlightKept(k)'
  BY DEF FlightKept
<1>1. \A q \in Requests : Awaited(q)' = (told'[q.id] = "nothing" /\ ~(opportunity'[q.opp].by \in {"AD", "FREE"}))
  BY DEF Awaited, Settled
<1>2. flight'[k].id \in RequestIds
  BY DEF ClientType, FlightOK
<1> QED BY <1>1, <1>2, RequestFields DEF FlightKept, Awaited, Settled

\* A step that tells nothing new, and keeps what is pending, charged and sent.
LEMMA KeptBy ==
  ASSUME ClientType, KeptInv,
         \A k \in Opportunities : opportunity[k] # Unresolved => opportunity'[k] = opportunity[k],
         memory'.pending = memory.pending, disk'.pending = disk.pending,
         UNCHANGED <<redemption, told, flight, late>>
  PROVE  KeptInv'
<1>1. Charged' = Charged
  BY DEF Charged
<1>2. OnePending' /\ ChargesAreKnown'
  BY <1>1 DEF KeptInv, OnePending, ChargesAreKnown
<1>3. ASSUME NEW k \in Opportunities PROVE FlightKept(k)'
  <2> DEFINE r == [id |-> flight[k].id, opp |-> k]
  <2>1. CASE flight[k].phase = "idle"
    BY <2>1 DEF FlightKept
  <2>2. CASE flight[k].phase # "idle"
    <3>1. r \in Requests
      BY <2>2, RequestFields DEF ClientType, FlightOK
    <3>2. Awaited(r)' => Awaited(r)
      BY <3>1, AwaitedBefore
    <3> QED BY <3>2 DEF KeptInv, FlightKept
  <2> QED BY <2>1, <2>2
<1>4. ASSUME NEW r \in Requests PROVE LateKept(r)'
  <2>1. Awaited(r)' => Awaited(r)
    BY AwaitedBefore
  <2> QED BY <2>1 DEF KeptInv, LateKept
<1> QED BY <1>2, <1>3, <1>4 DEF KeptInv

\* A ticket a redemption charges is one of the request's own opportunity.
LEMMA NewCharges ==
  ASSUME Inv, NEW r \in Requests, ServerInv', ServerGrows(r), NEW i \in Charged'
  PROVE  \/ i \in Charged /\ redemption'[i] = redemption[i]
         \/ i = r.id /\ redemption'[i].opp = r.opp /\ ~Settled(r.opp)
<1>1. i \in RequestIds /\ redemption'[i].resolution = "TICKET" /\ r.opp \in Opportunities
  BY RequestFields DEF Charged
<1>2. CASE redemption'[i] = redemption[i]
  BY <1>1, <1>2 DEF Charged
<1>3. CASE redemption'[i] # redemption[i]
  <2>1. i = r.id /\ redemption'[i].opp = r.opp
    BY <1>1, <1>3 DEF ServerGrows, NoReceipt
  <2>2. i \in TicketsOf(r.opp)'
    BY <2>1 DEF TicketsOf
  <2>3. opportunity'[r.opp].by = "TICKET"
    BY <1>1, <2>2 DEF ServerInv, ResolvedOnce
  <2>4. ~Settled(r.opp)
    BY <1>1, <2>3 DEF ServerGrows, Settled, Unresolved
  <2> QED BY <2>1, <2>4
<1> QED BY <1>2, <1>3

\* A choice keeps the request it sends pending, and cuts no other while there
\* is room.
LEMMA ChooseKeeps ==
  ASSUME Inv, KeptInv, RoomLeft, NEW k \in Opportunities, Choose(k)
  PROVE  KeptInv'
<1> USE DEF Inv
<1>0. /\ UNCHANGED <<redemption, opportunity, disk, late>> /\ Charged' = Charged
      /\ flight[k] = Idle
  BY DEF Choose, serverVars, Charged
<1>1. ASSUME NEW r \in Requests, Reusable(k, r), UNCHANGED <<memory, told>>,
             flight' = [flight EXCEPT ![k] = [id |-> r.id, tries |-> 0, phase |-> "ready"]]
      PROVE  KeptInv'
  <2>1. r \in memory.pending /\ r.opp = k
    BY <1>1 DEF Reusable, PendingOf
  <2>2. flight'[k] = [id |-> r.id, tries |-> 0, phase |-> "ready"] /\ \A m \in Opportunities : m # k => flight'[m] = flight[m]
    BY <1>1 DEF ClientType
  <2>3. OnePending'
    <3>1. \A q \in memory.pending : q.opp = k => q = r
      BY <2>1 DEF KeptInv, OnePending
    <3>2. \A q \in memory.pending : q.opp \in Opportunities
      BY RequestFields DEF ClientType, ClientStates
    <3> QED BY <1>0, <1>1, <2>2, <3>1, <3>2 DEF KeptInv, OnePending
  <2>4. ChargesAreKnown'
    BY <1>0, <1>1 DEF KeptInv, ChargesAreKnown
  <2>5. ASSUME NEW m \in Opportunities PROVE FlightKept(m)'
    <3>1. CASE m = k
      <4>1. [id |-> flight'[m].id, opp |-> m] = r /\ flight'[m].tries = 0
        BY <2>1, <2>2, <3>1, RequestFields
      <4> QED BY <1>1, <2>1, <4>1 DEF FlightKept
    <3>2. CASE m # k
      <4>1. flight'[m] = flight[m] /\ FlightKept(m)
        BY <2>2, <3>2 DEF KeptInv
      <4> QED BY <1>0, <1>1, <4>1 DEF FlightKept, Awaited, Settled
    <3> QED BY <3>1, <3>2
  <2>6. \A q \in Requests : LateKept(q)'
    BY <1>0, <1>1 DEF KeptInv, LateKept, Awaited, Settled
  <2> QED BY <2>3, <2>4, <2>5, <2>6 DEF KeptInv
<1>2. ASSUME NEW i \in RequestIds, PendingOf(memory, k) = {}, Fresh(i),
             memory' = Remember(memory, [id |-> i, opp |-> k]),
             flight' = [flight EXCEPT ![k] = [id |-> i, tries |-> 0, phase |-> "ready"]],
             told' = [told EXCEPT ![i] = "nothing"]
      PROVE  KeptInv'
  <2> DEFINE r == [id |-> i, opp |-> k]
  <2>1. r \in Requests /\ r.id = i /\ r.opp = k
    BY RequestFields
  <2>2. memory' = Remember(memory, r)
    BY <1>2
  <2> HIDE DEF r
  <2>3. memory'.pending = memory.pending \cup {r}
    BY <1>2, <2>1, <2>2, PendingKept DEF ClientType, RoomLeft
  <2>4. flight'[k] = [id |-> i, tries |-> 0, phase |-> "ready"] /\ \A m \in Opportunities : m # k => flight'[m] = flight[m]
    BY <1>2 DEF ClientType
  <2>5. told[i] = "unused" /\ \A j \in RequestIds : j # i => told'[j] = told[j]
    BY <1>2 DEF Fresh, ClientType
  <2>6. \A q \in Asked : q.id # i
    BY <2>5 DEF AskedInv
  <2>7. OnePending'
    <3>1. \A q \in memory.pending : q.opp # k /\ q.opp \in Opportunities
      BY <1>2, RequestFields DEF PendingOf, ClientType, ClientStates
    <3>2. \A q \in memory'.pending : flight'[q.opp].phase # "idle" => flight'[q.opp].id = q.id
      BY <2>1, <2>3, <2>4, <3>1 DEF KeptInv, OnePending
    <3>3. \A p, q \in memory'.pending : p.opp = q.opp => p = q
      BY <2>1, <2>3, <3>1 DEF KeptInv, OnePending
    <3> QED BY <1>0, <3>2, <3>3 DEF KeptInv, OnePending
  <2>8. ChargesAreKnown'
    <3> SUFFICES ASSUME NEW j \in Charged, told'[j] = "nothing"
                 PROVE  /\ [id |-> j, opp |-> redemption[j].opp] \in memory'.pending
                        /\ [id |-> j, opp |-> redemption[j].opp] \in disk.pending
      BY <1>0 DEF ChargesAreKnown
    <3> DEFINE q == [id |-> j, opp |-> redemption[j].opp]
    <3>1. j \in RequestIds /\ redemption[j] \in Receipts /\ redemption[j] # NoReceipt
      BY DEF Charged, ServerInv, NoReceipt
    <3>2. q \in Requests /\ q.id = j /\ q.opp = redemption[j].opp
      BY <3>1, RequestFields DEF Receipts
    <3> HIDE DEF q
    <3>3. j # i
      BY <2>6, <3>1, <3>2, AskedHolds
    <3>4. told[j] = "nothing"
      BY <2>5, <3>1, <3>3
    <3> QED BY <2>3, <3>4 DEF KeptInv, ChargesAreKnown
  <2>9. ASSUME NEW m \in Opportunities PROVE FlightKept(m)'
    <3>1. CASE m = k
      <4>1. [id |-> flight'[m].id, opp |-> m] = r /\ flight'[m].tries = 0
        BY <2>1, <2>4, <3>1, RequestFields
      <4> QED BY <2>3, <4>1 DEF FlightKept
    <3>2. CASE m # k /\ flight[m].phase # "idle"
      <4> DEFINE q == [id |-> flight[m].id, opp |-> m]
      <4>1. flight'[m] = flight[m] /\ FlightKept(m)
        BY <2>4, <3>2 DEF KeptInv
      <4>2. q \in Asked /\ q.id \in RequestIds /\ q.id # i /\ q.opp = m
        BY <2>6, <3>2, AskedHolds, RequestFields DEF ClientType, FlightOK
      <4>3. told'[q.id] = told[q.id]
        BY <2>5, <4>2
      <4>4. Awaited(q)' = Awaited(q)
        BY <1>0, <4>1, <4>3 DEF Awaited, Settled
      <4> QED BY <1>0, <2>3, <4>1, <4>4 DEF FlightKept
    <3>3. CASE m # k /\ flight[m].phase = "idle"
      BY <2>4, <3>3 DEF FlightKept
    <3> QED BY <3>1, <3>2, <3>3
  <2>10. ASSUME NEW q \in Requests PROVE LateKept(q)'
    <3> SUFFICES ASSUME q \in late PROVE LateKept(q)'
      BY <1>0 DEF LateKept
    <3>1. q.id # i /\ q.id \in RequestIds
      BY <2>6, AskedHolds, RequestFields
    <3>2. told'[q.id] = told[q.id]
      BY <2>5, <3>1
    <3> QED BY <1>0, <2>3, <3>2 DEF KeptInv, LateKept, Awaited, Settled
  <2> QED BY <2>7, <2>8, <2>9, <2>10 DEF KeptInv
<1> QED BY <1>1, <1>2 DEF Choose

\* The steps that leave the pending list, the flights and the answers alone.
LEMMA AsideKeeps ==
  ASSUME Inv, KeptInv,
         \/ Prompt \/ (\E p \in Periods : GrantTickets(p))
         \/ (\E k \in Opportunities, how \in {"AD", "FREE"} : ClaimAdOpportunity(k, how))
         \/ (\E e \in EffectKeys : MarkEffect(e) \/ RunEffect(e)) \/ UNCHANGED adSkipVars
  PROVE  KeptInv'
<1> USE DEF Inv
<1>1. UNCHANGED <<redemption, told, flight, late>>
  BY DEF Prompt, GrantTickets, ClaimAdOpportunity, MarkEffect, RunEffect, adSkipVars, serverVars, clientVars
<1>2. \A k \in Opportunities : opportunity[k] # Unresolved => opportunity'[k] = opportunity[k]
  BY DEF Prompt, GrantTickets, ClaimAdOpportunity, Claims, MarkEffect, RunEffect, adSkipVars, serverVars, ServerInv
<1>3. memory'.pending = memory.pending /\ disk'.pending = disk.pending
  BY DEF Prompt, GrantTickets, ClaimAdOpportunity, MarkEffect, RunEffect, adSkipVars, clientVars,
         ClientType, ClientStates
<1> QED BY <1>1, <1>2, <1>3, KeptBy

\* Storage has what memory has.
LEMMA FlushKeeps == ASSUME Inv, KeptInv, Flush PROVE KeptInv'
<1>1. /\ UNCHANGED <<redemption, opportunity, memory, flight, late, told>> /\ disk' = memory
      /\ Charged' = Charged
  BY DEF Flush, serverVars, Charged
<1>2. OnePending' /\ ChargesAreKnown'
  BY <1>1 DEF KeptInv, OnePending, ChargesAreKnown
<1>3. \A k \in Opportunities : FlightKept(k)'
  BY <1>1 DEF KeptInv, FlightKept, Awaited, Settled
<1>4. \A r \in Requests : LateKept(r)'
  BY <1>1 DEF KeptInv, LateKept, Awaited, Settled
<1> QED BY <1>2, <1>3, <1>4 DEF KeptInv

\* What is discarded belongs to an opportunity that no ticket will be charged for.
LEMMA DiscardKeeps == ASSUME Inv, KeptInv, NEW k \in Opportunities, Discard(k) PROVE KeptInv'
<1> USE DEF Inv
<1>1. /\ UNCHANGED <<redemption, opportunity, disk, flight, late, told>> /\ Charged' = Charged
      /\ Settled(k) /\ memory' = Without(memory, k)
  BY DEF Discard, serverVars, Charged, Settled
<1>2. memory'.pending = {r \in memory.pending : r.opp # k}
  BY <1>1, PendingLeft DEF ClientType
<1>3. OnePending'
  BY <1>1, <1>2 DEF KeptInv, OnePending
<1>4. ChargesAreKnown'
  <2> SUFFICES ASSUME NEW i \in Charged, told[i] = "nothing"
               PROVE  /\ [id |-> i, opp |-> redemption[i].opp] \in memory'.pending
                      /\ [id |-> i, opp |-> redemption[i].opp] \in disk.pending
    BY <1>1 DEF ChargesAreKnown
  <2>1. i \in TicketsOf(redemption[i].opp) /\ redemption[i] \in Receipts
    BY DEF TicketsOf, Charged, ServerInv, NoReceipt
  <2>2. opportunity[redemption[i].opp].by = "TICKET"
    BY <2>1 DEF ServerInv, ResolvedOnce, Receipts
  <2>3. redemption[i].opp # k
    BY <1>1, <2>2 DEF Settled
  <2> QED BY <1>2, <2>3 DEF KeptInv, ChargesAreKnown
<1>5. ASSUME NEW m \in Opportunities PROVE FlightKept(m)'
  <2> SUFFICES ASSUME flight[m].phase # "idle" PROVE FlightKept(m)'
    BY <1>1 DEF FlightKept
  <2> DEFINE r == [id |-> flight[m].id, opp |-> m]
  <2>1. FlightKept(m) /\ r.opp = m
    BY DEF KeptInv
  <2>2. Awaited(r)' = Awaited(r) /\ (Awaited(r) => m # k)
    BY <1>1, <2>1 DEF Awaited, Settled
  <2> QED BY <1>1, <1>2, <2>1, <2>2 DEF FlightKept
<1>6. \A r \in Requests : LateKept(r)'
  BY <1>1, <1>2 DEF KeptInv, LateKept, Awaited, Settled
<1> QED BY <1>3, <1>4, <1>5, <1>6 DEF KeptInv

\* The first attempt goes out once its request is stored.
LEMMA SendKeeps == ASSUME Inv, KeptInv, NEW k \in Opportunities, Send(k) PROVE KeptInv'
<1> USE DEF Inv
<1>1. /\ UNCHANGED <<redemption, opportunity, memory, disk, late, told>> /\ Charged' = Charged
      /\ flight[k].phase = "ready" /\ (flight[k].tries = 0 => disk = memory)
      /\ flight' = [flight EXCEPT ![k].phase = "sent", ![k].tries = @ + 1]
  BY DEF Send, MaySend, serverVars, Charged
<1>2. flight'[k].id = flight[k].id /\ \A m \in Opportunities : m # k => flight'[m] = flight[m]
  <2>1. flight[k] \in Flights /\ flight'[k] = [flight[k] EXCEPT !.phase = "sent", !.tries = @ + 1]
    BY <1>1 DEF ClientType
  <2> QED BY <1>1, <2>1 DEF ClientType, Flights
<1>3. OnePending' /\ ChargesAreKnown'
  <2>1. \A r \in memory.pending : r.opp \in Opportunities
    BY RequestFields DEF ClientType, ClientStates
  <2>2. \A r \in memory.pending : flight'[r.opp].phase # "idle" => flight'[r.opp].id = r.id
    BY <1>1, <1>2, <2>1 DEF KeptInv, OnePending
  <2> QED BY <1>1, <2>2 DEF KeptInv, OnePending, ChargesAreKnown
<1>4. ASSUME NEW m \in Opportunities PROVE FlightKept(m)'
  <2>1. CASE m = k
    <3>1. FlightKept(k) /\ flight[k].tries \in Nat
      BY DEF KeptInv, ClientType, Flights
    <3>2. [id |-> flight'[k].id, opp |-> k] = [id |-> flight[k].id, opp |-> k]
      BY <1>2
    <3>3. flight[k].tries > 0 \/ disk = memory
      BY <1>1, <3>1
    <3> QED BY <1>1, <2>1, <3>1, <3>2, <3>3 DEF FlightKept, Awaited, Settled
  <2>2. CASE m # k
    BY <1>1, <1>2, <2>2 DEF KeptInv, FlightKept, Awaited, Settled
  <2> QED BY <2>1, <2>2
<1>5. \A r \in Requests : LateKept(r)'
  BY <1>1 DEF KeptInv, LateKept, Awaited, Settled
<1> QED BY <1>3, <1>4, <1>5 DEF KeptInv

\* What is sent and awaited is pending, in memory and on disk.
LEMMA SentIsPending ==
  ASSUME Inv, KeptInv, NEW k \in Opportunities, flight[k].phase = "sent"
  PROVE  LET r == [id |-> flight[k].id, opp |-> k] IN
         r \in Requests /\ (Awaited(r) => r \in memory.pending /\ r \in disk.pending)
<1>1. flight[k].tries > 0 /\ flight[k].id \in RequestIds /\ FlightKept(k)
  BY DEF Inv, ClientType, FlightOK, KeptInv
<1> QED BY <1>1, RequestFields DEF FlightKept

\* A request that timed out is late and still pending.
LEMMA TimeOutKeeps == ASSUME Inv, KeptInv, NEW k \in Opportunities, TimeOut(k) PROVE KeptInv'
<1> USE DEF Inv
<1> DEFINE r == [id |-> flight[k].id, opp |-> k]
<1>1. /\ UNCHANGED <<redemption, opportunity, memory, disk, told>> /\ Charged' = Charged
      /\ flight[k].phase = "sent" /\ late' = late \cup {r}
      /\ flight' = [flight EXCEPT ![k] =
           IF flight[k].tries < MaxAttempts THEN [flight[k] EXCEPT !.phase = "ready"] ELSE Idle]
  BY DEF TimeOut, serverVars, Charged
<1>2. r \in Requests /\ (Awaited(r) => r \in memory.pending /\ r \in disk.pending)
  BY <1>1, SentIsPending
<1>3. /\ flight'[k].phase # "idle" => flight'[k].id = flight[k].id
      /\ \A m \in Opportunities : m # k => flight'[m] = flight[m]
  <2>1. flight[k] \in Flights /\ flight'[k] = IF flight[k].tries < MaxAttempts THEN [flight[k] EXCEPT !.phase = "ready"] ELSE Idle
    BY <1>1 DEF ClientType
  <2> QED BY <1>1, <2>1 DEF ClientType, Flights, Idle
<1>4. OnePending' /\ ChargesAreKnown'
  <2>1. \A q \in memory.pending : q.opp \in Opportunities
    BY RequestFields DEF ClientType, ClientStates
  <2>2. \A q \in memory.pending : flight'[q.opp].phase # "idle" => flight'[q.opp].id = q.id
    BY <1>1, <1>3, <2>1 DEF KeptInv, OnePending
  <2> QED BY <1>1, <2>2 DEF KeptInv, OnePending, ChargesAreKnown
<1>5. ASSUME NEW m \in Opportunities PROVE FlightKept(m)'
  <2>1. CASE m = k
    <3>1. flight'[k].phase # "idle" => [id |-> flight'[k].id, opp |-> k] = r
      BY <1>3
    <3>2. \A q \in Requests : Awaited(q)' = Awaited(q)
      BY <1>1 DEF Awaited, Settled
    <3>3. \A q \in Requests : flight'[k].phase # "idle" /\ q.id = flight'[k].id /\ q.opp = k => q = r
      BY <3>1, RequestFields
    <3> HIDE DEF r
    <3>4. ClientType'
      BY TimeOutStep
    <3> QED BY <1>1, <1>2, <2>1, <3>2, <3>3, <3>4, FlightRule
  <2>2. CASE m # k
    BY <1>1, <1>3, <2>2 DEF KeptInv, FlightKept, Awaited, Settled
  <2> QED BY <2>1, <2>2
<1>6. ASSUME NEW q \in Requests PROVE LateKept(q)'
  <2>1. Awaited(q)' = Awaited(q)
    BY <1>1 DEF Awaited, Settled
  <2> HIDE DEF r
  <2> QED BY <1>1, <1>2, <2>1 DEF KeptInv, LateKept
<1> QED BY <1>4, <1>5, <1>6 DEF KeptInv

\* A killed app loads what it stored, and that has every sent request that may
\* have been charged.
LEMMA RestartKeeps == ASSUME Inv, KeptInv, Restart PROVE KeptInv'
<1> USE DEF Inv
<1>1. /\ UNCHANGED <<redemption, opportunity, disk, told>> /\ Charged' = Charged /\ memory' = disk
      /\ flight' = [k \in Opportunities |-> Idle]
      /\ late' = late \cup {[id |-> flight[k].id, opp |-> k] : k \in {j \in Opportunities : flight[j].phase = "sent"}}
  BY DEF Restart, serverVars, Charged
<1>2. \A k \in Opportunities : flight'[k].phase = "idle"
  BY <1>1 DEF Idle
<1>3. OnePending' /\ ChargesAreKnown'
  <2>1. \A r \in disk.pending : r.opp \in Opportunities
    BY RequestFields DEF ClientType, ClientStates
  <2> QED BY <1>1, <1>2, <2>1 DEF KeptInv, OnePending, ChargesAreKnown
<1>4. \A k \in Opportunities : FlightKept(k)'
  BY <1>2 DEF FlightKept
<1>5. ASSUME NEW r \in Requests PROVE LateKept(r)'
  <2>1. Awaited(r)' = Awaited(r)
    BY <1>1 DEF Awaited, Settled
  <2>2. CASE r \in late
    BY <1>1, <2>1, <2>2 DEF KeptInv, LateKept
  <2>3. CASE r \notin late
    <3> SUFFICES ASSUME r \in late' PROVE LateKept(r)'
      BY DEF LateKept
    <3>1. PICK k \in Opportunities : flight[k].phase = "sent" /\ r = [id |-> flight[k].id, opp |-> k]
      BY <1>1, <2>3
    <3> QED BY <1>1, <2>1, <3>1, SentIsPending DEF LateKept
  <2> QED BY <2>2, <2>3
<1> QED BY <1>3, <1>4, <1>5 DEF KeptInv

\* A ticket charged unheard is one of a sent request, which is pending.
LEMMA UnheardKeeps ==
  ASSUME Inv, KeptInv, NEW r \in Requests, NEW allowed \in BOOLEAN, HandleUnheard(r, allowed)
  PROVE  KeptInv'
<1> USE DEF Inv
<1>1. Redeem(r, allowed) /\ UNCHANGED <<memory, disk, flight, late, told>>
  BY DEF HandleUnheard, clientVars
<1>2. Awaited(r) => r \in memory.pending /\ r \in disk.pending
  <2>1. CASE r \in late
    BY <2>1 DEF KeptInv, LateKept
  <2>2. CASE flight[r.opp].id = r.id /\ flight[r.opp].phase = "sent"
    <3>1. r.opp \in Opportunities /\ r = [id |-> flight[r.opp].id, opp |-> r.opp]
      BY <2>2, RequestFields
    <3> QED BY <2>2, <3>1, SentIsPending
  <2> QED BY <2>1, <2>2 DEF HandleUnheard
<1>3. ServerInv' /\ ServerGrows(r)
  BY <1>1, RedeemServer
<1>4. OnePending'
  BY <1>1 DEF KeptInv, OnePending
<1>5. ChargesAreKnown'
  <2> SUFFICES ASSUME NEW i \in Charged', told[i] = "nothing"
               PROVE  /\ [id |-> i, opp |-> redemption'[i].opp] \in memory.pending
                      /\ [id |-> i, opp |-> redemption'[i].opp] \in disk.pending
    BY <1>1 DEF ChargesAreKnown
  <2>1. CASE i \in Charged /\ redemption'[i] = redemption[i]
    BY <2>1 DEF KeptInv, ChargesAreKnown
  <2>2. CASE i = r.id /\ redemption'[i].opp = r.opp /\ ~Settled(r.opp)
    <3>1. [id |-> i, opp |-> redemption'[i].opp] = r
      BY <2>2, RequestFields
    <3> QED BY <1>2, <2>2, <3>1 DEF Awaited
  <2> QED BY <1>3, <2>1, <2>2, NewCharges
<1>6. ASSUME NEW q \in Requests PROVE Awaited(q)' => Awaited(q)
  BY <1>1, <1>3, AwaitedBefore DEF ServerGrows
<1>7. ASSUME NEW k \in Opportunities PROVE FlightKept(k)'
  <2>1. ASSUME NEW q \in Requests, Awaited(q)', flight[k].phase # "idle", q.id = flight[k].id, q.opp = k
        PROVE  q \in memory.pending /\ (flight[k].tries > 0 => q \in disk.pending)
    <3>1. Awaited(q) /\ q = [id |-> flight[k].id, opp |-> k]
      BY <1>6, <2>1, RequestFields
    <3> QED BY <2>1, <3>1 DEF KeptInv, FlightKept
  <2>2. ClientType'
    BY UnheardStep
  <2> QED BY <1>1, <2>1, <2>2, FlightRule
<1>8. \A q \in Requests : LateKept(q)'
  BY <1>1, <1>6 DEF KeptInv, LateKept
<1> QED BY <1>4, <1>5, <1>7, <1>8 DEF KeptInv

\* An answer clears only its own request, and tells what became of it.
LEMMA AnswerKeeps ==
  ASSUME Inv, KeptInv, NEW k \in Opportunities, NEW allowed \in BOOLEAN, Answer(k, allowed)
  PROVE  KeptInv'
<1> USE DEF Inv
<1> DEFINE r == [id |-> flight[k].id, opp |-> k]
<1>1. /\ flight[k].phase = "sent" /\ Redeem(r, allowed)
      /\ flight' = [flight EXCEPT ![k] = Idle] /\ memory' = Without(memory, k)
      /\ UNCHANGED <<disk, late>>
  BY DEF Answer
<1>2. r \in Requests /\ r.opp = k /\ r.id = flight[k].id /\ r.id \in RequestIds
  BY <1>1, SentIsPending, RequestFields
<1>3. told' = [told EXCEPT ![r.id] = "receipt"] \/ told' = [told EXCEPT ![r.id] = "rejected"]
  BY DEF Answer
<1> HIDE DEF r
<1>4. told'[r.id] # "nothing" /\ \A i \in RequestIds : i # r.id => told'[i] = told[i]
  BY <1>2, <1>3 DEF ClientType
<1>5. ServerInv' /\ ServerGrows(r)
  BY <1>1, <1>2, RedeemServer
<1>6. memory'.pending = {q \in memory.pending : q.opp # k}
  BY <1>1, PendingLeft DEF ClientType
<1>7. \A q \in memory.pending : q.opp = k => q.id = r.id
  BY <1>1, <1>2 DEF KeptInv, OnePending
<1>8. \A m \in Opportunities : flight'[m] = IF m = k THEN Idle ELSE flight[m]
  BY <1>1 DEF ClientType
<1>9. OnePending'
  <2>1. \A q \in memory.pending : q.opp \in Opportunities
    BY RequestFields DEF ClientType, ClientStates
  <2> QED BY <1>1, <1>6, <1>8, <2>1 DEF KeptInv, OnePending
<1>10. ChargesAreKnown'
  <2> SUFFICES ASSUME NEW i \in Charged', told'[i] = "nothing"
               PROVE  /\ [id |-> i, opp |-> redemption'[i].opp] \in memory'.pending
                      /\ [id |-> i, opp |-> redemption'[i].opp] \in disk.pending
    BY <1>1 DEF ChargesAreKnown
  <2> DEFINE q == [id |-> i, opp |-> redemption'[i].opp]
  <2>1. i # r.id /\ i \in RequestIds /\ told[i] = "nothing" /\ q.id = i
    BY <1>4 DEF Charged
  <2>2. i \in Charged /\ redemption'[i] = redemption[i]
    BY <1>2, <1>5, <2>1, NewCharges
  <2>3. q \in memory.pending /\ q \in disk.pending
    BY <2>1, <2>2 DEF KeptInv, ChargesAreKnown
  <2> HIDE DEF q
  <2>4. q.opp # k
    BY <1>7, <2>1, <2>3
  <2> QED BY <1>6, <2>3, <2>4 DEF q
<1>11. ASSUME NEW q \in Requests PROVE Awaited(q)' => Awaited(q) /\ q.id # r.id
  <2>1. q.id \in RequestIds
    BY RequestFields
  <2>2. told'[q.id] = "nothing" => told[q.id] = "nothing"
    BY <1>4, <2>1
  <2>3. Awaited(q)' => Awaited(q)
    BY <1>5, <2>2, AwaitedBefore DEF ServerGrows
  <2> QED BY <1>4, <2>3 DEF Awaited
<1>12. ASSUME NEW m \in Opportunities PROVE FlightKept(m)'
  <2>1. ASSUME NEW q \in Requests, Awaited(q)', flight'[m].phase # "idle", q.id = flight'[m].id, q.opp = m
        PROVE  q \in memory'.pending /\ (flight'[m].tries > 0 => q \in disk'.pending)
    <3>1. m # k /\ flight'[m] = flight[m]
      BY <1>8, <2>1 DEF Idle
    <3>2. Awaited(q) /\ q = [id |-> flight[m].id, opp |-> m]
      BY <1>11, <2>1, <3>1, RequestFields
    <3> QED BY <1>1, <1>6, <2>1, <3>1, <3>2 DEF KeptInv, FlightKept
  <2>2. ClientType'
    BY AnswerStep
  <2> QED BY <2>1, <2>2, FlightRule
<1>13. ASSUME NEW q \in Requests PROVE LateKept(q)'
  <2> SUFFICES ASSUME q \in late, Awaited(q)' PROVE q \in memory'.pending /\ q \in disk.pending
    BY <1>1 DEF LateKept
  <2>1. Awaited(q) /\ q.id # r.id
    BY <1>11
  <2>2. q \in memory.pending /\ q \in disk.pending
    BY <2>1 DEF KeptInv, LateKept
  <2> QED BY <1>6, <1>7, <2>1, <2>2
<1> QED BY <1>9, <1>10, <1>12, <1>13 DEF KeptInv

-----------------------------------------------------------------------------
\* The wallet, the requests and the effects of every reachable state are in
\* step (redeem_ad_skip_ticket_tx, createAdSkipRedemptionController).
THEOREM Invariance == AdSkipSpec => []Inv
<1>1. Inv /\ UNCHANGED adSkipVars => Inv'
  <2> SUFFICES ASSUME Inv, UNCHANGED adSkipVars PROVE Inv'
    OBVIOUS
  <2> USE DEF Inv
  <2>1. UNCHANGED <<serverVars, appVars>> /\ UNCHANGED clientVars
    BY DEF adSkipVars
  <2>2. ServerInv' /\ ClientType' /\ UNCHANGED <<redemption, opportunity>>
    BY <2>1, SameServer, SameClient DEF serverVars
  <2>3. AskedInv'
    BY <2>1, <2>2, AskedAfter, AskedHolds, AskedShrinks DEF clientVars
  <2>4. EffectInv'
    BY <2>1, <2>2, SameEffects DEF clientVars
  <2> QED BY <2>2, <2>3, <2>4
<1>2. Inv /\ [AdSkipNext]_adSkipVars => Inv'
  BY <1>1, PromptStep, FlushStep, RestartStep, GrantStep, ChooseStep, SendStep, TimeOutStep, DiscardStep,
     ClaimStep, AnswerStep, UnheardStep, MarkStep, RunStep DEF AdSkipNext
<1> QED BY <1>2, InitInv, PTL DEF AdSkipSpec

\* The wallet is what was granted, once per period, less the tickets charged,
\* and nothing resolves an opportunity or charges it twice.
THEOREM TicketsStayAddedUp == AdSkipSpec => []TicketsAddUp
<1>1. Inv => TicketsAddUp
  BY DEF Inv, ServerInv, ClientType, TicketsAddUp, AdSkipTypeOK
<1> QED BY <1>1, Invariance, PTL

\* The resolution of an opportunity has its effect on the device at most once,
\* over replays, other requests for it and kills.
THEOREM EffectsStayOnce == AdSkipSpec => []EffectsRunOnce
<1>1. Inv => EffectsRunOnce
  <2> SUFFICES ASSUME Inv, NEW k \in Opportunities
               PROVE  LET keys == {e \in EffectKeys : e[2] = k /\ effects[e] > 0 /\ ~(e[1] = "FREE" /\ e[3] # 0)}
                      IN Cardinality(keys) <= 1 /\ \A e \in keys : effects[e] = 1 /\ opportunity[k] = [by |-> e[1], id |-> e[3]]
    BY DEF EffectsRunOnce
  <2> DEFINE keys == {e \in EffectKeys : e[2] = k /\ effects[e] > 0 /\ ~(e[1] = "FREE" /\ e[3] # 0)}
             key == <<opportunity[k].by, k, opportunity[k].id>>
  <2>1. ASSUME NEW e \in keys PROVE effects[e] = 1 /\ opportunity[k] = [by |-> e[1], id |-> e[3]]
    BY DEF Inv, EffectInv, EffectOK, KeyIsTrue
  <2>2. ASSUME NEW e \in keys PROVE e = key
    <3>1. e = <<e[1], e[2], e[3]>> /\ e[2] = k
      BY DEF EffectKeys
    <3>2. opportunity[k] = [by |-> e[1], id |-> e[3]]
      BY <2>1, Zenon
    <3>3. opportunity[k].by = e[1] /\ opportunity[k].id = e[3]
      BY <3>2
    <3> QED BY <3>1, <3>3
  <2>3. Cardinality({}) = 0 /\ Cardinality({key}) = 1
    BY FS_EmptySet, FS_Singleton, Zenon
  <2>4. keys = {} \/ keys = {key}
    <3> HIDE DEF keys, key
    <3> QED BY <2>2
  <2> HIDE DEF keys
  <2>5. Cardinality(keys) <= 1
    BY <2>3, <2>4
  <2> QED BY <2>1, <2>5 DEF keys
<1> QED BY <1>1, Invariance, PTL

\* A ticket that was charged while the client heard nothing of it is pending,
\* in memory and on disk, through kills, timeouts and late copies: as long as
\* no new request finds the bounded pending list full (ad-skip.ts cuts it to its
\* newest entries, and what is cut is forgotten).
THEOREM ChargesStayKnown == AdSkipSpec /\ []RoomLeft => []ChargesAreKnown
<1>1. AdSkipInit => KeptInv
  BY DEF AdSkipInit, KeptInv, OnePending, ChargesAreKnown, FlightKept, LateKept, Charged, NoReceipt, Idle
<1>2. Inv /\ KeptInv /\ RoomLeft /\ [AdSkipNext]_adSkipVars => KeptInv'
  BY AsideKeeps, ChooseKeeps, FlushKeeps, DiscardKeeps, SendKeeps, TimeOutKeeps, RestartKeeps, UnheardKeeps,
     AnswerKeeps DEF AdSkipNext
<1>3. KeptInv => ChargesAreKnown
  BY DEF KeptInv
<1> QED BY <1>1, <1>2, <1>3, Invariance, PTL DEF AdSkipSpec

\* With room for every opportunity the list is never full when another one asks:
\* a pending request belongs to an opportunity of its own.
LEMMA RoomForAll ==
  ASSUME IsFiniteSet(Opportunities), Cardinality(Opportunities) <= MaxPending, ClientType, KeptInv
  PROVE  RoomLeft
<1> SUFFICES ASSUME NEW k \in Opportunities, PendingOf(memory, k) = {}
             PROVE  Cardinality(memory.pending) < MaxPending
  BY DEF RoomLeft
<1> DEFINE f == [r \in memory.pending |-> r.opp]
           others == Opportunities \ {k}
<1>1. f \in Injection(memory.pending, others)
  BY RequestFields DEF ClientType, ClientStates, KeptInv, OnePending, PendingOf, Injection, IsInjective
<1>2. IsFiniteSet(others) /\ Cardinality(others) = Cardinality(Opportunities) - 1
  BY FS_RemoveElement, Zenon
<1>3. Cardinality(memory.pending) <= Cardinality(others)
  <2> HIDE DEF f, others
  <2> QED BY <1>1, <1>2, FS_Injection, Zenon
<1>4. Cardinality(memory.pending) \in Nat /\ Cardinality(Opportunities) \in Nat
  BY FS_CardinalityType DEF ClientType
<1> HIDE DEF others
<1> QED BY <1>2, <1>3, <1>4, AdSkipAssumption

\* Where the pending list has room for every opportunity, no charge is forgotten.
THEOREM ChargesStayKnownWithRoom ==
  ASSUME IsFiniteSet(Opportunities), Cardinality(Opportunities) <= MaxPending
  PROVE  AdSkipSpec => []ChargesAreKnown
<1>1. AdSkipInit => KeptInv
  BY DEF AdSkipInit, KeptInv, OnePending, ChargesAreKnown, FlightKept, LateKept, Charged, NoReceipt, Idle
<1>2. Inv /\ KeptInv /\ [AdSkipNext]_adSkipVars => KeptInv'
  BY AsideKeeps, ChooseKeeps, FlushKeeps, DiscardKeeps, SendKeeps, TimeOutKeeps, RestartKeeps, UnheardKeeps,
     AnswerKeeps, RoomForAll DEF AdSkipNext, Inv
<1>3. KeptInv => ChargesAreKnown
  BY DEF KeptInv
<1> QED BY <1>1, <1>2, <1>3, Invariance, PTL DEF AdSkipSpec
=============================================================================
