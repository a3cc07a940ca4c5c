-------------------------- MODULE SceneFeed_proof ---------------------------
(***************************************************************************)
(* Theorems about SceneFeed, for any number of connections and any size of *)
(* the window, the outbox and the broadcast channel.                       *)
(***************************************************************************)
EXTENDS SceneFeed, TLAPS

-----------------------------------------------------------------------------
(* Order.  The events of one session are numbered in the order in which they *)
(* are made, and every queue on their way keeps that order.                   *)

Before(A, B) == \A a \in A, b \in B : a.session = b.session => a.revision < b.revision

Increasing(q) ==
  \A i, j \in DOMAIN q :
    i < j /\ q[i].session = q[j].session => q[i].revision < q[j].revision

LEMMA EventTypes ==
  /\ \A e \in Event : /\ e.session \in Sessions /\ e.revision \in 1 .. MaxRevision
                      /\ e.revision \in Nat
  /\ \A s \in Sessions, r \in 1 .. MaxRevision : [session |-> s, revision |-> r] \in Event
BY FeedAssumption DEF Event

LEMMA QueueTypes ==
  ASSUME NEW S
  PROVE  /\ <<>> \in Seq(S)
         /\ \A q \in Seq(S), e \in S : Append(q, e) \in Seq(S)
         /\ \A q \in Seq(S) : q # <<>> => Head(q) \in S /\ Tail(q) \in Seq(S)
OBVIOUS

LEMMA EmptyItems == Items(<<>>) = {} /\ Increasing(<<>>)
BY DEF Items, Increasing

LEMMA AppendAt ==
  ASSUME NEW S, NEW q \in Seq(S), NEW e \in S
  PROVE  /\ Len(q) \in Nat /\ DOMAIN q = 1 .. Len(q)
         /\ DOMAIN Append(q, e) = 1 .. Len(q) + 1
         /\ \A i \in 1 .. Len(q) : Append(q, e)[i] = q[i]
         /\ Append(q, e)[Len(q) + 1] = e
         /\ \A i \in 1 .. Len(q) + 1 : i \in 1 .. Len(q) \/ i = Len(q) + 1
         /\ \A i \in 1 .. Len(q) : i \in 1 .. Len(q) + 1
         /\ Len(q) + 1 \in 1 .. Len(q) + 1
<1>1. /\ Len(q) \in Nat /\ DOMAIN q = 1 .. Len(q)
      /\ DOMAIN Append(q, e) = 1 .. Len(q) + 1
      /\ \A i \in 1 .. Len(q) : Append(q, e)[i] = q[i]
      /\ Append(q, e)[Len(q) + 1] = e
  OBVIOUS
<1>2. /\ \A i \in 1 .. Len(q) + 1 : i \in 1 .. Len(q) \/ i = Len(q) + 1
      /\ \A i \in 1 .. Len(q) : i \in 1 .. Len(q) + 1
      /\ Len(q) + 1 \in 1 .. Len(q) + 1
  BY <1>1
<1> QED BY <1>1, <1>2

LEMMA AppendItems ==
  ASSUME NEW S, NEW q \in Seq(S), NEW e \in S
  PROVE  Items(Append(q, e)) = Items(q) \cup {e}
<1>1. /\ DOMAIN q = 1 .. Len(q) /\ DOMAIN Append(q, e) = 1 .. Len(q) + 1
      /\ \A i \in 1 .. Len(q) : Append(q, e)[i] = q[i]
      /\ Append(q, e)[Len(q) + 1] = e
      /\ \A i \in 1 .. Len(q) + 1 : i \in 1 .. Len(q) \/ i = Len(q) + 1
      /\ \A i \in 1 .. Len(q) : i \in 1 .. Len(q) + 1
      /\ Len(q) + 1 \in 1 .. Len(q) + 1
  BY AppendAt
<1> QED BY <1>1, Zenon DEF Items

LEMMA AppendIncreasing ==
  ASSUME NEW S, NEW q \in Seq(S), NEW e \in S, Increasing(q), Before(Items(q), {e})
  PROVE  Increasing(Append(q, e))
<1>1. ASSUME NEW i \in 1 .. Len(q) + 1, NEW j \in 1 .. Len(q) + 1, i < j,
             Append(q, e)[i].session = Append(q, e)[j].session
      PROVE  Append(q, e)[i].revision < Append(q, e)[j].revision
  <2>1. i \in 1 .. Len(q) /\ q[i] \in Items(q)
    BY <1>1, AppendAt DEF Items
  <2>2. CASE j \in 1 .. Len(q)
    BY <1>1, <2>1, <2>2, AppendAt DEF Increasing
  <2>3. CASE j = Len(q) + 1
    BY <1>1, <2>1, <2>3, AppendAt DEF Before
  <2> QED BY <2>2, <2>3, AppendAt
<1> QED BY <1>1, AppendAt DEF Increasing

LEMMA TailItems ==
  ASSUME NEW S, NEW q \in Seq(S), q # <<>>
  PROVE  /\ Head(q) \in Items(q)
         /\ Items(q) = {Head(q)} \cup Items(Tail(q))
         /\ Increasing(q) => Increasing(Tail(q)) /\ Before({Head(q)}, Items(Tail(q)))
<1>1. /\ Len(q) \in Nat \ {0} /\ Head(q) = q[1]
      /\ DOMAIN q = 1 .. Len(q) /\ DOMAIN Tail(q) = 1 .. Len(q) - 1
      /\ \A i \in 1 .. Len(q) - 1 : Tail(q)[i] = q[i + 1]
  OBVIOUS
<1>2. /\ \A i \in 1 .. Len(q) : i = 1 \/ (i - 1 \in 1 .. Len(q) - 1 /\ q[i] = Tail(q)[i - 1])
      /\ 1 \in 1 .. Len(q) /\ \A i \in 1 .. Len(q) - 1 : i + 1 \in 1 .. Len(q) /\ 1 < i + 1
  BY <1>1
<1>3. Items(q) = {Head(q)} \cup Items(Tail(q))
  <2>1. ASSUME NEW x \in Items(q) PROVE x = Head(q) \/ x \in Items(Tail(q))
    <3>1. PICK i \in 1 .. Len(q) : x = q[i]
      BY <1>1 DEF Items
    <3>2. CASE i = 1
      BY <1>1, <3>1, <3>2
    <3>3. CASE i - 1 \in 1 .. Len(q) - 1 /\ q[i] = Tail(q)[i - 1]
      BY <1>1, <3>1, <3>3 DEF Items
    <3> QED BY <1>2, <3>2, <3>3
  <2>2. Head(q) \in Items(q) /\ Items(Tail(q)) \subseteq Items(q)
    BY <1>1, <1>2 DEF Items
  <2> QED BY <2>1, <2>2
<1>4. Increasing(q) => Increasing(Tail(q))
  BY <1>1, <1>2 DEF Increasing
<1>5. Increasing(q) => Before({Head(q)}, Items(Tail(q)))
  BY <1>1, <1>2 DEF Increasing, Before, Items
<1> QED BY <1>3, <1>4, <1>5

LEMMA ItemTypes == ASSUME NEW S, NEW q \in Seq(S) PROVE Items(q) \subseteq S
BY DEF Items

-----------------------------------------------------------------------------
(* Type correctness *)

LEMMA PushAtType ==
  ASSUME NEW h \in History, NEW e \in Event
  PROVE  PushAt(h, e) \in History
<1>1. Append(h.entries, e) \in Seq(Event) /\ Append(h.entries, e) # <<>>
  BY DEF History
<1>2. Head(Append(h.entries, e)) \in Event /\ Tail(Append(h.entries, e)) \in Seq(Event)
  BY <1>1, QueueTypes
<1> QED BY <1>1, <1>2, EventTypes, FeedAssumption DEF PushAt, History

LEMMA TypeInit == Init => TypeOK
BY FeedAssumption DEF Init, TypeOK, NewHistory, History

LEMMA TypeNext == TypeOK /\ [Next]_vars => TypeOK'
<1> SUFFICES ASSUME TypeOK, [Next]_vars PROVE TypeOK'
  OBVIOUS
<1> USE FeedAssumption DEF TypeOK, addonVars, serverVars, pumpVars
<1>1. CASE Disconnect    BY <1>1 DEF Disconnect
<1>2. CASE Stop          BY <1>2 DEF Stop
<1>3. CASE Change        BY <1>3, QueueTypes, EventTypes DEF Change
<1>4. CASE ChangeUnseen  BY <1>4 DEF ChangeUnseen
<1>5. CASE WriterSends   BY <1>5, QueueTypes DEF WriterSends
<1>6. CASE WriterLoses   BY <1>6, QueueTypes DEF WriterLoses
<1>7. ASSUME NEW s \in Sessions, Dial(s) PROVE TypeOK'
  BY <1>7 DEF Dial
<1>8. ASSUME NEW s \in Sessions, Publish(s) PROVE TypeOK'
  <2>1. Head(wire[s]) \in Event /\ wire' \in [Sessions -> Seq(Event)]
    BY <1>8, QueueTypes DEF Publish
  <2>2. bus # <<>> => Head(bus) \in Event /\ Tail(bus) \in Seq(Event)
    BY QueueTypes
  <2>3. Len(bus) \in Nat /\ (bus = <<>> => Len(bus) < EventBuffer)
    OBVIOUS
  <2>4. CASE Send(Head(wire[s]))
    <3>1. (IF Len(bus) < EventBuffer THEN bus ELSE Tail(bus)) \in Seq(Event)
      BY <2>2, <2>3
    <3>2. bus' \in Seq(Event)
      BY <3>1, <2>1, <2>4, QueueTypes DEF Send
    <3>3. missed' \subseteq Event /\ published' \subseteq Event
      BY <2>1, <2>2, <2>3, <2>4 DEF Send
    <3> QED BY <1>8, <2>1, <3>2, <3>3 DEF Publish
  <2>5. CASE UNCHANGED <<bus, missed, published>>
    BY <1>8, <2>1, <2>5 DEF Publish
  <2> QED BY <1>8, <2>4, <2>5 DEF Publish
<1>9. ASSUME NEW s \in Sessions, ReadEnds(s) PROVE TypeOK'
  BY <1>9 DEF ReadEnds
<1>10. CASE Lagged
  BY <1>10 DEF Lagged, Reset, History
<1>11. CASE BeginSession
  <2>1. Head(bus).session \in Sessions /\ Head(bus).revision \in 1 .. MaxRevision
    BY <1>11, QueueTypes, EventTypes DEF BeginSession
  <2> QED BY <1>11, <2>1 DEF BeginSession, Reset, Observe, History
<1>12. CASE Apply
  <2>1. Head(bus) \in Event /\ Tail(bus) \in Seq(Event)
    BY <1>12, QueueTypes DEF Apply
  <2>2. cache' = cache \/ cache' = [cache EXCEPT !.history = PushAt(@, Head(bus))]
    BY <1>12 DEF Apply
  <2>3. cache' \in [session : Sessions \cup {None}, history : History]
    BY <2>1, <2>2, PushAtType
  <2> QED BY <1>12, <2>1, <2>3 DEF Apply
<1>13. CASE UNCHANGED vars
  BY <1>13 DEF vars
<1> QED BY <1>1, <1>2, <1>3, <1>4, <1>5, <1>6, <1>7, <1>8, <1>9, <1>10, <1>11, <1>12, <1>13
        DEF Next

(* Every variable of the feed keeps its type, and no number passes its bound. *)
THEOREM FeedTypeCorrect == Spec => []TypeOK
BY TypeInit, TypeNext, PTL DEF Spec

-----------------------------------------------------------------------------
(* The inductive invariant: what the add-on has numbered, in what order it is *)
(* on its way, and what the record holds of it.                               *)

(* An event carries the session of a connection that was made, and no event of the
   present one is ahead of the add-on's counter. *)
Owned(e) == e.session \in opened /\ (e.session = link => e.revision <= revision)

AllOwned ==
  /\ link \in opened \cup {None}
  /\ \A e \in Items(outbox) : Owned(e)
  /\ \A e \in published : Owned(e)
  /\ \A s \in Sessions : \A e \in Items(wire[s]) : Owned(e)

(* Events pass the stages outbox, connection and channel in order.  A connection may
   carry events of earlier sessions; its read loop drops those. *)
Upstream ==
  /\ Increasing(outbox)
  /\ Before(published, Items(outbox))
  /\ \A s \in Sessions :
       /\ Increasing(wire[s])
       /\ Before(Items(wire[s]), Items(outbox))
       /\ \A p \in published, e \in Items(wire[s]) :
            p.session = s /\ e.session = s => p.revision < e.revision

Downstream ==
  /\ Increasing(bus)
  /\ Waiting \subseteq published /\ missed \subseteq published
  /\ Before(missed, Waiting)
  /\ Before(Received, Waiting \cup missed)

(* The record holds events received in its session, and one it does not hold is no
   later than the horizon and earlier than all it holds. *)
Recorded(session, h, received) ==
  /\ session = None => h.entries = <<>>
  /\ Increasing(h.entries)
  /\ \A e \in Items(h.entries) : e \in received /\ e.session = session
  /\ \A e \in received : e.session = session =>
       /\ e.revision <= h.current
       /\ \/ e \in Items(h.entries)
          \/ /\ e.revision <= h.horizon
             /\ \A f \in Items(h.entries) : e.revision < f.revision

FeedInv ==
  /\ TypeOK
  /\ AllOwned
  /\ Upstream
  /\ Downstream
  /\ cache.session = tracking
  /\ Recorded(cache.session, cache.history, Received)

LEMMA RecordedPush ==
  ASSUME NEW h \in History, NEW received \in SUBSET Event, NEW e \in Event,
         Recorded(e.session, h, received), Before(received, {e})
  PROVE  Recorded(e.session, PushAt(h, e), received \cup {e})
<1> DEFINE all == Append(h.entries, e)
           h2  == PushAt(h, e)
<1>1. h.entries \in Seq(Event) /\ h.current \in Nat /\ h.horizon \in Nat /\ e.revision \in Nat
  BY EventTypes, FeedAssumption DEF History
<1>2. /\ Items(all) = Items(h.entries) \cup {e} /\ all \in Seq(Event) /\ all # <<>>
      /\ \A x \in received \cup {e} : x \in Event /\ x.revision \in Nat
  <2>1. Items(all) = Items(h.entries) \cup {e}
    BY <1>1, AppendItems
  <2>2. all \in Seq(Event) /\ all # <<>>
    BY <1>1
  <2> QED BY <2>1, <2>2, EventTypes
<1>3. \A x \in received : x.session = e.session => x.revision < e.revision
  BY DEF Before
<1>4. Increasing(all)
  BY <1>1, <1>3, AppendIncreasing DEF Recorded, Before
<1>5. \A x \in Items(all) : x \in received \cup {e} /\ x.session = e.session
  BY <1>2 DEF Recorded
<1>6. h2.current \in Nat /\ h2.current >= h.current /\ h2.current >= e.revision
  BY <1>1 DEF PushAt
<1>7. \A x \in received \cup {e} : x.session = e.session =>
        \/ x \in Items(all)
        \/ x.revision <= h.horizon /\ \A f \in Items(all) : x.revision < f.revision
  BY <1>2, <1>3 DEF Recorded
<1>8. \A x \in received \cup {e} : x.session = e.session => x.revision <= h2.current
  BY <1>1, <1>2, <1>6 DEF Recorded
<1>9. CASE ~ Len(all) > Capacity
  <2>1. h2.entries = all /\ h2.horizon = h.horizon
    BY <1>9 DEF PushAt
  <2> QED BY <1>2, <1>4, <1>5, <1>7, <1>8, <2>1, EventTypes, FeedAssumption DEF Recorded
<1>10. CASE Len(all) > Capacity
  <2>1. h2.entries = Tail(all) /\ h2.horizon = Head(all).revision
    BY <1>10 DEF PushAt
  <2>2. /\ Head(all) \in Items(all) /\ Items(all) = {Head(all)} \cup Items(Tail(all))
        /\ Increasing(Tail(all)) /\ Before({Head(all)}, Items(Tail(all)))
    BY <1>2, <1>4, TailItems
  <2>3. \A f \in Items(Tail(all)) : Head(all).revision < f.revision
    BY <1>5, <2>2 DEF Before
  <2>4. Head(all).revision \in Nat
    BY <1>2, <1>5, <2>2
  <2>5. ASSUME NEW x \in received \cup {e}, x.session = e.session
        PROVE  \/ x \in Items(Tail(all))
               \/ /\ x.revision <= Head(all).revision
                  /\ \A f \in Items(Tail(all)) : x.revision < f.revision
    <3>1. x.revision \in Nat
      BY <1>2
    <3>2. CASE x = Head(all)
      BY <2>3, <3>1, <3>2
    <3>3. CASE \A f \in Items(all) : x.revision < f.revision
      BY <2>2, <2>4, <3>1, <3>3
    <3> QED BY <1>7, <2>2, <2>5, <3>2, <3>3
  <2>6. \A x \in Items(Tail(all)) : x \in received \cup {e} /\ x.session = e.session
    BY <1>5, <2>2
  <2> QED BY <1>8, <2>1, <2>2, <2>5, <2>6, EventTypes, FeedAssumption DEF Recorded
<1> QED BY <1>9, <1>10

LEMMA RecordedBegin ==
  ASSUME NEW h \in History, NEW received \in SUBSET Event, NEW e \in Event,
         Before(received, {e})
  PROVE  Recorded(e.session, Reset(Observe(h, e.revision - 1)), received)
<1> DEFINE h2 == Reset(Observe(h, e.revision - 1))
<1>1. h.current \in Nat /\ e.revision \in Nat \ {0}
  BY EventTypes, FeedAssumption DEF History
<1>2. /\ h2.entries = <<>> /\ h2.horizon = h2.current
      /\ h2.current \in Nat /\ h2.current >= e.revision - 1
  BY <1>1 DEF Reset, Observe
<1>3. \A x \in received : x.session = e.session =>
        x.revision \in Nat /\ x.revision < e.revision
  BY EventTypes DEF Before
<1>4. \A x \in received : x.session = e.session =>
        x.revision <= h2.current /\ x.revision <= h2.horizon
  BY <1>1, <1>2, <1>3
<1> QED BY <1>2, <1>4, EmptyItems DEF Recorded

LEMMA FeedInit == Init => FeedInv
<1> SUFFICES ASSUME Init PROVE FeedInv
  OBVIOUS
<1>1. TypeOK
  BY TypeInit
<1>2. /\ outbox = <<>> /\ bus = <<>> /\ published = {} /\ missed = {} /\ link = None
      /\ \A s \in Sessions : wire[s] = <<>>
      /\ cache = [session |-> None, history |-> NewHistory] /\ tracking = None
  BY DEF Init
<1>3. AllOwned /\ Upstream /\ Downstream
  BY <1>2, EmptyItems DEF AllOwned, Upstream, Downstream, Before, Waiting, Received
<1>4. Recorded(cache.session, cache.history, Received)
  BY <1>2, EmptyItems DEF Recorded, NewHistory, Received
<1> QED BY <1>1, <1>2, <1>3, <1>4 DEF FeedInv

(* The add-on's side: what it numbers is later than all it has sent. *)

LEMMA ChangeOrder ==
  ASSUME TypeOK, AllOwned, Upstream, Change
  PROVE  AllOwned' /\ Upstream'
<1> PICK e : e = [session |-> link, revision |-> revision + 1]
  OBVIOUS
<1>1. /\ link \in Sessions /\ link \in opened /\ revision \in Nat /\ e \in Event
      /\ e.session = link /\ e.revision = revision + 1
  BY FeedAssumption, EventTypes DEF Change, TypeOK, AllOwned
<1>2. outbox \in Seq(Event) /\ outbox' = Append(outbox, e)
  BY DEF Change, TypeOK
<1>3. /\ revision' = revision + 1 /\ link' = link /\ opened' = opened
      /\ wire' = wire /\ published' = published
  BY DEF Change, serverVars
<1>4. \A x \in Event : Owned(x) => Owned(x)' /\ (x.session = e.session => x.revision < e.revision)
  BY <1>1, <1>3, EventTypes DEF Owned
<1>5. /\ Items(outbox) \subseteq Event /\ published \subseteq Event
      /\ \A s \in Sessions : Items(wire[s]) \subseteq Event
  BY ItemTypes DEF TypeOK
<1>6. /\ Before(Items(outbox), {e}) /\ Before(published, {e})
      /\ \A s \in Sessions : Before(Items(wire[s]), {e})
  BY <1>4, <1>5 DEF AllOwned, Before
<1>7. Items(outbox') = Items(outbox) \cup {e} /\ Increasing(outbox')
  BY <1>1, <1>2, <1>6, AppendItems, AppendIncreasing DEF Upstream
<1>8. Owned(e)'
  BY <1>1, <1>3 DEF Owned
<1>9. AllOwned'
  BY <1>3, <1>4, <1>5, <1>7, <1>8 DEF AllOwned
<1>10. Before(published', Items(outbox'))
  BY <1>3, <1>6, <1>7 DEF Upstream, Before
<1>11. \A s \in Sessions : Before(Items(wire'[s]), Items(outbox'))
  BY <1>3, <1>6, <1>7 DEF Upstream, Before
<1> QED BY <1>3, <1>7, <1>9, <1>10, <1>11 DEF Upstream

LEMMA SendOrder ==
  ASSUME TypeOK, AllOwned, Upstream, WriterSends
  PROVE  AllOwned' /\ Upstream'
<1> PICK e : e = Head(outbox)
  OBVIOUS
<1>1. /\ link \in Sessions /\ outbox \in Seq(Event) /\ outbox # <<>> /\ outbox' = Tail(outbox)
      /\ wire \in [Sessions -> Seq(Event)]
  BY FeedAssumption DEF WriterSends, TypeOK
<1>2. /\ link' = link /\ opened' = opened /\ revision' = revision /\ published' = published
      /\ wire' = [wire EXCEPT ![link] = Append(wire[link], e)]
  BY DEF WriterSends
<1>3. /\ e \in Items(outbox) /\ e \in Event /\ Items(outbox) = {e} \cup Items(outbox')
      /\ Increasing(outbox') /\ Before({e}, Items(outbox'))
  BY <1>1, TailItems, QueueTypes DEF Upstream
<1>4. /\ \A s \in Sessions : s # link => wire'[s] = wire[s]
      /\ wire'[link] = Append(wire[link], e) /\ wire[link] \in Seq(Event)
  BY <1>1, <1>2
<1>5. Before(Items(wire[link]), {e}) /\ Before(published, {e})
  BY <1>1, <1>3 DEF Upstream, Before
<1>6. Items(wire'[link]) = Items(wire[link]) \cup {e} /\ Increasing(wire'[link])
  <2>1. Increasing(wire[link])
    BY <1>1 DEF Upstream
  <2>2. Items(wire'[link]) = Items(wire[link]) \cup {e}
    BY <1>3, <1>4, AppendItems
  <2> QED BY <1>3, <1>4, <1>5, <2>1, <2>2, AppendIncreasing
<1>7. \A x : Owned(x) => Owned(x)'
  BY <1>2 DEF Owned
<1>8. AllOwned'
  BY <1>2, <1>3, <1>4, <1>6, <1>7 DEF AllOwned
<1>9. Before(published', Items(outbox'))
  BY <1>2, <1>3 DEF Upstream, Before
<1>10. ASSUME NEW s \in Sessions
       PROVE  /\ Increasing(wire'[s])
              /\ Before(Items(wire'[s]), Items(outbox'))
              /\ \A p \in published', x \in Items(wire'[s]) :
                   p.session = s /\ x.session = s => p.revision < x.revision
  <2>1. CASE s # link
    BY <1>2, <1>3, <1>4, <2>1 DEF Upstream, Before
  <2>2. CASE s = link
    <3>1. Before(Items(wire'[s]), Items(outbox'))
      BY <1>1, <1>3, <1>6, <2>2 DEF Upstream, Before
    <3>2. \A p \in published', x \in Items(wire'[s]) :
            p.session = s /\ x.session = s => p.revision < x.revision
      BY <1>1, <1>2, <1>5, <1>6, <2>2 DEF Upstream, Before
    <3> QED BY <1>6, <2>2, <3>1, <3>2
  <2> QED BY <2>1, <2>2
<1> QED BY <1>3, <1>8, <1>9, <1>10 DEF Upstream

LEMMA LoseOrder ==
  ASSUME TypeOK, AllOwned, Upstream, WriterLoses
  PROVE  AllOwned' /\ Upstream'
<1>1. outbox \in Seq(Event) /\ outbox # <<>> /\ outbox' = Tail(outbox)
  BY DEF WriterLoses, TypeOK
<1>2. /\ link' = link /\ opened' = opened /\ revision' = revision /\ published' = published
      /\ wire' = wire
  BY DEF WriterLoses, serverVars
<1>3. Items(outbox') \subseteq Items(outbox) /\ Increasing(outbox')
  BY <1>1, TailItems DEF Upstream
<1>4. \A x : Owned(x) => Owned(x)'
  BY <1>2 DEF Owned
<1> QED BY <1>2, <1>3, <1>4 DEF AllOwned, Upstream, Before

(* A new connection has no events yet; the add-on counts from zero again only
   when it has no connection. *)
LEMMA LinkOrder ==
  ASSUME TypeOK, AllOwned, Upstream,
         Disconnect \/ Stop \/ ChangeUnseen \/ \E s \in Sessions : Dial(s)
  PROVE  AllOwned' /\ Upstream'
<1>1. /\ published' = published /\ wire' = wire /\ opened \subseteq opened'
      /\ outbox' = outbox \/ outbox' = <<>>
  BY DEF Disconnect, Stop, ChangeUnseen, Dial, serverVars
<1>2. Items(outbox') \subseteq Items(outbox) /\ Increasing(outbox')
  BY <1>1, EmptyItems DEF Upstream
<1>3. /\ link' \in opened' \cup {None}
      /\ \A x \in Event : Owned(x) => Owned(x)'
  <2>1. CASE Disconnect \/ Stop
    BY <2>1, FeedAssumption DEF Disconnect, Stop, Owned, TypeOK
  <2>2. CASE ChangeUnseen
    BY <2>2, EventTypes DEF ChangeUnseen, Owned, TypeOK, AllOwned
  <2>3. CASE \E s \in Sessions : Dial(s)
    BY <2>3 DEF Dial, Owned
  <2> QED BY <2>1, <2>2, <2>3
<1>4. /\ Items(outbox) \subseteq Event /\ published \subseteq Event
      /\ \A s \in Sessions : Items(wire[s]) \subseteq Event
  BY ItemTypes DEF TypeOK
<1>5. AllOwned'
  BY <1>1, <1>2, <1>3, <1>4 DEF AllOwned
<1> QED BY <1>1, <1>2, <1>5 DEF Upstream, Before

(* The server's side. *)

LEMMA PublishUpstream ==
  ASSUME TypeOK, AllOwned, Upstream, NEW s \in Sessions, Publish(s)
  PROVE  /\ AllOwned' /\ Upstream'
         /\ Head(wire[s]) \in Items(wire[s]) /\ Head(wire[s]) \in Event
<1> PICK e : e = Head(wire[s])
  OBVIOUS
<1>1. /\ wire \in [Sessions -> Seq(Event)] /\ wire[s] \in Seq(Event) /\ wire[s] # <<>>
      /\ wire' = [wire EXCEPT ![s] = Tail(wire[s])]
      /\ link' = link /\ opened' = opened /\ revision' = revision /\ outbox' = outbox
  BY DEF Publish, TypeOK, addonVars
<1>2. /\ \A t \in Sessions : t # s => wire'[t] = wire[t]
      /\ wire'[s] = Tail(wire[s])
  BY <1>1
<1>3. /\ e \in Items(wire[s]) /\ e \in Event /\ Items(wire[s]) = {e} \cup Items(wire'[s])
      /\ Increasing(wire'[s]) /\ Before({e}, Items(wire'[s]))
  BY <1>1, <1>2, TailItems, QueueTypes DEF Upstream
<1>4. published' = published \/ (published' = published \cup {e} /\ e.session = s)
  BY DEF Publish, Send
<1>5. \A x : Owned(x) => Owned(x)'
  BY <1>1 DEF Owned
<1>6. AllOwned'
  BY <1>1, <1>2, <1>3, <1>4, <1>5 DEF AllOwned
<1>7. Before(published', Items(outbox'))
  BY <1>1, <1>3, <1>4 DEF Upstream, Before
<1>8. ASSUME NEW t \in Sessions
      PROVE  /\ Increasing(wire'[t])
             /\ Before(Items(wire'[t]), Items(outbox'))
             /\ \A p \in published', x \in Items(wire'[t]) :
                  p.session = t /\ x.session = t => p.revision < x.revision
  <2>1. CASE t # s
    BY <1>1, <1>2, <1>4, <2>1 DEF Upstream
  <2>2. CASE t = s
    <3>1. Before(Items(wire'[t]), Items(outbox'))
      BY <1>1, <1>3, <2>2 DEF Upstream, Before
    <3>2. \A p \in published', x \in Items(wire'[t]) :
            p.session = t /\ x.session = t => p.revision < x.revision
      BY <1>3, <1>4, <2>2 DEF Upstream, Before
    <3> QED BY <1>3, <2>2, <3>1, <3>2
  <2> QED BY <2>1, <2>2
<1> QED BY <1>1, <1>3, <1>6, <1>7, <1>8 DEF Upstream

LEMMA PublishDownstream ==
  ASSUME TypeOK, Upstream, Downstream, NEW s \in Sessions, Publish(s)
  PROVE  Downstream' /\ Received' = Received
<1> PICK e : e = Head(wire[s])
  OBVIOUS
<1>1. /\ wire[s] \in Seq(Event) /\ wire[s] # <<>> /\ e \in Items(wire[s]) /\ e \in Event
  BY TailItems, QueueTypes DEF Publish, TypeOK
<1>2. CASE UNCHANGED <<bus, missed, published>>
  BY <1>2 DEF Downstream, Waiting, Received
<1>3. CASE e.session = s /\ Send(e)
  <2>1. Before(published, {e})
    BY <1>1, <1>3 DEF Upstream, Before
  <2>2. e \notin published
    BY <1>1, <2>1, EventTypes DEF Before
  <2>3. bus \in Seq(Event) /\ Len(bus) \in Nat /\ (bus = <<>> => Len(bus) < EventBuffer)
    BY FeedAssumption DEF TypeOK
  <2> PICK rest : rest = IF Len(bus) < EventBuffer THEN bus ELSE Tail(bus)
    OBVIOUS
  <2>4. /\ rest \in Seq(Event) /\ Increasing(rest)
        /\ Items(rest) \cup missed' = Waiting \cup missed
        /\ Items(rest) \subseteq Waiting
        /\ Before(missed', Items(rest))
    <3>1. CASE Len(bus) < EventBuffer
      BY <1>3, <2>3, <3>1 DEF Send, Waiting, Downstream
    <3>2. CASE ~ Len(bus) < EventBuffer
      <4>1. /\ rest = Tail(bus) /\ rest \in Seq(Event) /\ missed' = missed \cup {Head(bus)}
        BY <1>3, <2>3, <3>2, QueueTypes DEF Send
      <4>2. /\ Waiting = {Head(bus)} \cup Items(rest) /\ Increasing(rest)
            /\ Before({Head(bus)}, Items(rest))
        BY <2>3, <3>2, <4>1, TailItems DEF Waiting, Downstream
      <4> QED BY <4>1, <4>2 DEF Downstream, Before
    <3> QED BY <3>1, <3>2
  <2>5. /\ bus' = Append(rest, e) /\ published' = published \cup {e}
    BY <1>3 DEF Send
  <2>6. Before(Items(rest), {e}) /\ Before(missed', {e}) /\ missed' \subseteq published
    BY <2>1, <2>4 DEF Downstream, Before
  <2>7. Increasing(bus')
    BY <1>1, <2>4, <2>5, <2>6, AppendIncreasing
  <2>8. Waiting' = Items(rest) \cup {e}
    <3>1. \A q \in Seq(Event), x \in Event : Items(Append(q, x)) = Items(q) \cup {x}
      BY AppendItems
    <3> QED BY <1>1, <2>4, <2>5, <3>1 DEF Waiting
  <2>9. Waiting' \cup missed' = Waiting \cup missed \cup {e}
    BY <2>4, <2>8
  <2>10. Received' = Received
    BY <2>2, <2>5, <2>9 DEF Received
  <2>11. Waiting' \subseteq published' /\ missed' \subseteq published'
    BY <2>4, <2>5, <2>6, <2>8 DEF Downstream
  <2>12. Before(missed', Waiting')
    BY <2>4, <2>6, <2>8 DEF Before
  <2>13. Before(Received, Waiting \cup missed \cup {e})
    BY <2>1 DEF Downstream, Received, Before
  <2> QED BY <2>7, <2>9, <2>10, <2>11, <2>12, <2>13 DEF Downstream
<1> QED BY <1>2, <1>3 DEF Publish

(* The pump's side. *)

LEMMA LaggedOrder ==
  ASSUME TypeOK, Downstream, Lagged
  PROVE  /\ Downstream'
         /\ cache'.session = tracking'
         /\ Recorded(cache'.session, cache'.history, Received')
<1>1. /\ missed' = {} /\ bus' = bus /\ published' = published /\ tracking' = None
      /\ cache' = [session |-> None, history |-> Reset(cache.history)]
  BY DEF Lagged
<1>2. Waiting' = Waiting
  BY <1>1 DEF Waiting
<1>3. Received' = Received \cup missed
  BY <1>1, <1>2, EventTypes DEF Received, Downstream, Before, TypeOK
<1>4. Before(Received', Waiting')
  BY <1>2, <1>3 DEF Downstream, Before
<1>5. Downstream'
  BY <1>1, <1>2, <1>4 DEF Downstream, Before
<1>6. Received' \subseteq Event /\ \A x \in Event : x.session # None
  BY <1>1, EventTypes, FeedAssumption DEF Received, TypeOK
<1>7. cache'.session = None /\ cache'.history.entries = <<>>
  BY <1>1 DEF Reset
<1> QED BY <1>1, <1>5, <1>6, <1>7, EmptyItems DEF Recorded

LEMMA BeginOrder ==
  ASSUME TypeOK, Downstream, BeginSession
  PROVE  /\ Downstream'
         /\ cache'.session = tracking'
         /\ Recorded(cache'.session, cache'.history, Received')
<1> PICK e : e = Head(bus)
  OBVIOUS
<1>1. bus \in Seq(Event) /\ bus # <<>>
  BY DEF BeginSession, TypeOK
<1>2. e \in Waiting /\ e \in Event
  BY <1>1, TailItems, QueueTypes DEF Waiting
<1>3. /\ missed' = missed /\ bus' = bus /\ published' = published /\ tracking' = e.session
      /\ cache' = [session |-> e.session,
                   history |-> Reset(Observe(cache.history, e.revision - 1))]
  BY DEF BeginSession, serverVars
<1>4. Received' = Received /\ Downstream'
  BY <1>3 DEF Received, Waiting, Downstream
<1>5. Received \in SUBSET Event /\ cache.history \in History
  BY DEF Received, TypeOK
<1>6. Before(Received, {e})
  BY <1>2 DEF Downstream, Before
<1>7. Recorded(e.session, Reset(Observe(cache.history, e.revision - 1)), Received)
  BY <1>2, <1>5, <1>6, RecordedBegin
<1>8. /\ cache'.session = e.session
      /\ cache'.history = Reset(Observe(cache.history, e.revision - 1))
  BY <1>3
<1> QED BY <1>3, <1>4, <1>7, <1>8

LEMMA ApplyOrder ==
  ASSUME TypeOK, Downstream, Apply, cache.session = tracking,
         Recorded(cache.session, cache.history, Received)
  PROVE  /\ Downstream'
         /\ cache'.session = tracking'
         /\ Recorded(cache'.session, cache'.history, Received')
<1> PICK e : e = Head(bus)
  OBVIOUS
<1>1. bus \in Seq(Event) /\ bus # <<>>
  BY DEF Apply, TypeOK
<1>2. /\ e \in Event /\ Waiting = {e} \cup Items(Tail(bus))
      /\ Increasing(Tail(bus)) /\ Before({e}, Items(Tail(bus)))
  BY <1>1, TailItems, QueueTypes DEF Waiting, Downstream
<1>3. /\ missed = {} /\ missed' = {} /\ bus' = Tail(bus) /\ published' = published
      /\ tracking' = tracking /\ e.session = tracking
      /\ cache' = [cache EXCEPT !.history = PushAt(cache.history, e)]
  BY DEF Apply
<1>4. Waiting' = Items(Tail(bus))
  BY <1>3 DEF Waiting
<1>5. e \notin Waiting'
  BY <1>2, <1>4, EventTypes DEF Before
<1>6. Received' = Received \cup {e}
  BY <1>2, <1>3, <1>4, <1>5 DEF Received, Downstream
<1>7. Before(Received', Waiting')
  BY <1>2, <1>4, <1>6 DEF Downstream, Before
<1>8. Downstream'
  BY <1>2, <1>3, <1>4, <1>7 DEF Downstream, Before
<1>9. Received \in SUBSET Event /\ cache.history \in History
  BY DEF Received, TypeOK
<1>10. Before(Received, {e})
  BY <1>2 DEF Downstream, Before
<1>11. Recorded(e.session, PushAt(cache.history, e), Received \cup {e})
  BY <1>2, <1>3, <1>9, <1>10, RecordedPush
<1>12. cache'.session = e.session /\ cache'.history = PushAt(cache.history, e)
  BY <1>3 DEF TypeOK
<1> QED BY <1>3, <1>6, <1>8, <1>11, <1>12

(* A step that leaves the channel and the pump alone leaves the record as it is. *)
LEMMA QuietDownstream ==
  ASSUME Downstream, cache.session = tracking,
         Recorded(cache.session, cache.history, Received),
         UNCHANGED <<bus, missed, published, tracking, cache>>
  PROVE  /\ Downstream'
         /\ cache'.session = tracking'
         /\ Recorded(cache'.session, cache'.history, Received')
<1>1. Waiting' = Waiting
  BY DEF Waiting
<1>2. Received' = Received
  BY <1>1 DEF Received
<1> QED BY <1>1, <1>2 DEF Downstream

LEMMA FeedNext == FeedInv /\ [Next]_vars => FeedInv'
<1> SUFFICES ASSUME FeedInv, [Next]_vars PROVE FeedInv'
  OBVIOUS
<1> USE DEF FeedInv
<1>1. TypeOK'
  BY TypeNext
<1>2. CASE Disconnect \/ Stop \/ ChangeUnseen \/ \E s \in Sessions : Dial(s)
  <2>1. UNCHANGED <<bus, missed, published, tracking, cache>>
    BY <1>2 DEF Disconnect, Stop, ChangeUnseen, Dial, serverVars, pumpVars
  <2> QED BY <1>1, <1>2, <2>1, LinkOrder, QuietDownstream
<1>3. CASE Change
  <2>1. UNCHANGED <<bus, missed, published, tracking, cache>>
    BY <1>3 DEF Change, serverVars, pumpVars
  <2> QED BY <1>1, <1>3, <2>1, ChangeOrder, QuietDownstream
<1>4. CASE WriterSends
  <2>1. UNCHANGED <<bus, missed, published, tracking, cache>>
    BY <1>4 DEF WriterSends, pumpVars
  <2> QED BY <1>1, <1>4, <2>1, SendOrder, QuietDownstream
<1>5. CASE WriterLoses
  <2>1. UNCHANGED <<bus, missed, published, tracking, cache>>
    BY <1>5 DEF WriterLoses, serverVars, pumpVars
  <2> QED BY <1>1, <1>5, <2>1, LoseOrder, QuietDownstream
<1>6. ASSUME NEW s \in Sessions, Publish(s) PROVE FeedInv'
  <2>1. UNCHANGED <<tracking, cache>>
    BY <1>6 DEF Publish, pumpVars
  <2>2. AllOwned' /\ Upstream'
    BY <1>6, PublishUpstream
  <2>3. Downstream' /\ Received' = Received
    BY <1>6, PublishDownstream
  <2> QED BY <1>1, <2>1, <2>2, <2>3
<1>7. CASE UNCHANGED <<link, revision, outbox, opened, wire, bus, missed, published, tracking, cache>>
  <2>1. AllOwned' /\ Upstream'
    BY <1>7 DEF AllOwned, Owned, Upstream, Before
  <2> QED BY <1>1, <1>7, <2>1, QuietDownstream
<1>8. ASSUME NEW s \in Sessions, ReadEnds(s) PROVE FeedInv'
  BY <1>7, <1>8 DEF ReadEnds, addonVars, pumpVars
<1>9. CASE Lagged \/ BeginSession \/ Apply
  <2>1. UNCHANGED <<link, revision, outbox, opened, wire, published>>
    BY <1>9 DEF Lagged, BeginSession, Apply, addonVars, serverVars
  <2>2. AllOwned' /\ Upstream'
    BY <2>1 DEF AllOwned, Owned, Upstream, Before
  <2> QED BY <1>1, <1>9, <2>2, LaggedOrder, BeginOrder, ApplyOrder
<1>10. CASE UNCHANGED vars
  BY <1>7, <1>10 DEF vars, addonVars, serverVars, pumpVars
<1> QED BY <1>2, <1>3, <1>4, <1>5, <1>6, <1>8, <1>9, <1>10 DEF Next

LEMMA FeedInvHolds == Spec => []FeedInv
BY FeedInit, FeedNext, PTL DEF Spec

LEMMA FeedInvDiff == FeedInv => DiffComplete
<1> SUFFICES ASSUME FeedInv, NEW from \in 0 .. cache.history.current,
                    Answered(cache.history, from, cache.history.current)
             PROVE  Since(cache.history, from, cache.history.current) =
                      {e \in Received : e.session = cache.session /\ from < e.revision
                                        /\ e.revision <= cache.history.current}
  BY DEF DiffComplete
<1> PICK h : h = cache.history
  OBVIOUS
<1>1. h \in History /\ from \in Nat /\ h.horizon \in Nat /\ h.horizon <= from
  BY FeedAssumption DEF FeedInv, TypeOK, History, Answered
<1>2. Recorded(cache.session, h, Received) /\ Received \subseteq Event
  BY DEF FeedInv, TypeOK, Received
<1>3. Since(h, from, h.current) =
        {e \in Items(h.entries) : from < e.revision /\ e.revision <= h.current}
  BY DEF Since, Items
<1>4. ASSUME NEW e \in Received, e.session = cache.session, from < e.revision
      PROVE  e \in Items(h.entries)
  BY <1>1, <1>2, <1>4, EventTypes DEF Recorded
<1>5. \A e \in Items(h.entries) : e \in Received /\ e.session = cache.session
  BY <1>2 DEF Recorded
<1> QED BY <1>3, <1>4, <1>5

LEMMA FeedInvOrder == FeedInv => OneSessionInOrder
<1> SUFFICES ASSUME FeedInv PROVE OneSessionInOrder
  OBVIOUS
<1>1. Recorded(cache.session, cache.history, Received)
  BY DEF FeedInv
<1>2. \A i \in DOMAIN cache.history.entries : cache.history.entries[i].session = cache.session
  BY <1>1 DEF Recorded, Items
<1> QED BY <1>1, <1>2 DEF Recorded, Increasing, OneSessionInOrder

(* Whatever is dropped, overwritten, evicted or delivered late on the way, a diff
   that is answered lists every event of its range that the pump has received. *)
THEOREM AnsweredDiffsAreComplete == Spec => []DiffComplete
BY FeedInvHolds, FeedInvDiff, PTL

(* The record holds one connection's changes, in the order they were made. *)
THEOREM RecordInOrder == Spec => []OneSessionInOrder
BY FeedInvHolds, FeedInvOrder, PTL
=============================================================================
