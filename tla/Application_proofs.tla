------------------------- MODULE Application_proofs -------------------------
(***************************************************************************)
(* What an application is shown and asks for stays true, for any number of *)
(* streams, listeners, requests, calls and wallets: no subscription polls  *)
(* for nobody, a hook that reads shows what it was asked for, a hook that  *)
(* sends a transaction tells of it what happened, the client's modules     *)
(* hold one wallet, a new stream is the one that was asked for, and the    *)
(* pages of the transaction history are slices of the sorted rows.         *)
(***************************************************************************)
EXTENDS EventListeners, HookReads, HookMutations, ClientWallet, StreamRequest,
        TransactionHistory, Selections_proofs, SequenceTheorems, FiniteSetTheorems, TLAPS

-----------------------------------------------------------------------------
(* Listeners of events                                                     *)

ListenerTypes ==
    /\ askedFor \in [Listener -> SUBSET FeedStream]
    /\ polled \in [Listener -> SUBSET FeedStream]
    /\ resolving \subseteq Listener /\ ended \subseteq Listener
    /\ hookListener \in Listener \cup {NoListener}
    /\ shownStream \in FeedStream \cup {NoStream}
    /\ feedClock \in Nat

\* A subscription that was ended has been asked for: it is never taken again.
ListenerInv ==
    /\ ListenerTypes
    /\ \A l \in ended : askedFor[l] # {}
    /\ heard # NothingHeard => heard.who \in Listener
    /\ NobodyLeftPolling

LEMMA ListenersStart == ListenersInit => ListenerInv
BY ListenerAssumption DEF ListenersInit, ListenerInv, ListenerTypes, NobodyLeftPolling, NothingHeard

\* A subscription is asked for once, of streams that it keeps.
LEMMA SubscribingKeeps ==
  ASSUME ListenerInv, NEW l \in Listener, NEW S \in SUBSET FeedStream, S # {}, Subscribing(l, S),
         UNCHANGED <<ended, polled, effectVars, heard, cliffVars>>
  PROVE  ListenerInv'
<1>1. /\ ListenerTypes' /\ askedFor'[l] = S
      /\ \A k \in Listener : k # l => askedFor'[k] = askedFor[k]
  BY DEF ListenerInv, ListenerTypes, Subscribing, effectVars, cliffVars
<1>2. askedFor[l] = {} /\ l \notin ended /\ polled[l] = {} /\ l # hookListener
  BY ListenerAssumption DEF Subscribing, ListenerInv, NobodyLeftPolling
<1> QED BY <1>1, <1>2 DEF ListenerInv, NobodyLeftPolling, ListenerTypes, effectVars, cliffVars

LEMMA ResolvedKeeps ==
  ASSUME ListenerInv, NEW l \in resolving, NEW found \in SUBSET askedFor[l], AddressesResolved(l, found)
  PROVE  ListenerInv'
<1>1. l \in Listener /\ found \subseteq FeedStream
  BY DEF ListenerInv, ListenerTypes
<1>2. polled' = [polled EXCEPT ![l] = IF l \in ended THEN {} ELSE found]
      /\ UNCHANGED <<askedFor, ended, heard, effectVars, cliffVars>> /\ resolving' \subseteq resolving
  BY DEF AddressesResolved, toldVars
<1>3. ListenerTypes'
  BY <1>1, <1>2 DEF ListenerInv, ListenerTypes, effectVars, cliffVars
<1>4. /\ \A k \in ended : polled'[k] = {}
      /\ \A k \in Listener : polled'[k] \subseteq askedFor[k]
  BY <1>1, <1>2 DEF ListenerInv, ListenerTypes, NobodyLeftPolling
<1> QED BY <1>2, <1>3, <1>4 DEF ListenerInv, NobodyLeftPolling, effectVars, cliffVars

LEMMA UnsubscribingKeeps ==
  ASSUME ListenerInv, NEW l \in Listener, Unsubscribing(l)
  PROVE  ListenerInv'
<1>1. ListenerTypes' /\ askedFor' = askedFor
  BY DEF ListenerInv, ListenerTypes, Unsubscribing, Ended, effectVars, cliffVars
<1>2. /\ \A k \in ended' : polled'[k] = {} /\ askedFor[k] # {}
      /\ \A k \in Listener : polled'[k] \subseteq askedFor[k]
  BY DEF ListenerInv, ListenerTypes, NobodyLeftPolling, Unsubscribing, Ended
<1> QED BY <1>1, <1>2 DEF ListenerInv, NobodyLeftPolling, Unsubscribing, Ended, effectVars, toldVars, cliffVars

\* The effect of the hook ends its subscription before it asks for another.
LEMMA EffectKeeps ==
  ASSUME ListenerInv, NEW s \in FeedStream \cup {NoStream}, EffectRuns(s)
  PROVE  ListenerInv'
<1>1. /\ UNCHANGED <<heard, cliffVars>> /\ shownStream' = s
      /\ ended' \subseteq Listener /\ polled' \in [Listener -> SUBSET FeedStream]
      /\ ended \subseteq ended' /\ ended' \subseteq ended \cup ({hookListener} \ {NoListener})
      /\ \A k \in ended' : polled'[k] = {} /\ askedFor[k] # {}
      /\ \A k \in Listener : polled'[k] \subseteq polled[k]
  <2>1. CASE hookListener # NoListener
    <3>1. Ended(hookListener) /\ hookListener \in Listener /\ askedFor[hookListener] # {}
      BY <2>1 DEF EffectRuns, ListenerInv, ListenerTypes, NobodyLeftPolling
    <3> QED BY <3>1, <2>1 DEF Ended, EffectRuns, ListenerInv, ListenerTypes, NobodyLeftPolling, toldVars
  <2>2. CASE hookListener = NoListener
    BY <2>2 DEF EffectRuns, ListenerInv, ListenerTypes, NobodyLeftPolling, toldVars
  <2> QED BY <2>1, <2>2
<1>2. CASE s = NoStream
  <2>1. hookListener' = NoListener /\ UNCHANGED <<askedFor, resolving>>
    BY <1>2 DEF EffectRuns
  <2> QED BY <1>1, <1>2, <2>1, ListenerAssumption DEF ListenerInv, ListenerTypes, NobodyLeftPolling, cliffVars
<1>3. CASE s # NoStream
  <2>1. PICK l \in Listener : hookListener' = l /\ Subscribing(l, {s})
    BY <1>3 DEF EffectRuns
  <2>2. /\ askedFor[l] = {} /\ askedFor' \in [Listener -> SUBSET FeedStream] /\ askedFor'[l] = {s}
        /\ \A k \in Listener : k # l => askedFor'[k] = askedFor[k]
        /\ resolving' \subseteq Listener /\ l # NoListener
    BY <1>3, <2>1, ListenerAssumption DEF Subscribing, ListenerInv, ListenerTypes
  <2>3. l \notin ended' /\ polled'[l] = {}
    BY <1>1, <2>2 DEF ListenerInv, NobodyLeftPolling
  <2> QED BY <1>1, <1>3, <2>1, <2>2, <2>3 DEF ListenerInv, ListenerTypes, NobodyLeftPolling, cliffVars
<1> QED BY <1>2, <1>3

LEMMA ListenersKeep == ListenerInv /\ [ListenersNext]_listenerVars => ListenerInv'
<1> SUFFICES ASSUME ListenerInv, [ListenersNext]_listenerVars PROVE ListenerInv'
  OBVIOUS
<1>1. ASSUME NEW l \in Listener, NEW s \in FeedStream, Subscribe(l, s) PROVE ListenerInv'
  BY <1>1, SubscribingKeeps DEF Subscribe, toldVars
<1>2. ASSUME NEW l \in Listener, NEW S \in SUBSET FeedStream, S # {}, SubscribeToStreams(l, S)
      PROVE  ListenerInv'
  BY <1>2, SubscribingKeeps DEF SubscribeToStreams, toldVars
<1>3. ASSUME NEW l \in Listener, NEW s \in polled[l], NEW e \in FeedEvent, EventComes(l, s, e)
      PROVE  ListenerInv'
  <2>1. s \in askedFor[l] /\ UNCHANGED keptByFeed
    BY <1>3 DEF EventComes, ListenerInv, NobodyLeftPolling
  <2>2. heard' = heard \/ (heard' = [who |-> l, stream |-> s, kind |-> e.kind] /\ e.kind \in Handled)
    BY <1>3 DEF EventComes, Tells
  <2>3. heard' # NothingHeard => /\ heard'.who \in Listener /\ heard'.stream \in askedFor[heard'.who]
                                 /\ heard'.kind \in Handled
    BY <2>1, <2>2 DEF ListenerInv, NobodyLeftPolling
  <2> QED BY <2>1, <2>3 DEF ListenerInv, ListenerTypes, NobodyLeftPolling, keptByFeed
<1>4. CASE CliffNext
  <2>1. UNCHANGED listeningVars
    BY <1>4 DEF CliffNext, OnCliffReached, CliffTimer, CliffStopped, FeedTick
  <2>2. feedClock' \in Nat /\ (cliff' = "fired" => feedClock' >= CliffTime)
    BY <1>4, ListenerAssumption DEF CliffNext, OnCliffReached, CliffTimer, CliffStopped, FeedTick, CheckCliff,
       ListenerInv, ListenerTypes, NobodyLeftPolling
  <2> QED BY <2>1, <2>2 DEF ListenerInv, ListenerTypes, NobodyLeftPolling, listeningVars, effectVars, toldVars
<1>5. CASE UNCHANGED listenerVars
  BY <1>5 DEF ListenerInv, ListenerTypes, NobodyLeftPolling, listenerVars
<1> QED BY <1>1, <1>2, <1>3, <1>4, <1>5, ResolvedKeeps, UnsubscribingKeeps, EffectKeeps DEF ListenersNext, FeedNext

\* Whenever an address arrives and whoever unsubscribes meanwhile, nobody is left
\* polling, the hook listens for the stream it shows, and a handler hears of the
\* streams its subscription was for.
THEOREM NobodyEverLeftPolling == ListenersSpec => []NobodyLeftPolling
BY ListenersStart, ListenersKeep, PTL DEF ListenersSpec, ListenerInv

-----------------------------------------------------------------------------
(* Hooks that read                                                         *)

HookRow == [key : ReadKey \cup {NoKey}, at : Nat]
HookRequest == [stale : BOOLEAN, key : ReadKey, from : Nat, append : BOOLEAN,
                read : BOOLEAN, value : Seq(HookRow)]

HookTypes ==
    /\ hook \in {"keyed", "polled", "effect", "offset", "cursor"}
    /\ asked \in ReadKey \cup {NoKey}
    /\ requests \in Seq(HookRequest)
    /\ shown \in Seq(HookRow)
    /\ loading \in BOOLEAN /\ failed \in BOOLEAN /\ hasMore \in BOOLEAN /\ landed \in BOOLEAN
    /\ offset \in Nat /\ version \in Nat

\* An answer holds rows of what was asked for, from where it was asked.
RequestOK(h, r) ==
    r.read => /\ \A n \in DOMAIN r.value : r.value[n].key = r.key
              /\ h = "cursor" => \A n \in DOMAIN r.value : r.value[n].at = r.from + n
              /\ h = "cursor" /\ r.from + HookPageLimit <= Rows => Len(r.value) = HookPageLimit

\* A request that is not stale is for the arguments of the render.  The offset
\* hooks do not supersede it when the arguments come to name nothing.
LiveOK(h, a, rows, r) ==
    ~r.stale =>
        /\ r.key = a \/ (h = "offset" /\ a = NoKey)
        /\ h = "cursor" => r.from = IF r.append THEN Len(rows) ELSE 0
        /\ h \in {"keyed", "polled", "effect"} => ~r.append

Fits == \A n \in DOMAIN shown : shown[n].key = asked
Live == \E i \in DOMAIN requests : ~requests[i].stale

\* Only useStreamBalance has several requests that are not stale.
RequestsOK ==
    /\ \A i \in DOMAIN requests : RequestOK(hook, requests[i]) /\ LiveOK(hook, asked, shown, requests[i])
    /\ hook # "effect" => \A i, j \in DOMAIN requests : ~requests[i].stale /\ ~requests[j].stale => i = j

ShownOK ==
    /\ hook \in {"keyed", "polled", "effect"} /\ ~loading /\ ~failed => Fits \/ (hook = "polled" /\ Live)
    /\ hook = "offset" /\ landed /\ asked # NoKey => Fits
    /\ hook = "cursor" => /\ Fits
                          /\ \A n \in DOMAIN shown : shown[n].at = n
                          /\ offset # 0 => Len(shown) = offset

HookReadsInv == HookTypes /\ RequestsOK /\ ShownOK

LEMMA HookReadsStart == HookReadsInit => HookReadsInv
<1> SUFFICES ASSUME HookReadsInit PROVE HookReadsInv
  OBVIOUS
<1>1. requests = <<>> /\ shown = <<>> /\ DOMAIN requests = {} /\ DOMAIN shown = {}
  BY DEF HookReadsInit
<1>2. HookTypes
  <2>1. requests \in Seq(HookRequest) /\ shown \in Seq(HookRow)
    BY <1>1
  <2> QED BY <2>1 DEF HookReadsInit, HookTypes
<1>3. RequestsOK
  BY <1>1 DEF RequestsOK
<1>4. ShownOK
  BY <1>1 DEF HookReadsInit, ShownOK, Fits
<1> QED BY <1>2, <1>3, <1>4 DEF HookReadsInv

\* What useWithdrawableAmount keeps of a stream it was not asked straight after
\* another.
TickerOK ==
    hook = "polled" => /\ switched \/ (Fits /\ rate \cup ahead \subseteq {asked})
                       /\ asked = NoKey => shown = <<>> /\ rate = {} /\ ahead = {}

LEMMA HookReadsImply == HookReadsInv /\ TickerOK => ShownAsAsked
BY DEF HookReadsInv, HookTypes, ShownOK, ShownAsAsked, Fits, Live, TickerOK

\* What a hook that asks again leaves behind.
LEMMA SupersededStale ==
  ASSUME HookTypes, RequestsOK
  PROVE  /\ Superseded \in Seq(HookRequest) /\ Len(Superseded) = Len(requests)
         /\ \A i \in DOMAIN Superseded : Superseded[i].stale /\ RequestOK(hook, Superseded[i])
<1>1. /\ requests \in Seq(HookRequest) /\ Len(requests) \in Nat /\ DOMAIN requests = 1 .. Len(requests)
      /\ \A i \in DOMAIN requests : requests[i] \in HookRequest
  BY DEF HookTypes
<1>2. \A r \in HookRequest : [r EXCEPT !.stale = TRUE] \in HookRequest
  BY DEF HookRequest
<1>3. Superseded \in [1 .. Len(requests) -> HookRequest]
  BY <1>1, <1>2 DEF Superseded
<1>4. Superseded \in Seq(HookRequest) /\ Len(Superseded) = Len(requests)
  BY <1>1, <1>3
<1>5. ASSUME NEW i \in DOMAIN Superseded PROVE Superseded[i].stale /\ RequestOK(hook, Superseded[i])
  <2>1. i \in DOMAIN requests /\ requests[i] \in HookRequest /\ Superseded[i] = [requests[i] EXCEPT !.stale = TRUE]
    BY <1>1, <1>5 DEF Superseded
  <2>2. RequestOK(hook, requests[i])
    BY <2>1 DEF RequestsOK
  <2> QED BY <2>1, <2>2 DEF RequestOK, HookRequest
<1> QED BY <1>4, <1>5

LEMMA SupersededKeeps ==
  ASSUME HookTypes, RequestsOK, OnlySupersede, hook' = hook
  PROVE  requests' \in Seq(HookRequest) /\ RequestsOK'
<1>1. /\ requests' \in Seq(HookRequest)
      /\ \A i \in DOMAIN requests' : requests'[i].stale /\ RequestOK(hook, requests'[i])
  BY SupersededStale DEF OnlySupersede
<1> QED BY <1>1 DEF RequestsOK, LiveOK

\* A new request comes last.
LEMMA SendKeeps ==
  ASSUME HookTypes, RequestsOK, NEW before \in Seq(HookRequest),
         \A i \in DOMAIN before : RequestOK(hook, before[i]) /\ LiveOK(hook, asked', shown', before[i]),
         hook # "effect" => \A i \in DOMAIN before : before[i].stale,
         NEW k \in ReadKey, NEW from \in Nat, NEW append \in BOOLEAN,
         Send(before, k, from, append), hook' = hook, asked' = k,
         hook = "cursor" => from = IF append THEN Len(shown') ELSE 0,
         hook \in {"keyed", "polled", "effect"} => ~append
  PROVE  requests' \in Seq(HookRequest) /\ RequestsOK' /\ Live'
<1> DEFINE new == [stale |-> FALSE, key |-> k, from |-> from, append |-> append, read |-> FALSE, value |-> <<>>]
<1>1. new \in HookRequest /\ requests' = Append(before, new)
  BY DEF HookRequest, Send
<1>2. RequestOK(hook, new) /\ LiveOK(hook, asked', shown', new) /\ ~new.stale
  BY DEF RequestOK, LiveOK
<1> HIDE DEF new
<1>3. /\ requests' \in Seq(HookRequest) /\ Len(before) \in Nat
      /\ DOMAIN before = 1 .. Len(before)
      /\ DOMAIN requests' = 1 .. (Len(before) + 1) /\ requests'[Len(before) + 1] = new
      /\ \A i \in DOMAIN before : requests'[i] = before[i]
  BY <1>1
<1>4. \A i \in DOMAIN requests' : i \in DOMAIN before \/ i = Len(before) + 1
  BY <1>3
<1>5. \A i \in DOMAIN requests' : RequestOK(hook, requests'[i]) /\ LiveOK(hook, asked', shown', requests'[i])
  BY <1>2, <1>3, <1>4
<1>6. hook # "effect" => \A i \in DOMAIN requests' : ~requests'[i].stale => i = Len(before) + 1
  BY <1>3, <1>4
<1>7. Live'
  BY <1>2, <1>3 DEF Live
<1> QED BY <1>3, <1>5, <1>6, <1>7 DEF RequestsOK

\* A request that takes the place of those before it.
LEMMA FreshKeeps ==
  ASSUME HookTypes, RequestsOK, NEW k \in ReadKey, NEW from \in Nat, NEW append \in BOOLEAN,
         Send(Superseded, k, from, append), hook' = hook, asked' = k,
         hook = "cursor" => from = IF append THEN Len(shown') ELSE 0,
         hook \in {"keyed", "polled", "effect"} => ~append
  PROVE  requests' \in Seq(HookRequest) /\ RequestsOK' /\ Live'
<1>1. /\ Superseded \in Seq(HookRequest)
      /\ \A i \in DOMAIN Superseded : Superseded[i].stale /\ RequestOK(hook, Superseded[i])
  BY SupersededStale
<1> DEFINE before == Superseded
<1>2. \A i \in DOMAIN before : RequestOK(hook, before[i]) /\ LiveOK(hook, asked', shown', before[i])
  BY <1>1 DEF LiveOK
<1>3. before \in Seq(HookRequest) /\ Send(before, k, from, append)
      /\ \A i \in DOMAIN before : before[i].stale
  BY <1>1
<1> HIDE DEF before
<1> QED BY <1>2, <1>3, SendKeeps

LEMMA FetchKeyedKeeps ==
  ASSUME HookReadsInv, Keyed, NEW k \in ReadKey \cup {NoKey}, NEW silent \in BOOLEAN,
         FetchKeyed(k, silent), UNCHANGED <<hook, version>>, asked' = k, landed' \in BOOLEAN,
         silent => hook = "polled"
  PROVE  HookReadsInv'
<1>1. HookTypes /\ RequestsOK /\ hook \in {"keyed", "polled"}
  BY DEF HookReadsInv, Keyed
<1>2. CASE k = NoKey
  <2>1. shown' = <<>> /\ loading' = FALSE /\ OnlySupersede
    BY <1>2 DEF FetchKeyed
  <2>2. requests' \in Seq(HookRequest) /\ RequestsOK'
    BY <1>1, <2>1, SupersededKeeps
  <2>3. Fits' /\ shown' \in Seq(HookRow)
    BY <2>1 DEF Fits
  <2> QED BY <1>1, <2>1, <2>2, <2>3 DEF HookReadsInv, HookTypes, ShownOK, FetchKeyed
<1>3. CASE k # NoKey
  <2>1. loading' = (loading \/ ~silent) /\ Send(Superseded, k, 0, FALSE) /\ UNCHANGED shown
    BY <1>3 DEF FetchKeyed
  <2>2. requests' \in Seq(HookRequest) /\ RequestsOK' /\ Live'
    BY <1>1, <1>3, <2>1, FreshKeeps
  <2>3. ShownOK'
    BY <1>1, <2>1, <2>2 DEF ShownOK
  <2> QED BY <1>1, <2>1, <2>2, <2>3 DEF HookReadsInv, HookTypes, FetchKeyed
<1> QED BY <1>2, <1>3

LEMMA FetchEffectKeeps ==
  ASSUME HookReadsInv, hook = "effect", NEW k \in ReadKey \cup {NoKey},
         FetchEffect(k), UNCHANGED <<hook, version>>, asked' = k, landed' \in BOOLEAN
  PROVE  HookReadsInv'
<1>1. HookTypes /\ RequestsOK
  BY DEF HookReadsInv
<1>2. CASE k = NoKey
  <2>1. shown' = <<>> /\ loading' = FALSE /\ OnlySupersede
    BY <1>2 DEF FetchEffect
  <2>2. requests' \in Seq(HookRequest) /\ RequestsOK'
    BY <1>1, <2>1, SupersededKeeps
  <2>3. Fits' /\ shown' \in Seq(HookRow)
    BY <2>1 DEF Fits
  <2> QED BY <1>1, <1>2, <2>1, <2>2, <2>3 DEF HookReadsInv, HookTypes, ShownOK, FetchEffect
<1>3. CASE k # NoKey
  <2>1. loading' = TRUE /\ Send(Superseded, k, 0, FALSE) /\ UNCHANGED shown
    BY <1>3 DEF FetchEffect
  <2>2. requests' \in Seq(HookRequest) /\ RequestsOK' /\ Live'
    BY <1>1, <1>3, <2>1, FreshKeeps
  <2> QED BY <1>1, <1>3, <2>1, <2>2 DEF HookReadsInv, HookTypes, ShownOK, FetchEffect
<1> QED BY <1>2, <1>3

\* The rows of an offset hook are judged only once a first page has landed.
LEMMA FetchPageKeeps ==
  ASSUME HookReadsInv, hook = "offset", NEW k \in ReadKey \cup {NoKey}, NEW from \in Nat,
         NEW append \in BOOLEAN, FetchPage(k, from, append), UNCHANGED <<hook, version>>,
         asked' = k, offset' \in Nat, landed' = FALSE \/ (landed' = landed /\ k = asked)
  PROVE  HookReadsInv'
<1>1. HookTypes /\ RequestsOK
  BY DEF HookReadsInv
<1>2. CASE k = NoKey
  <2>1. shown' = <<>> /\ loading' = FALSE /\ UNCHANGED <<requests, failed>>
    BY <1>2 DEF FetchPage
  <2>2. RequestsOK'
    BY <1>1, <1>2, <2>1 DEF RequestsOK, LiveOK
  <2>3. shown' \in Seq(HookRow)
    BY <2>1
  <2> QED BY <1>1, <1>2, <2>1, <2>2, <2>3 DEF HookReadsInv, HookTypes, ShownOK, FetchPage
<1>3. CASE k # NoKey
  <2>1. loading' = TRUE /\ failed' = FALSE /\ Send(Superseded, k, from, append) /\ UNCHANGED shown
    BY <1>3 DEF FetchPage
  <2>2. requests' \in Seq(HookRequest) /\ RequestsOK' /\ Live'
    BY <1>1, <1>3, <2>1, FreshKeeps
  <2>3. ShownOK'
    BY <1>3, <2>1 DEF HookReadsInv, ShownOK, Fits
  <2> QED BY <1>1, <1>3, <2>1, <2>2, <2>3 DEF HookReadsInv, HookTypes, FetchPage
<1> QED BY <1>2, <1>3

\* The effect of useStreamList drops the rows before it asks.
LEMMA FetchListKeeps ==
  ASSUME HookReadsInv, hook = "cursor", NEW k \in ReadKey \cup {NoKey},
         FetchList(k), UNCHANGED <<hook, version>>, asked' = k, landed' \in BOOLEAN
  PROVE  HookReadsInv'
<1>1. /\ HookTypes /\ RequestsOK /\ shown' = <<>> /\ offset' = 0 /\ hasMore' = FALSE
      /\ shown' \in Seq(HookRow) /\ DOMAIN shown' = {}
  <2>1. shown' = <<>>
    BY DEF FetchList
  <2> QED BY <2>1 DEF HookReadsInv, FetchList
<1>2. requests' \in Seq(HookRequest) /\ RequestsOK'
  <2>1. CASE k = NoKey
    BY <1>1, <2>1, SupersededKeeps DEF FetchList
  <2>2. CASE k # NoKey
    BY <1>1, <2>2, FreshKeeps DEF FetchList
  <2> QED BY <2>1, <2>2
<1>3. loading' \in BOOLEAN /\ failed' \in BOOLEAN
  BY <1>1 DEF FetchList, HookTypes
<1> QED BY <1>1, <1>2, <1>3 DEF HookReadsInv, HookTypes, ShownOK, Fits

LEMMA LoadMoreKeeps ==
  ASSUME HookReadsInv, LoadMoreByOffset \/ LoadMoreByCursor \/ PollBalance
  PROVE  HookReadsInv'
<1>1. HookTypes /\ RequestsOK /\ HookPageLimit \in Nat
  BY ReadConstants DEF HookReadsInv
<1>2. CASE LoadMoreByOffset
  <2>1. offset + HookPageLimit \in Nat /\ asked \in ReadKey \cup {NoKey}
    BY <1>1 DEF HookTypes
  <2> QED BY <1>2, <2>1, FetchPageKeeps DEF LoadMoreByOffset
<1>3. CASE LoadMoreByCursor
  <2>1. /\ hook = "cursor" /\ asked \in ReadKey /\ offset \in Nat /\ offset # 0 /\ loading' = TRUE
        /\ Send(Superseded, asked, offset, TRUE)
        /\ UNCHANGED <<hook, asked, shown, failed, offset, hasMore, version, landed>>
    BY <1>1, <1>3 DEF LoadMoreByCursor, HookTypes
  <2>2. Len(shown) = offset /\ ShownOK
    BY <2>1 DEF HookReadsInv, ShownOK
  <2>3. requests' \in Seq(HookRequest) /\ RequestsOK'
    BY <1>1, <2>1, <2>2, FreshKeeps
  <2> QED BY <1>1, <2>1, <2>2, <2>3 DEF HookReadsInv, HookTypes, ShownOK, Fits
<1>4. CASE PollBalance
  <2>1. /\ hook = "effect" /\ asked \in ReadKey /\ Send(requests, asked, 0, FALSE)
        /\ UNCHANGED <<hook, asked, shown, loading, failed, offset, hasMore, version, landed>>
    BY <1>1, <1>4 DEF PollBalance, HookTypes
  <2>2. /\ requests \in Seq(HookRequest)
        /\ \A i \in DOMAIN requests : RequestOK(hook, requests[i]) /\ LiveOK(hook, asked', shown', requests[i])
    BY <1>1, <2>1 DEF RequestsOK, HookTypes
  <2>3. requests' \in Seq(HookRequest) /\ RequestsOK'
    BY <1>1, <2>1, <2>2, SendKeeps
  <2> QED BY <1>1, <2>1, <2>3 DEF HookReadsInv, HookTypes, ShownOK, Fits
<1> QED BY <1>2, <1>3, <1>4

\* What the node answers holds the rows that were asked for.
LEMMA NodeAnswersKeeps ==
  ASSUME HookReadsInv, NEW i \in DOMAIN requests, NodeAnswers(i)
  PROVE  HookReadsInv'
<1> DEFINE r == requests[i]
           size == IF r.from >= Rows THEN 0
                   ELSE IF r.from + HookPageLimit <= Rows THEN HookPageLimit ELSE Rows - r.from
           value == IF Paged THEN [n \in 1 .. size |-> [key |-> r.key, at |-> r.from + n]]
                             ELSE <<[key |-> r.key, at |-> version]>>
           new == [[r EXCEPT !.read = TRUE] EXCEPT !.value = value]
<1>1. HookTypes /\ RequestsOK /\ ShownOK /\ requests \in Seq(HookRequest) /\ r \in HookRequest
      /\ HookPageLimit \in Nat /\ Rows \in Nat /\ HookPageLimit # 0
  BY ReadConstants DEF HookReadsInv, HookTypes
<1>2. requests' = [requests EXCEPT ![i] = new]
      /\ UNCHANGED <<hook, asked, shown, loading, failed, offset, hasMore, version, landed>>
  BY <1>1 DEF NodeAnswers
<1>3. size \in Nat /\ r.from \in Nat /\ r.key \in ReadKey \cup {NoKey} /\ version \in Nat
  BY <1>1 DEF HookRequest, HookTypes
<1>4. /\ value \in Seq(HookRow) /\ \A n \in DOMAIN value : value[n].key = r.key
      /\ Paged => Len(value) = size /\ \A n \in DOMAIN value : value[n].at = r.from + n
  <2> HIDE DEF r, size
  <2>1. CASE Paged
    <3>1. value = [n \in 1 .. size |-> [key |-> r.key, at |-> r.from + n]]
      BY <2>1
    <3>2. \A n \in 1 .. size : [key |-> r.key, at |-> r.from + n] \in HookRow
      BY <1>3 DEF HookRow
    <3> HIDE DEF value
    <3>3. value \in [1 .. size -> HookRow]
      BY <3>1, <3>2
    <3>4. value \in Seq(HookRow) /\ Len(value) = size /\ DOMAIN value = 1 .. size
      BY <1>3, <3>3
    <3> QED BY <3>1, <3>4
  <2>2. CASE ~Paged
    <3>1. value = <<[key |-> r.key, at |-> version]>> /\ [key |-> r.key, at |-> version] \in HookRow
      BY <1>3, <2>2 DEF HookRow
    <3> QED BY <2>2, <3>1
  <2> QED BY <2>1, <2>2
<1>5. /\ new \in HookRequest /\ new.stale = r.stale /\ new.key = r.key /\ new.from = r.from
      /\ new.append = r.append /\ new.value = value
  <2> HIDE DEF value
  <2> QED BY <1>1, <1>4 DEF HookRequest
<1>6. RequestOK(hook, new) /\ LiveOK(hook, asked, shown, new)
  <2>1. LiveOK(hook, asked, shown, r)
    BY <1>1 DEF RequestsOK
  <2>2. hook = "cursor" => Paged
    BY DEF Paged
  <2>3. r.from + HookPageLimit <= Rows => size = HookPageLimit
    BY <1>1, <1>3
  <2> HIDE DEF value, size, new, r
  <2>4. RequestOK(hook, new)
    BY <1>4, <1>5, <2>2, <2>3 DEF RequestOK
  <2> QED BY <1>5, <2>1, <2>4 DEF LiveOK
<1> HIDE DEF new, value, size
<1>7. /\ requests' \in Seq(HookRequest) /\ DOMAIN requests' = DOMAIN requests /\ requests'[i] = new
      /\ \A j \in DOMAIN requests : j # i => requests'[j] = requests[j]
      /\ \A j \in DOMAIN requests : requests'[j].stale = requests[j].stale
  BY <1>1, <1>2, <1>5
<1>8. RequestsOK'
  BY <1>1, <1>2, <1>6, <1>7 DEF RequestsOK
<1>9. Live => Live'
  BY <1>7 DEF Live
<1> QED BY <1>1, <1>2, <1>7, <1>8, <1>9 DEF HookReadsInv, HookTypes, ShownOK, Fits

\* Where the requests stand once one is taken out.
LEMMA WithoutTaken ==
  ASSUME HookTypes, NEW i \in DOMAIN requests
  PROVE  /\ Without(i) \in Seq(HookRequest)
         /\ DOMAIN Without(i) = 1 .. (Len(requests) - 1)
         /\ \A k \in DOMAIN Without(i) : Without(i)[k] = requests[IF k < i THEN k ELSE k + 1]
<1> DEFINE n == Len(requests)
           front == SubSeq(requests, 1, i - 1)
           back == SubSeq(requests, i + 1, n)
<1>1. requests \in Seq(HookRequest) /\ n \in Nat /\ i \in 1 .. n /\ DOMAIN requests = 1 .. n
  BY DEF HookTypes
<1>2. /\ front \in Seq(HookRequest) /\ Len(front) = i - 1
      /\ \A k \in 1 .. (i - 1) : front[k] = requests[k]
  BY <1>1, SubSeqProperties
<1>3. /\ back \in Seq(HookRequest) /\ Len(back) = n - i
      /\ \A k \in 1 .. (n - i) : back[k] = requests[i + k]
  BY <1>1, SubSeqProperties
<1>4. Without(i) = front \o back
  BY DEF Without
<1> HIDE DEF front, back
<1>5. Without(i) \in Seq(HookRequest) /\ Len(Without(i)) = n - 1
  <2>1. front \o back \in Seq(HookRequest) /\ Len(front \o back) = Len(front) + Len(back)
    BY <1>2, <1>3, ConcatProperties
  <2> QED BY <1>1, <1>2, <1>3, <1>4, <2>1
<1>6. ASSUME NEW k \in 1 .. (n - 1) PROVE Without(i)[k] = requests[IF k < i THEN k ELSE k + 1]
  <2>1. CASE k < i
    <3>1. k \in 1 .. (i - 1)
      BY <1>1, <2>1
    <3>2. (front \o back)[k] = front[k]
      <4>1. \A j \in 1 .. Len(front) + Len(back) :
               (front \o back)[j] = IF j <= Len(front) THEN front[j] ELSE back[j - Len(front)]
        BY <1>2, <1>3, ConcatProperties
      <4>2. k \in 1 .. Len(front) + Len(back) /\ k <= Len(front)
        BY <1>1, <1>2, <1>3, <3>1
      <4> QED BY <4>1, <4>2
    <3> QED BY <1>2, <1>4, <2>1, <3>1, <3>2
  <2>2. CASE ~(k < i)
    <3>1. k - (i - 1) \in 1 .. (n - i) /\ i + (k - (i - 1)) = k + 1
      BY <1>1, <2>2
    <3>2. Without(i)[k] = back[k - (i - 1)]
      <4>1. \A j \in 1 .. Len(front) + Len(back) :
               (front \o back)[j] = IF j <= Len(front) THEN front[j] ELSE back[j - Len(front)]
        BY <1>2, <1>3, ConcatProperties
      <4>2. k \in 1 .. Len(front) + Len(back) /\ ~(k <= Len(front)) /\ k - Len(front) = k - (i - 1)
        BY <1>1, <1>2, <1>3, <2>2
      <4> QED BY <1>4, <4>1, <4>2
    <3> QED BY <1>3, <2>2, <3>1, <3>2
  <2> QED BY <2>1, <2>2
<1> QED BY <1>1, <1>5, <1>6

\* A request leaves: what is asked of the others holds, and a live one stays.
LEMMA TakenKeeps ==
  ASSUME HookTypes, RequestsOK, NEW i \in DOMAIN requests, requests' = Without(i), UNCHANGED <<hook, asked>>,
         requests[i].stale => shown' = shown
  PROVE  /\ requests' \in Seq(HookRequest) /\ RequestsOK'
         /\ requests[i].stale /\ Live => Live'
<1> DEFINE n == Len(requests)
           from(k) == IF k < i THEN k ELSE k + 1
<1>1. n \in Nat /\ i \in 1 .. n /\ DOMAIN requests = 1 .. n
  BY DEF HookTypes
<1>2. /\ requests' \in Seq(HookRequest) /\ DOMAIN requests' = 1 .. (n - 1)
      /\ \A k \in DOMAIN requests' : requests'[k] = requests[from(k)]
  BY WithoutTaken
<1>3. \A k \in DOMAIN requests' : from(k) \in DOMAIN requests /\ from(k) # i
  BY <1>1, <1>2
<1>4. \A j, k \in DOMAIN requests' : from(j) = from(k) => j = k
  BY <1>1, <1>2
<1>5. \A j \in DOMAIN requests : j # i => \E k \in DOMAIN requests' : from(k) = j
  <2>1. ASSUME NEW j \in DOMAIN requests, j # i PROVE \E k \in DOMAIN requests' : from(k) = j
    <3>1. CASE j < i
      BY <1>1, <1>2, <3>1
    <3>2. CASE i < j
      <4>1. j - 1 \in DOMAIN requests' /\ from(j - 1) = j
        BY <1>1, <1>2, <3>2
      <4> QED BY <4>1
    <3> QED BY <1>1, <2>1, <3>1, <3>2
  <2> QED BY <2>1
<1> HIDE DEF from
<1>6. \A k \in DOMAIN requests' : RequestOK(hook, requests'[k]) /\ LiveOK(hook, asked, shown', requests'[k])
  <2> SUFFICES ASSUME NEW k \in DOMAIN requests'
               PROVE  RequestOK(hook, requests'[k]) /\ LiveOK(hook, asked, shown', requests'[k])
    OBVIOUS
  <2>1. requests'[k] = requests[from(k)] /\ from(k) \in DOMAIN requests /\ from(k) # i
    BY <1>2, <1>3
  <2>2. RequestOK(hook, requests[from(k)]) /\ LiveOK(hook, asked, shown, requests[from(k)])
    BY <2>1 DEF RequestsOK
  <2>3. CASE hook = "effect"
    BY <2>1, <2>2, <2>3 DEF LiveOK
  <2>4. CASE requests[i].stale
    BY <2>1, <2>2, <2>4
  <2>5. CASE ~requests[i].stale /\ hook # "effect"
    <3>1. requests[from(k)].stale
      BY <2>1, <2>5 DEF RequestsOK
    <3> QED BY <2>1, <2>2, <3>1 DEF LiveOK
  <2> QED BY <2>3, <2>4, <2>5
<1>7. hook # "effect" => \A j, k \in DOMAIN requests' : ~requests'[j].stale /\ ~requests'[k].stale => j = k
  <2> SUFFICES ASSUME hook # "effect", NEW j \in DOMAIN requests', NEW k \in DOMAIN requests',
                      ~requests'[j].stale, ~requests'[k].stale
               PROVE  j = k
    OBVIOUS
  <2>1. from(j) = from(k)
    BY <1>2, <1>3 DEF RequestsOK
  <2> QED BY <2>1, <1>4
<1>8. RequestsOK'
  BY <1>6, <1>7 DEF RequestsOK
<1>9. requests[i].stale /\ Live => Live'
  BY <1>2, <1>5 DEF Live
<1> QED BY <1>2, <1>8, <1>9

LEMMA AnswerLandsKeeps ==
  ASSUME HookReadsInv, NEW i \in DOMAIN requests, AnswerLands(i)
  PROVE  HookReadsInv'
<1> DEFINE r == requests[i]
<1>1. HookTypes /\ RequestsOK /\ ShownOK /\ r \in HookRequest /\ shown \in Seq(HookRow)
      /\ HookPageLimit \in Nat /\ Rows \in Nat /\ HookPageLimit # 0
  BY ReadConstants DEF HookReadsInv, HookTypes
<1>2. r.read /\ requests' = Without(i) /\ UNCHANGED <<hook, asked, version>>
  BY DEF AnswerLands
<1>3. RequestOK(hook, r) /\ LiveOK(hook, asked, shown, r)
  BY <1>1 DEF RequestsOK
<1>4. CASE r.stale
  <2>1. UNCHANGED <<shown, loading, failed, offset, hasMore, landed>>
    BY <1>4 DEF AnswerLands
  <2>2. requests' \in Seq(HookRequest) /\ RequestsOK' /\ (Live => Live')
    BY <1>1, <1>2, <1>4, <2>1, TakenKeeps
  <2> QED BY <1>1, <1>2, <2>1, <2>2 DEF HookReadsInv, HookTypes, ShownOK, Fits
<1>5. CASE ~r.stale
  <2>1. /\ loading' = FALSE /\ landed' = (landed \/ ~r.append)
        /\ shown' = (IF r.append THEN shown \o r.value ELSE r.value)
        /\ failed' = (failed /\ hook # "effect")
        /\ offset' = IF hook # "cursor" THEN offset
                      ELSE IF r.from + HookPageLimit < Rows THEN r.from + HookPageLimit ELSE 0
        /\ hasMore' = IF hook = "offset" THEN Len(r.value) = HookPageLimit
                       ELSE IF hook = "cursor" THEN r.from + HookPageLimit < Rows ELSE hasMore
    BY <1>5 DEF AnswerLands
  <2>2. r.value \in Seq(HookRow) /\ Len(r.value) \in Nat /\ Len(shown) \in Nat /\ r.from \in Nat
        /\ DOMAIN r.value = 1 .. Len(r.value) /\ DOMAIN shown = 1 .. Len(shown)
        /\ r.append \in BOOLEAN /\ \A n \in DOMAIN r.value : r.value[n].key = r.key
    <3>1. r.value \in Seq(HookRow) /\ r.from \in Nat /\ r.append \in BOOLEAN
      BY <1>1 DEF HookRequest
    <3>2. \A n \in DOMAIN r.value : r.value[n].key = r.key
      BY <1>2, <1>3 DEF RequestOK
    <3> HIDE DEF r
    <3> QED BY <1>1, <3>1, <3>2
  <2>3. /\ shown \o r.value \in Seq(HookRow) /\ Len(shown \o r.value) = Len(shown) + Len(r.value)
        /\ DOMAIN (shown \o r.value) = 1 .. (Len(shown) + Len(r.value))
        /\ \A n \in 1 .. (Len(shown) + Len(r.value)) :
              (shown \o r.value)[n] = IF n <= Len(shown) THEN shown[n] ELSE r.value[n - Len(shown)]
    <3> HIDE DEF r
    <3>1. /\ shown \o r.value \in Seq(HookRow) /\ Len(shown \o r.value) = Len(shown) + Len(r.value)
          /\ \A n \in 1 .. Len(shown) + Len(r.value) :
                (shown \o r.value)[n] = IF n <= Len(shown) THEN shown[n] ELSE r.value[n - Len(shown)]
      BY <1>1, <2>2, ConcatProperties
    <3> QED BY <2>2, <3>1
  <2>4. /\ shown' \in Seq(HookRow)
        /\ offset' \in Nat /\ hasMore' \in BOOLEAN /\ landed' \in BOOLEAN /\ failed' \in BOOLEAN
    <3>1. shown' \in Seq(HookRow)
      BY <1>1, <2>1, <2>2, <2>3
    <3>2. hasMore' \in BOOLEAN
      <4>1. hasMore \in BOOLEAN
        BY <1>1 DEF HookTypes
      <4>2. hook = "offset" => hasMore' = (Len(r.value) = HookPageLimit)
        BY <2>1, Zenon
      <4>3. hook # "offset" /\ hook = "cursor" => hasMore' = (r.from + HookPageLimit < Rows)
        BY <2>1, Zenon
      <4>4. hook # "offset" /\ hook # "cursor" => hasMore' = hasMore
        BY <2>1, Zenon
      <4>5. (Len(r.value) = HookPageLimit) \in BOOLEAN
        OBVIOUS
      <4>6. (r.from + HookPageLimit < Rows) \in BOOLEAN
        BY <1>1, <2>2
      <4>7. hook = "offset" \/ (hook # "offset" /\ hook = "cursor") \/ (hook # "offset" /\ hook # "cursor")
        OBVIOUS
      <4> QED BY <4>1, <4>2, <4>3, <4>4, <4>5, <4>6, <4>7, Zenon
    <3> QED BY <1>1, <2>1, <2>2, <3>1, <3>2 DEF HookTypes
  <2>5. requests' \in Seq(HookRequest) /\ RequestsOK'
    BY <1>1, <1>2, <1>5, TakenKeeps
  <2>6. hook # "offset" \/ asked # NoKey => r.key = asked
    BY <1>3, <1>5 DEF LiveOK
  <2>7. r.key = asked /\ (r.append => Fits) => Fits'
    <3> SUFFICES ASSUME r.key = asked, r.append => Fits, NEW n \in DOMAIN shown'
                 PROVE  shown'[n].key = asked
      BY <1>2 DEF Fits
    <3>1. CASE r.append
      <4>1. n \in 1 .. (Len(shown) + Len(r.value)) /\ shown' = shown \o r.value
        BY <2>1, <2>3, <3>1
      <4>2. CASE n <= Len(shown)
        <5>1. n \in DOMAIN shown /\ shown'[n] = shown[n]
          BY <2>2, <2>3, <4>1, <4>2
        <5> QED BY <3>1, <5>1 DEF Fits
      <4>3. CASE ~(n <= Len(shown))
        <5>1. n - Len(shown) \in DOMAIN r.value /\ shown'[n] = r.value[n - Len(shown)]
          BY <2>2, <2>3, <4>1, <4>3
        <5> QED BY <2>2, <5>1
      <4> QED BY <4>2, <4>3
    <3>2. CASE ~r.append
      BY <2>1, <2>2, <3>2
    <3> QED BY <3>1, <3>2
  <2>8. hook = "cursor" => /\ \A n \in DOMAIN shown' : shown'[n].at = n
                           /\ offset' # 0 => Len(shown') = offset'
    <3> SUFFICES ASSUME hook = "cursor"
                 PROVE  /\ \A n \in DOMAIN shown' : shown'[n].at = n
                        /\ offset' # 0 => Len(shown') = offset'
      OBVIOUS
    <3>1. /\ r.from = IF r.append THEN Len(shown) ELSE 0
          /\ \A n \in DOMAIN r.value : r.value[n].at = r.from + n
          /\ r.from + HookPageLimit <= Rows => Len(r.value) = HookPageLimit
          /\ \A n \in DOMAIN shown : shown[n].at = n
      BY <1>1, <1>2, <1>3, <1>5 DEF LiveOK, RequestOK, ShownOK
    <3>2. offset' # 0 => offset' = r.from + HookPageLimit /\ r.from + HookPageLimit <= Rows
      BY <1>1, <2>1, <2>2
    <3>3. CASE r.append
      <4>1. shown' = shown \o r.value /\ r.from = Len(shown)
        BY <2>1, <3>1, <3>3
      <4>2. ASSUME NEW n \in DOMAIN shown' PROVE shown'[n].at = n
        <5>1. n \in 1 .. (Len(shown) + Len(r.value))
          BY <2>3, <4>1
        <5>2. CASE n <= Len(shown)
          <6>1. n \in DOMAIN shown /\ shown'[n] = shown[n]
            BY <2>2, <2>3, <4>1, <5>1, <5>2
          <6> QED BY <3>1, <6>1
        <5>3. CASE ~(n <= Len(shown))
          <6>1. n - Len(shown) \in DOMAIN r.value /\ shown'[n] = r.value[n - Len(shown)]
                /\ r.from + (n - Len(shown)) = n
            BY <2>2, <2>3, <4>1, <5>1, <5>3
          <6> QED BY <3>1, <6>1
        <5> QED BY <5>2, <5>3
      <4>3. Len(shown') = Len(shown) + Len(r.value)
        BY <2>3, <4>1
      <4>4. offset' # 0 => Len(shown') = offset'
        BY <3>1, <3>2, <4>1, <4>3
      <4> QED BY <4>2, <4>4
    <3>4. CASE ~r.append
      <4>1. shown' = r.value /\ r.from = 0
        BY <2>1, <3>1, <3>4
      <4>2. \A n \in DOMAIN shown' : shown'[n].at = n
        BY <2>2, <3>1, <4>1
      <4>3. offset' # 0 => Len(shown') = offset'
        BY <1>1, <3>1, <3>2, <4>1
      <4> QED BY <4>2, <4>3
    <3> QED BY <3>3, <3>4
  <2>9. hook \in {"keyed", "polled", "effect"} => ~r.append
    BY <1>3, <1>5 DEF LiveOK
  <2>10. ShownOK'
    BY <1>1, <1>2, <2>1, <2>6, <2>7, <2>8, <2>9 DEF ShownOK, HookTypes
  <2> QED BY <1>1, <1>2, <2>1, <2>4, <2>5, <2>10 DEF HookReadsInv, HookTypes
<1> QED BY <1>4, <1>5

LEMMA RequestFailsKeeps ==
  ASSUME HookReadsInv, NEW i \in DOMAIN requests, RequestFails(i)
  PROVE  HookReadsInv'
<1>1. HookTypes /\ RequestsOK /\ ShownOK
  BY DEF HookReadsInv
<1>2. requests' = Without(i) /\ UNCHANGED <<hook, asked, shown, offset, hasMore, version, landed>>
  BY DEF RequestFails
<1>3. requests' \in Seq(HookRequest) /\ RequestsOK' /\ (requests[i].stale /\ Live => Live')
  BY <1>1, <1>2, TakenKeeps
<1>4. CASE requests[i].stale
  BY <1>1, <1>2, <1>3, <1>4 DEF RequestFails, HookReadsInv, HookTypes, ShownOK, Fits
<1>5. CASE ~requests[i].stale
  <2>1. loading' = FALSE /\ failed' = TRUE
    BY <1>5 DEF RequestFails
  <2>2. ShownOK'
    BY <1>1, <1>2, <2>1 DEF ShownOK, Fits
  <2> QED BY <1>1, <1>2, <1>3, <2>1, <2>2 DEF HookReadsInv, HookTypes
<1> QED BY <1>4, <1>5

LEMMA HookReadsKeep == HookReadsInv /\ [HookReadsNext]_hookReadVars => HookReadsInv'
<1> SUFFICES ASSUME HookReadsInv, [HookReadsNext]_hookReadVars PROVE HookReadsInv'
  OBVIOUS
<1>1. ASSUME NEW k \in ReadKey \cup {NoKey}, ArgumentsChange(k) PROVE HookReadsInv'
  <2>1. asked' = k /\ landed' = FALSE /\ UNCHANGED <<hook, version>> /\ landed' \in BOOLEAN /\ 0 \in Nat
    BY <1>1 DEF ArgumentsChange
  <2>2. CASE Keyed /\ FetchKeyed(k, FALSE)
    BY <2>1, <2>2, FetchKeyedKeeps
  <2>3. CASE hook = "effect" /\ FetchEffect(k)
    BY <2>1, <2>3, FetchEffectKeeps
  <2>4. CASE hook = "offset" /\ offset' = 0 /\ FetchPage(k, 0, FALSE)
    BY <2>1, <2>4, FetchPageKeeps
  <2>5. CASE hook = "cursor" /\ FetchList(k)
    BY <2>1, <2>5, FetchListKeeps
  <2> QED BY <1>1, <2>2, <2>3, <2>4, <2>5 DEF ArgumentsChange
<1>2. ASSUME NEW silent \in BOOLEAN, Refetch(silent) PROVE HookReadsInv'
  <2>1. /\ UNCHANGED <<hook, asked, version, landed>> /\ landed' \in BOOLEAN /\ 0 \in Nat
        /\ asked \in ReadKey \cup {NoKey}
    BY <1>2 DEF Refetch, HookReadsInv, HookTypes
  <2>2. CASE Keyed /\ (silent => hook = "polled") /\ FetchKeyed(asked, silent)
    BY <2>1, <2>2, FetchKeyedKeeps
  <2>3. CASE ~silent /\ hook = "offset" /\ offset' = 0 /\ FetchPage(asked, 0, FALSE)
    BY <2>1, <2>3, FetchPageKeeps
  <2> QED BY <1>2, <2>2, <2>3 DEF Refetch
<1>3. CASE ChainChanges
  BY <1>3 DEF ChainChanges, HookReadsInv, HookTypes, RequestsOK, ShownOK, Fits, Live
<1>4. CASE UNCHANGED hookReadVars
  BY <1>4 DEF hookReadVars, HookReadsInv, HookTypes, RequestsOK, ShownOK, Fits, Live
<1>5. CASE LiveTick
  BY <1>5 DEF LiveTick, HookReadsInv, HookTypes, RequestsOK, ShownOK, Fits, Live
<1> QED
  BY <1>1, <1>2, <1>3, <1>4, <1>5, LoadMoreKeeps, NodeAnswersKeeps, AnswerLandsKeeps, RequestFailsKeeps
  DEF HookReadsNext

\* An answer that lands is for the stream asked for: so is the sample it leaves,
\* and a rate made of it and a sample of that stream.
LEMMA TickerLands ==
  ASSUME HookReadsInv, TickerOK, hook = "polled", NEW i \in DOMAIN requests, AnswerLands(i)
  PROVE  TickerOK'
<1> DEFINE r == requests[i]
<1>1. r \in HookRequest /\ RequestOK(hook, r) /\ LiveOK(hook, asked, shown, r) /\ shown \in Seq(HookRow)
  BY DEF HookReadsInv, HookTypes, RequestsOK
<1>2. r.read /\ UNCHANGED <<hook, asked, switched>>
  BY DEF AnswerLands
<1>3. CASE r.stale
  <2>1. UNCHANGED <<shown, rate, ahead>>
    BY <1>3 DEF AnswerLands
  <2> QED BY <1>2, <2>1 DEF TickerOK, Fits
<1>4. CASE ~r.stale
  <2>1. r.key = asked /\ ~r.append /\ r.key \in ReadKey
    BY <1>1, <1>4 DEF LiveOK, HookRequest
  <2>2. shown' = r.value /\ ahead' = {} /\ rate' \in RatesAfter(r.key)
    BY <1>4, <2>1 DEF AnswerLands
  <2>3. asked # NoKey
    BY <2>1, ReadConstants
  <2>4. Fits'
    BY <1>1, <1>2, <2>1, <2>2 DEF RequestOK, Fits
  <2> HIDE DEF r
  <2>5. CASE switched
    BY <1>2, <2>3, <2>5 DEF TickerOK
  <2>6. CASE ~switched
    <3>1. Fits /\ rate \subseteq {asked}
      BY <2>6 DEF TickerOK
    <3>2. shown # <<>> => shown[1].key = asked
      <4>1. shown # <<>> => 1 \in DOMAIN shown
        BY <1>1
      <4> QED BY <3>1, <4>1 DEF Fits
    <3>3. rate' \subseteq {asked}
      BY <2>1, <2>2, <3>1, <3>2 DEF RatesAfter
    <3> QED BY <1>2, <2>2, <2>3, <2>4, <3>3 DEF TickerOK
  <2> QED BY <2>5, <2>6
<1> QED BY <1>3, <1>4

LEMMA TickerKeeps == HookReadsInv /\ TickerOK /\ [HookReadsNext]_hookReadVars => TickerOK'
<1> SUFFICES ASSUME HookReadsInv, TickerOK, [HookReadsNext]_hookReadVars, hook' = "polled" PROVE TickerOK'
  BY DEF TickerOK
<1>1. ASSUME UNCHANGED <<hook, asked, shown, tickerVars>> PROVE TickerOK'
  BY <1>1 DEF TickerOK, Fits, tickerVars
<1>2. ASSUME NEW k \in ReadKey \cup {NoKey}, ArgumentsChange(k) PROVE TickerOK'
  <2>1. hook = "polled" /\ asked' = k /\ FetchKeyed(k, FALSE)
        /\ switched' = (k # NoKey /\ (switched \/ asked # NoKey))
    BY <1>2 DEF ArgumentsChange
  <2>2. CASE k = NoKey
    BY <2>1, <2>2 DEF FetchKeyed, TickerOK, Fits
  <2>3. CASE k # NoKey /\ (switched \/ asked # NoKey)
    BY <2>1, <2>3 DEF TickerOK
  <2>4. CASE k # NoKey /\ ~switched /\ asked = NoKey
    <3>1. shown' = <<>> /\ rate' = {} /\ ahead' = {}
      BY <2>1, <2>4 DEF FetchKeyed, TickerOK
    <3> QED BY <2>1, <2>4, <3>1 DEF TickerOK, Fits
  <2> QED BY <2>2, <2>3, <2>4
<1>3. ASSUME NEW silent \in BOOLEAN, Refetch(silent) PROVE TickerOK'
  <2>1. hook = "polled" /\ FetchKeyed(asked, silent) /\ UNCHANGED <<hook, asked, switched>>
    BY <1>3 DEF Refetch
  <2>2. CASE asked = NoKey
    BY <2>1, <2>2 DEF FetchKeyed, TickerOK, Fits
  <2>3. CASE asked # NoKey
    BY <2>1, <2>3 DEF FetchKeyed, TickerOK, Fits
  <2> QED BY <2>2, <2>3
<1>4. CASE LiveTick
  BY <1>4 DEF LiveTick, TickerOK, Fits
<1>5. ASSUME NEW i \in DOMAIN requests, AnswerLands(i) PROVE TickerOK'
  <2>1. hook = "polled"
    BY <1>5 DEF AnswerLands
  <2> QED BY <1>5, <2>1, TickerLands
<1>6. ASSUME NEW i \in DOMAIN requests, NodeAnswers(i) \/ RequestFails(i) PROVE TickerOK'
  BY <1>1, <1>6 DEF NodeAnswers, RequestFails
<1>7. CASE PollBalance \/ LoadMoreByOffset \/ LoadMoreByCursor
  BY <1>7 DEF PollBalance, LoadMoreByOffset, LoadMoreByCursor
<1>8. CASE ChainChanges \/ UNCHANGED hookReadVars
  BY <1>1, <1>8 DEF ChainChanges, hookReadVars
<1> QED BY <1>2, <1>3, <1>4, <1>5, <1>6, <1>7, <1>8 DEF HookReadsNext

\* However late an answer comes, a hook that is not loading and reports no
\* error shows what its arguments name, useStreamList its rows once each, and
\* useWithdrawableAmount an amount taken ahead at a rate of that stream, unless it
\* was asked for one stream straight after another.
THEOREM AlwaysShownAsAsked == HookReadsSpec => []ShownAsAsked
<1>1. HookReadsInit => TickerOK
  <2> SUFFICES ASSUME HookReadsInit PROVE TickerOK
    OBVIOUS
  <2>1. shown = <<>> /\ DOMAIN shown = {} /\ rate = {} /\ ahead = {}
    BY DEF HookReadsInit
  <2> QED BY <2>1 DEF TickerOK, Fits
<1>2. HookReadsInv /\ TickerOK /\ [HookReadsNext]_hookReadVars => (HookReadsInv /\ TickerOK)'
  BY HookReadsKeep, TickerKeeps
<1> QED BY <1>1, <1>2, HookReadsStart, HookReadsImply, PTL DEF HookReadsSpec

-----------------------------------------------------------------------------
(* Hooks that send a transaction                                           *)

ShownStream == [key : MutKey \cup {NoMutKey}, changed : BOOLEAN]
MutationCall == [key : MutKey, at : {"running", "done", "failed"}, to : Receiver \cup {NoReceiver},
                 previous : ShownStream, chunk : Nat]

MutationTypes ==
    /\ form \in {"plain", "optimistic", "clawback", "transfer", "chunks"}
    /\ mounted \in MutKey \cup {NoMutKey}
    /\ calls \in Seq(MutationCall)
    /\ told \in [pending : BOOLEAN, failed : BOOLEAN, of : Nat, clawed : BOOLEAN]
    /\ snapshot \in ShownStream
    /\ awaited \in BOOLEAN /\ alone \in BOOLEAN
    /\ inFlight \in Nat
    /\ pendingRecipient \in Receiver \cup {NoReceiver}

ToldOK ==
    /\ told.pending => Len(calls) \in Running
    /\ told.of # 0 => /\ told.of \in DOMAIN calls /\ calls[told.of].at = "done"
                      /\ form = "chunks" => calls[told.of].chunk = ChunkTotal
    /\ told.clawed => told.pending \/ told.of # 0

\* inFlightRef.current is the one clawback under way, and only the transfer
\* hook ever has a recipient to confirm.
JoinedOK ==
    /\ form = "clawback" => Running \subseteq {inFlight}
    /\ pendingRecipient # NoReceiver => form = "transfer"

ChangeOf(k) == \E i \in DOMAIN calls : calls[i].key = k /\ calls[i].at = "done"
Exact == [key |-> mounted, changed |-> ChangeOf(mounted)]

\* While a call runs alone, it keeps the stream as it was and shows its outcome.
OptimismOK ==
    form = "optimistic" /\ alone =>
        /\ awaited => Running = {}
        /\ Running = {} /\ ~awaited /\ snapshot # Empty => snapshot = Exact
        /\ \A i \in Running :
              /\ Running = {i} /\ calls[i].key = mounted
              /\ calls[i].previous = Empty => snapshot = Empty
              /\ calls[i].previous # Empty => /\ calls[i].previous = Exact
                                              /\ snapshot.key = mounted /\ snapshot.changed

MutationsInv == MutationTypes /\ ToldOK /\ JoinedOK /\ OptimismOK

LEMMA MutationsStart == MutationsInit => MutationsInv
<1> SUFFICES ASSUME MutationsInit PROVE MutationsInv
  OBVIOUS
<1>1. calls = <<>> /\ calls \in Seq(MutationCall) /\ DOMAIN calls = {} /\ Running = {}
  <2>1. calls = <<>>
    BY DEF MutationsInit
  <2> QED BY <2>1 DEF Running
<1>2. MutationTypes
  BY <1>1 DEF MutationsInit, MutationTypes, Idle, Empty, ShownStream
<1> QED BY <1>1, <1>2 DEF MutationsInit, MutationsInv, ToldOK, JoinedOK, OptimismOK, Idle

LEMMA MutationsImply == MutationsInv => MutationsTruthful
<1> SUFFICES ASSUME MutationsInv PROVE MutationsTruthful
  OBVIOUS
<1>1. ToldTruthfully
  BY DEF MutationsInv, ToldOK, ToldTruthfully
<1>2. OneClawback
  <2> SUFFICES ASSUME form = "clawback" PROVE Cardinality(Running) <= 1
    BY DEF OneClawback
  <2>1. Running = {} \/ Running = {inFlight}
    BY DEF MutationsInv, JoinedOK
  <2>2. Cardinality({}) = 0 /\ Cardinality({inFlight}) = 1
    BY FS_EmptySet, FS_Singleton
  <2> QED BY <2>1, <2>2
<1>3. OptimismSettles
  BY DEF MutationsInv, OptimismOK, OptimismSettles, Exact, ChangeOf
<1> QED BY <1>1, <1>2, <1>3 DEF MutationsTruthful

\* A call is sent: the new one is the last, those before it are as they were.
LEMMA StartAdds ==
  ASSUME MutationTypes, NEW to \in Receiver \cup {NoReceiver}, Start(to)
  PROVE  /\ calls' \in Seq(MutationCall) /\ Len(calls') = Len(calls) + 1
         /\ Len(calls) + 1 \notin DOMAIN calls
         /\ DOMAIN calls' = DOMAIN calls \cup {Len(calls) + 1}
         /\ \A i \in DOMAIN calls : calls'[i] = calls[i]
         /\ calls'[Len(calls) + 1] = [key |-> mounted, at |-> "running", to |-> to,
                                      previous |-> snapshot, chunk |-> 0]
         /\ Running' = Running \cup {Len(calls) + 1}
<1> DEFINE new == [key |-> mounted, at |-> "running", to |-> to, previous |-> snapshot, chunk |-> 0]
<1>1. new \in MutationCall /\ calls' = Append(calls, new) /\ calls \in Seq(MutationCall)
  BY DEF MutationTypes, MutationCall, Start
<1>2. new.at = "running"
  OBVIOUS
<1> HIDE DEF new
<1>3. /\ calls' \in Seq(MutationCall) /\ Len(calls') = Len(calls) + 1 /\ Len(calls) \in Nat
      /\ DOMAIN calls = 1 .. Len(calls) /\ DOMAIN calls' = 1 .. (Len(calls) + 1)
      /\ \A i \in DOMAIN calls : calls'[i] = calls[i]
      /\ calls'[Len(calls) + 1] = new
  BY <1>1
<1>4. DOMAIN calls' = DOMAIN calls \cup {Len(calls) + 1} /\ Len(calls) + 1 \notin DOMAIN calls
  BY <1>3
<1>5. Running' = Running \cup {Len(calls) + 1}
  BY <1>2, <1>3, <1>4 DEF Running
<1> QED BY <1>3, <1>4, <1>5 DEF new

LEMMA StartTells ==
  ASSUME MutationsInv, NEW to \in Receiver \cup {NoReceiver}, Start(to)
  PROVE  ToldOK' /\ told' \in [pending : BOOLEAN, failed : BOOLEAN, of : Nat, clawed : BOOLEAN]
<1>1. Len(calls') \in Running'
  BY StartAdds DEF MutationsInv
<1>2. told' = [pending |-> TRUE, failed |-> FALSE, of |-> 0, clawed |-> form = "clawback"]
  BY DEF Start, Idle
<1>3. (form = "clawback") \in BOOLEAN
  OBVIOUS
<1> QED BY <1>1, <1>2, <1>3 DEF ToldOK

\* A call is answered: it is no longer among those that run, the others are.
LEMMA SettledLeaves ==
  ASSUME MutationTypes, NEW i \in DOMAIN calls, NEW how \in {"done", "failed"}, CallSettles(i, how)
  PROVE  /\ calls' \in Seq(MutationCall) /\ Len(calls') = Len(calls) /\ DOMAIN calls' = DOMAIN calls
         /\ i \in Running /\ Running' = Running \ {i}
         /\ \A j \in DOMAIN calls : j # i => calls'[j] = calls[j]
         /\ calls'[i].key = calls[i].key /\ calls'[i].at = how
         /\ how = "done" /\ form = "chunks" => calls'[i].chunk = calls[i].chunk + 1
<1> DEFINE new == calls'[i]
           chunk == IF how = "done" /\ form = "chunks" THEN calls[i].chunk + 1 ELSE calls[i].chunk
<1>1. calls[i] \in MutationCall /\ calls[i].at = "running" /\ calls \in Seq(MutationCall)
  BY DEF MutationTypes, CallSettles
<1>2. /\ calls' = [[calls EXCEPT ![i].at = how] EXCEPT ![i].chunk = chunk]
      /\ chunk \in Nat /\ (how = "done" /\ form = "chunks" => chunk = calls[i].chunk + 1)
  BY <1>1 DEF CallSettles, MutationCall
<1> HIDE DEF chunk
<1>3. /\ DOMAIN calls' = DOMAIN calls /\ \A j \in DOMAIN calls : j # i => calls'[j] = calls[j]
      /\ calls'[i] = [[calls[i] EXCEPT !.at = how] EXCEPT !.chunk = chunk]
  BY <1>1, <1>2
<1>4. new \in MutationCall /\ new.key = calls[i].key /\ new.at = how /\ new.chunk = chunk
  BY <1>1, <1>2, <1>3 DEF MutationCall
<1> HIDE DEF new
<1>5. calls' = [calls EXCEPT ![i] = new]
  BY <1>1, <1>2, <1>3 DEF new
<1>6. /\ calls' \in Seq(MutationCall) /\ Len(calls') = Len(calls) /\ DOMAIN calls' = DOMAIN calls
      /\ calls'[i] = new /\ \A j \in DOMAIN calls : j # i => calls'[j] = calls[j]
  BY <1>1, <1>4, <1>5
<1>7. i \in Running /\ Running' = Running \ {i}
  BY <1>1, <1>4, <1>6 DEF Running
<1> QED BY <1>2, <1>4, <1>6, <1>7

LEMMA MountedForKeeps ==
  ASSUME MutationsInv, NEW k \in MutKey \cup {NoMutKey}, MountedFor(k)
  PROVE  MutationsInv'
<1>1. MutationTypes /\ ToldOK /\ JoinedOK
  BY DEF MutationsInv
<1>2. /\ mounted' = k /\ awaited' = (form = "optimistic" /\ k # NoMutKey)
      /\ snapshot' = (IF k = NoMutKey THEN Empty ELSE snapshot)
      /\ alone' = (Running = {})
      /\ UNCHANGED <<pendingRecipient, form, calls, told, inFlight>>
  BY DEF MountedFor
<1>3. Running' = Running
  BY <1>2 DEF Running
<1>4. snapshot' \in ShownStream
  BY <1>1, <1>2 DEF MutationTypes, Empty, ShownStream
<1>5. MutationTypes'
  BY <1>1, <1>2, <1>4 DEF MutationTypes
<1>6. OptimismOK'
  <2> SUFFICES ASSUME form' = "optimistic", alone' PROVE OptimismOK'
    BY DEF OptimismOK
  <2>1. Running' = {}
    BY <1>2, <1>3
  <2>2. awaited' \/ snapshot' = Empty
    BY <1>2
  <2> QED BY <2>1, <2>2 DEF OptimismOK, Empty
<1>7. ToldOK' /\ JoinedOK'
  BY <1>1, <1>2, <1>3 DEF ToldOK, JoinedOK
<1> QED BY <1>5, <1>6, <1>7 DEF MutationsInv

LEMMA StreamLoadsKeeps ==
  ASSUME MutationsInv, StreamLoads
  PROVE  MutationsInv'
<1>1. MutationTypes /\ ToldOK /\ JoinedOK /\ OptimismOK
  BY DEF MutationsInv
<1>2. /\ awaited /\ awaited' = FALSE
      /\ UNCHANGED <<pendingRecipient, form, mounted, calls, told, inFlight>>
  BY DEF StreamLoads
<1>3. (snapshot' = Exact /\ UNCHANGED alone) \/ (UNCHANGED snapshot /\ alone' = FALSE)
  BY DEF StreamLoads, Exact, ChangeOf
<1>4. Running' = Running /\ Exact' = Exact
  BY <1>2 DEF Running, Exact, ChangeOf
<1>5. Exact \in ShownStream
  BY <1>1 DEF Exact, ChangeOf, MutationTypes, ShownStream
<1>6. MutationTypes'
  BY <1>1, <1>2, <1>3, <1>5 DEF MutationTypes
<1>7. OptimismOK'
  BY <1>1, <1>2, <1>3, <1>4 DEF OptimismOK
<1>8. ToldOK' /\ JoinedOK'
  BY <1>1, <1>2, <1>4 DEF ToldOK, JoinedOK
<1> QED BY <1>6, <1>7, <1>8 DEF MutationsInv

\* What is told or pending changes; the calls and what they did do not.
LEMMA TellingKeeps ==
  ASSUME MutationsInv, MutateRefused \/ ResetMutation \/ CancelTransfer
                       \/ \E r \in Receiver : InitiateTransfer(r)
  PROVE  MutationsInv'
<1>1. MutationTypes /\ ToldOK /\ JoinedOK /\ OptimismOK
  BY DEF MutationsInv
<1>2. UNCHANGED <<form, mounted, calls, snapshot, awaited, inFlight, alone>>
  BY DEF MutateRefused, ResetMutation, CancelTransfer, InitiateTransfer
<1>3. Running' = Running /\ Exact' = Exact
  BY <1>2 DEF Running, Exact, ChangeOf
<1>4. told' = told \/ told' = [told EXCEPT !.failed = TRUE] \/ told' = Idle \/ told' = [Idle EXCEPT !.failed = TRUE]
  BY DEF MutateRefused, ResetMutation, CancelTransfer, InitiateTransfer
<1>5. ToldOK' /\ told' \in [pending : BOOLEAN, failed : BOOLEAN, of : Nat, clawed : BOOLEAN]
  <2>1. told \in [pending : BOOLEAN, failed : BOOLEAN, of : Nat, clawed : BOOLEAN]
    BY <1>1 DEF MutationTypes
  <2>2. told' \in [pending : BOOLEAN, failed : BOOLEAN, of : Nat, clawed : BOOLEAN]
    <3>1. Idle \in [pending : BOOLEAN, failed : BOOLEAN, of : Nat, clawed : BOOLEAN]
      BY DEF Idle
    <3>2. \A t \in [pending : BOOLEAN, failed : BOOLEAN, of : Nat, clawed : BOOLEAN] :
             [t EXCEPT !.failed = TRUE] \in [pending : BOOLEAN, failed : BOOLEAN, of : Nat, clawed : BOOLEAN]
      OBVIOUS
    <3> QED BY <1>4, <2>1, <3>1, <3>2, Zenon
  <2>3. \/ ~told'.pending /\ told'.of = 0 /\ ~told'.clawed
        \/ told'.pending = told.pending /\ told'.of = told.of /\ told'.clawed = told.clawed
    BY <1>4, <2>1 DEF Idle
  <2> QED BY <1>1, <1>2, <1>3, <2>2, <2>3 DEF ToldOK
<1>6. JoinedOK' /\ pendingRecipient' \in Receiver \cup {NoReceiver}
  BY <1>1, <1>2, <1>3 DEF MutateRefused, ResetMutation, CancelTransfer, InitiateTransfer, JoinedOK, MutationTypes
<1>7. OptimismOK'
  BY <1>1, <1>2, <1>3 DEF OptimismOK
<1> QED BY <1>1, <1>2, <1>5, <1>6, <1>7 DEF MutationsInv, MutationTypes

LEMMA MutateKeeps ==
  ASSUME MutationsInv, Mutate
  PROVE  MutationsInv'
<1> DEFINE n == Len(calls) + 1
<1>1. MutationTypes /\ ToldOK /\ JoinedOK /\ OptimismOK
  BY DEF MutationsInv
<1>2. /\ form # "clawback" \/ inFlight = 0
      /\ Start(NoReceiver)
      /\ snapshot' = (IF form = "optimistic" /\ snapshot # Empty
                      THEN [snapshot EXCEPT !.changed = TRUE] ELSE snapshot)
      /\ inFlight' = (IF form = "clawback" THEN n ELSE inFlight)
      /\ UNCHANGED pendingRecipient
  BY DEF Mutate
<1>3. /\ calls' \in Seq(MutationCall) /\ n \notin DOMAIN calls /\ DOMAIN calls' = DOMAIN calls \cup {n}
      /\ \A i \in DOMAIN calls : calls'[i] = calls[i]
      /\ calls'[n] = [key |-> mounted, at |-> "running", to |-> NoReceiver, previous |-> snapshot, chunk |-> 0]
      /\ Running' = Running \cup {n} /\ n \in Nat
  <2>1. Len(calls) \in Nat
    BY <1>1 DEF MutationTypes
  <2>2. NoReceiver \in Receiver \cup {NoReceiver} /\ Start(NoReceiver)
    BY <1>2
  <2>3. /\ calls' \in Seq(MutationCall) /\ Len(calls) + 1 \notin DOMAIN calls
        /\ DOMAIN calls' = DOMAIN calls \cup {Len(calls) + 1}
        /\ \A i \in DOMAIN calls : calls'[i] = calls[i]
        /\ calls'[Len(calls) + 1] = [key |-> mounted, at |-> "running", to |-> NoReceiver,
                                     previous |-> snapshot, chunk |-> 0]
        /\ Running' = Running \cup {Len(calls) + 1}
    BY <1>1, <2>2, StartAdds, Zenon
  <2> QED BY <2>1, <2>3
<1>4. ToldOK' /\ told' \in [pending : BOOLEAN, failed : BOOLEAN, of : Nat, clawed : BOOLEAN]
  BY <1>2, StartTells
<1>5. /\ UNCHANGED <<form, mounted, awaited>>
      /\ alone' = (alone /\ Running = {} /\ ~awaited)
  BY <1>2 DEF Start
<1> HIDE DEF n
<1>6. snapshot' \in ShownStream /\ MutationTypes'
  <2>1. snapshot' \in ShownStream
    BY <1>1, <1>2 DEF MutationTypes, ShownStream
  <2> QED BY <1>1, <1>2, <1>3, <1>4, <1>5, <2>1 DEF MutationTypes
<1>7. JoinedOK'
  <2>1. ASSUME form = "clawback" PROVE Running' \subseteq {inFlight'}
    <3>1. Running = {}
      <4>1. 0 \notin DOMAIN calls
        BY <1>1 DEF MutationTypes
      <4> QED BY <1>1, <1>2, <2>1, <4>1 DEF JoinedOK, Running
    <3> QED BY <1>2, <1>3, <2>1, <3>1
  <2> QED BY <1>1, <1>2, <1>5, <2>1 DEF JoinedOK
<1>8. OptimismOK'
  <2> SUFFICES ASSUME form = "optimistic", alone, Running = {}, ~awaited PROVE OptimismOK'
    BY <1>1, <1>5 DEF OptimismOK, MutationTypes
  <2>1. Running' = {n} /\ ~awaited'
    BY <1>3, <1>5
  <2>2. Exact' = Exact
    <3>1. ChangeOf(mounted)' = ChangeOf(mounted)
      BY <1>3, <1>5 DEF ChangeOf
    <3> QED BY <1>5, <3>1 DEF Exact
  <2>3. calls'[n].key = mounted /\ calls'[n].previous = snapshot
    BY <1>3
  <2>4. snapshot = Empty => snapshot' = Empty
    BY <1>2
  <2>5. snapshot # Empty => snapshot = Exact /\ snapshot'.key = mounted /\ snapshot'.changed
    <3> SUFFICES ASSUME snapshot # Empty
                 PROVE  snapshot = Exact /\ snapshot'.key = mounted /\ snapshot'.changed
      OBVIOUS
    <3>1. snapshot = Exact /\ snapshot' = [snapshot EXCEPT !.changed = TRUE] /\ snapshot \in ShownStream
      BY <1>1, <1>2 DEF OptimismOK, MutationTypes
    <3>2. snapshot.key = mounted
      BY <3>1 DEF Exact
    <3> QED BY <3>1, <3>2 DEF ShownStream
  <2> QED BY <1>5, <2>1, <2>2, <2>3, <2>4, <2>5 DEF OptimismOK
<1> QED BY <1>4, <1>6, <1>7, <1>8 DEF MutationsInv

\* A confirmation with no stream is refused, as a call is.
LEMMA ConfirmTransferKeeps ==
  ASSUME MutationsInv, NEW r \in Receiver, ConfirmTransfer(r)
  PROVE  MutationsInv'
<1>1. MutationTypes /\ ToldOK /\ JoinedOK /\ form = "transfer"
  BY DEF MutationsInv, JoinedOK, ConfirmTransfer
<1>2. pendingRecipient' = NoReceiver /\ UNCHANGED <<snapshot, inFlight>>
  BY DEF ConfirmTransfer
<1>3. CASE Start(r)
  <2>1. /\ calls' \in Seq(MutationCall) /\ ToldOK'
        /\ told' \in [pending : BOOLEAN, failed : BOOLEAN, of : Nat, clawed : BOOLEAN]
    BY <1>1, <1>3, StartAdds, StartTells
  <2>2. UNCHANGED <<form, mounted, awaited>> /\ alone' \in BOOLEAN
    BY <1>3 DEF Start
  <2> QED BY <1>1, <1>2, <2>1, <2>2 DEF MutationsInv, MutationTypes, JoinedOK, OptimismOK
<1>4. CASE ~Start(r)
  <2>1. told' = [Idle EXCEPT !.failed = TRUE] /\ UNCHANGED <<form, mounted, calls, awaited, alone>>
    BY <1>4 DEF ConfirmTransfer
  <2> QED BY <1>1, <1>2, <2>1 DEF MutationsInv, MutationTypes, ToldOK, JoinedOK, OptimismOK, Idle
<1> QED BY <1>3, <1>4

LEMMA ChunkResolvesKeeps ==
  ASSUME MutationsInv, NEW i \in DOMAIN calls, ChunkResolves(i)
  PROVE  MutationsInv'
<1>1. MutationTypes /\ ToldOK /\ JoinedOK /\ form = "chunks"
  BY DEF MutationsInv, ChunkResolves
<1>2. UNCHANGED <<pendingRecipient, form, mounted, told, snapshot, awaited, inFlight, alone>>
  BY DEF ChunkResolves
<1> DEFINE new == [calls[i] EXCEPT !.chunk = calls[i].chunk + 1]
<1>3. /\ calls \in Seq(MutationCall) /\ calls[i] \in MutationCall /\ calls[i].at = "running"
      /\ calls' = [calls EXCEPT ![i] = new]
  BY <1>1 DEF MutationTypes, ChunkResolves
<1>4. new \in MutationCall /\ new.at = "running"
  <2>1. calls[i] \in MutationCall /\ calls[i].at = "running"
    BY <1>3
  <2>2. \A c \in MutationCall : [c EXCEPT !.chunk = c.chunk + 1] \in MutationCall
                                /\ [c EXCEPT !.chunk = c.chunk + 1].at = c.at
    BY DEF MutationCall
  <2> QED BY <2>1, <2>2
<1> HIDE DEF new
<1>5. /\ calls' \in Seq(MutationCall) /\ Len(calls') = Len(calls) /\ DOMAIN calls' = DOMAIN calls
      /\ calls'[i] = new /\ \A j \in DOMAIN calls : j # i => calls'[j] = calls[j]
  BY <1>3, <1>4
<1>6. Running' = Running
  BY <1>3, <1>4, <1>5 DEF Running
<1>7. ToldOK'
  <2>1. told.of # i
    BY <1>1, <1>3 DEF ToldOK
  <2> QED BY <1>1, <1>2, <1>5, <1>6, <2>1 DEF ToldOK
<1> QED BY <1>1, <1>2, <1>5, <1>7 DEF MutationsInv, MutationTypes, JoinedOK, OptimismOK

\* The clawback that is answered was the one under way.
LEMMA SettledJoined ==
  ASSUME MutationsInv, NEW i \in DOMAIN calls, NEW how \in {"done", "failed"}, CallSettles(i, how)
  PROVE  JoinedOK' /\ inFlight' \in Nat
<1>1. i \in Running /\ Running' = Running \ {i}
  BY SettledLeaves DEF MutationsInv
<1>2. inFlight' = (IF form = "clawback" THEN 0 ELSE inFlight) /\ UNCHANGED <<pendingRecipient, form>>
  BY DEF CallSettles
<1>3. JoinedOK /\ inFlight \in Nat
  BY DEF MutationsInv, MutationTypes
<1>4. form = "clawback" => Running' = {}
  BY <1>1, <1>3 DEF JoinedOK
<1> QED BY <1>2, <1>3, <1>4 DEF JoinedOK

LEMMA MutationResolvesKeeps ==
  ASSUME MutationsInv, NEW i \in DOMAIN calls, MutationResolves(i)
  PROVE  MutationsInv'
<1>1. MutationTypes /\ ToldOK /\ OptimismOK
  BY DEF MutationsInv
<1>2. /\ form = "chunks" => calls[i].chunk = ChunkTotal - 1
      /\ CallSettles(i, "done") /\ "done" \in {"done", "failed"}
      /\ told' = [pending |-> FALSE, failed |-> FALSE, of |-> i, clawed |-> form = "clawback"]
      /\ UNCHANGED <<snapshot, pendingRecipient, form, mounted, awaited, alone>>
  BY DEF MutationResolves, CallSettles, Idle
<1>3. /\ calls' \in Seq(MutationCall) /\ DOMAIN calls' = DOMAIN calls
      /\ i \in Running /\ Running' = Running \ {i}
      /\ calls'[i].key = calls[i].key /\ calls'[i].at = "done"
      /\ form = "chunks" => calls'[i].chunk = calls[i].chunk + 1
  BY <1>1, <1>2, SettledLeaves
<1>4. i \in Nat /\ i # 0
  BY <1>1 DEF MutationTypes
<1>5. told' \in [pending : BOOLEAN, failed : BOOLEAN, of : Nat, clawed : BOOLEAN]
  <2>1. (form = "clawback") \in BOOLEAN
    OBVIOUS
  <2> QED BY <1>2, <1>4, <2>1
<1>6. ToldOK'
  <2>1. form = "chunks" => calls'[i].chunk = ChunkTotal
    BY <1>2, <1>3, MutationConstants
  <2> QED BY <1>2, <1>3, <1>4, <2>1 DEF ToldOK
<1>7. JoinedOK' /\ inFlight' \in Nat
  BY <1>2, SettledJoined
<1>8. OptimismOK'
  <2> SUFFICES ASSUME form = "optimistic", alone PROVE OptimismOK'
    BY <1>2 DEF OptimismOK
  <2>1. /\ Running = {i} /\ calls[i].key = mounted /\ ~awaited /\ Running' = {}
        /\ calls[i].previous = Empty => snapshot = Empty
        /\ calls[i].previous # Empty => snapshot.key = mounted /\ snapshot.changed
    BY <1>1, <1>3 DEF OptimismOK, MutationTypes
  <2>2. ChangeOf(mounted)' /\ mounted' = mounted /\ mounted \in MutKey \cup {NoMutKey}
    BY <1>1, <1>2, <1>3, <2>1 DEF ChangeOf, MutationTypes
  <2>3. Exact' \in ShownStream /\ Exact'.key = mounted /\ Exact'.changed
    BY <2>2 DEF Exact, ShownStream, ChangeOf
  <2>4. snapshot # Empty => snapshot = Exact'
    <3>1. snapshot \in ShownStream
      BY <1>1 DEF MutationTypes
    <3> HIDE DEF Exact
    <3> QED BY <2>1, <2>3, <3>1 DEF ShownStream
  <2> QED BY <1>2, <2>1, <2>4 DEF OptimismOK
<1> QED BY <1>1, <1>2, <1>3, <1>5, <1>6, <1>7, <1>8 DEF MutationsInv, MutationTypes

\* The stream is put back as it was when the call was sent.
LEMMA MutationRejectsKeeps ==
  ASSUME MutationsInv, NEW i \in DOMAIN calls, MutationRejects(i)
  PROVE  MutationsInv'
<1>1. MutationTypes /\ ToldOK /\ OptimismOK
  BY DEF MutationsInv
<1>2. /\ CallSettles(i, "failed") /\ "failed" \in {"done", "failed"}
      /\ told' = [pending |-> FALSE, failed |-> TRUE, of |-> 0, clawed |-> FALSE]
      /\ snapshot' = (IF form = "optimistic" /\ calls[i].previous # Empty
                      THEN calls[i].previous ELSE snapshot)
      /\ UNCHANGED <<pendingRecipient, form, mounted, awaited, alone>>
  BY DEF MutationRejects, CallSettles, Idle
<1>3. /\ calls' \in Seq(MutationCall) /\ DOMAIN calls' = DOMAIN calls
      /\ i \in Running /\ Running' = Running \ {i}
      /\ \A j \in DOMAIN calls : j # i => calls'[j] = calls[j]
      /\ calls'[i].at = "failed"
  BY <1>1, <1>2, SettledLeaves
<1>4. calls[i] \in MutationCall /\ snapshot \in ShownStream
  BY <1>1 DEF MutationTypes
<1>5. snapshot' \in ShownStream
  BY <1>2, <1>4 DEF MutationCall
<1>6. ToldOK' /\ told' \in [pending : BOOLEAN, failed : BOOLEAN, of : Nat, clawed : BOOLEAN]
  BY <1>2 DEF ToldOK
<1>7. JoinedOK' /\ inFlight' \in Nat
  BY <1>2, SettledJoined
<1>8. OptimismOK'
  <2> SUFFICES ASSUME form = "optimistic", alone PROVE OptimismOK'
    BY <1>2 DEF OptimismOK
  <2>1. /\ Running = {i} /\ calls[i].key = mounted /\ ~awaited /\ Running' = {}
        /\ calls[i].previous = Empty => snapshot = Empty
        /\ calls[i].previous # Empty => calls[i].previous = Exact
    BY <1>1, <1>3 DEF OptimismOK, MutationTypes
  <2>2. Exact' = Exact
    <3>1. calls[i].at = "running"
      BY <1>3 DEF Running
    <3>2. ChangeOf(mounted)' = ChangeOf(mounted)
      BY <1>2, <1>3, <3>1 DEF ChangeOf
    <3> QED BY <1>2, <3>2 DEF Exact
  <2>3. snapshot' # Empty => snapshot' = Exact'
    BY <1>2, <2>1, <2>2
  <2> QED BY <1>2, <2>1, <2>3 DEF OptimismOK
<1> QED BY <1>1, <1>2, <1>3, <1>5, <1>6, <1>7, <1>8 DEF MutationsInv, MutationTypes

LEMMA MutationsKeep == MutationsInv /\ [MutationsNext]_mutationVars => MutationsInv'
<1> SUFFICES ASSUME MutationsInv, [MutationsNext]_mutationVars PROVE MutationsInv'
  OBVIOUS
<1>1. CASE UNCHANGED mutationVars
  BY <1>1 DEF mutationVars, MutationsInv, MutationTypes, ToldOK, JoinedOK, OptimismOK, Running, Exact, ChangeOf
<1> QED
  BY <1>1, MountedForKeeps, StreamLoadsKeeps, TellingKeeps, MutateKeeps, ChunkResolvesKeeps,
     MutationResolvesKeeps, MutationRejectsKeeps, ConfirmTransferKeeps
  DEF MutationsNext

\* Whatever overlaps, a hook that sends tells of a call that ran to its end, two
\* clicks send one clawback, and an outcome shown early is the one that came.
THEOREM MutationsAlwaysTruthful == MutationsSpec => []MutationsTruthful
BY MutationsStart, MutationsKeep, MutationsImply, PTL DEF MutationsSpec

-----------------------------------------------------------------------------
(* The wallet of a client                                                  *)

Holder == {"streams", "streamsFactory", "tokens", "factory"}
Found == {"unasked", "asked", "up", "down"}

FacadeTypes ==
    /\ clientStep \in {"unbuilt", "built", "refused"}
    /\ attached \in Adapter \cup {NoAdapter}
    /\ holders \in [Holder -> Adapter \cup {NoAdapter, KeypairAdapter, NotBuilt}]
    /\ health \in [rpc : Found, indexer : Found]

\* Before a client is built nobody calls it, and its health check builds what it asks.
FacadeInv ==
    /\ FacadeTypes
    /\ clientStep # "built" => lastCall.by = NoAdapter
    /\ health.rpc # "unasked" \/ health.indexer # "unasked" =>
          clientStep = "built" /\ holders["factory"] # NotBuilt
    /\ OneWallet

LEMMA WalletsDistinct ==
  /\ NoAdapter \notin Adapter /\ KeypairAdapter \notin Adapter /\ NotBuilt \notin Adapter
  /\ NotBuilt # NoAdapter /\ NotBuilt # KeypairAdapter
<1>1. /\ NoAdapter \notin Adapter /\ KeypairAdapter \notin Adapter /\ NotBuilt \notin Adapter
      /\ Cardinality({NoAdapter, KeypairAdapter, NotBuilt}) = 3
  BY FacadeAssumption
<1>2. ASSUME NEW a, NEW b PROVE Cardinality({a, b}) <= 2
  <2>1. IsFiniteSet({b}) /\ Cardinality({b}) = 1
    BY FS_Singleton
  <2>2. {b} \cup {a} = {a, b}
    OBVIOUS
  <2>3. Cardinality({b} \cup {a}) = IF a \in {b} THEN Cardinality({b}) ELSE Cardinality({b}) + 1
    BY <2>1, FS_AddElement
  <2> QED BY <2>1, <2>2, <2>3
<1>3. NotBuilt = NoAdapter => {NoAdapter, KeypairAdapter, NotBuilt} = {KeypairAdapter, NotBuilt}
  OBVIOUS
<1>4. NotBuilt = KeypairAdapter => {NoAdapter, KeypairAdapter, NotBuilt} = {NoAdapter, NotBuilt}
  OBVIOUS
<1>5. Cardinality({KeypairAdapter, NotBuilt}) <= 2 /\ Cardinality({NoAdapter, NotBuilt}) <= 2
  BY <1>2
<1> QED BY <1>1, <1>3, <1>4, <1>5

LEMMA FacadeStart == FacadeInit => FacadeInv
BY DEF FacadeInit, FacadeInv, FacadeTypes, Holder, Found, OneWallet, NoCall

LEMMA ActiveIsWallet ==
  ASSUME NEW w \in Adapter \cup {NoAdapter}
  PROVE  Active(w) \in Adapter \cup {NoAdapter, KeypairAdapter} /\ Active(w) # NotBuilt
BY WalletsDistinct DEF Active

\* The getter of the factory gives it the wallet that the other modules hold.
LEMMA BuiltKeeps ==
  ASSUME FacadeInv, clientStep = "built", holders' = Built(holders),
         UNCHANGED <<settled, clientStep, attached, accepted, lastCall>>,
         health' = health \/ health' = [rpc |-> "asked", indexer |-> "asked"]
  PROVE  FacadeInv'
<1>1. FacadeTypes /\ OneWallet /\ Active(attached)' = Active(attached)
      /\ Active(attached) \in Adapter \cup {NoAdapter, KeypairAdapter} /\ Active(attached) # NotBuilt
  BY ActiveIsWallet DEF FacadeInv, FacadeTypes, Active
<1>2. /\ holders' \in [Holder -> Adapter \cup {NoAdapter, KeypairAdapter, NotBuilt}]
      /\ holders'["streams"] = holders["streams"] /\ holders'["tokens"] = holders["tokens"]
      /\ holders'["streamsFactory"] = holders["streamsFactory"]
      /\ holders'["factory"] = Active(attached)
  BY <1>1 DEF Built, FacadeTypes, OneWallet, Holder
<1>3. {holders'[m] : m \in DOMAIN holders'} \subseteq accepted \cup {NotBuilt}
  BY <1>1, <1>2 DEF OneWallet, FacadeTypes, Holder
<1>4. health' \in [rpc : Found, indexer : Found]
  BY <1>1 DEF FacadeTypes, Found
<1> QED BY <1>1, <1>2, <1>3, <1>4 DEF FacadeInv, FacadeTypes, OneWallet

LEMMA ConstructKeeps ==
  ASSUME FacadeInv, Construct
  PROVE  FacadeInv'
<1>1. FacadeTypes /\ OneWallet /\ Active(attached)' = Active(attached)
      /\ Active(attached) \in Adapter \cup {NoAdapter, KeypairAdapter} /\ Active(attached) # NotBuilt
  BY ActiveIsWallet DEF FacadeInv, FacadeTypes, Active, Construct
<1>2. CASE clientStep' = "built"
  <2>1. /\ holders' = [m \in DOMAIN holders |-> IF m = "factory" THEN NotBuilt ELSE Active(attached)]
        /\ accepted' = {attached, Active(attached)} /\ UNCHANGED <<attached, lastCall, health>>
        /\ clientStep = "unbuilt"
    BY <1>2 DEF Construct
  <2>2. DOMAIN holders = Holder
    BY <1>1 DEF FacadeTypes
  <2>3. holders' \in [Holder -> Adapter \cup {NoAdapter, KeypairAdapter, NotBuilt}]
    BY <1>1, <2>1, <2>2 DEF Holder
  <2>4. {holders'[m] : m \in DOMAIN holders'} \subseteq accepted' \cup {NotBuilt}
    BY <2>1, <2>2
  <2> QED BY <1>1, <1>2, <2>1, <2>2, <2>3, <2>4 DEF FacadeInv, FacadeTypes, OneWallet, Holder
<1>3. CASE clientStep' # "built"
  BY <1>1, <1>3 DEF Construct, FacadeInv, FacadeTypes, OneWallet
<1> QED BY <1>2, <1>3

LEMMA SetWalletKeeps ==
  ASSUME FacadeInv, NEW w \in Adapter, SetWallet(w)
  PROVE  FacadeInv'
<1>1. FacadeTypes /\ OneWallet /\ DOMAIN holders = Holder /\ Active(w) = w /\ Active(attached)' = w
      /\ w # NotBuilt
  BY WalletsDistinct DEF FacadeInv, FacadeTypes, Active, SetWallet
<1>2. /\ attached' = w /\ accepted' = accepted \cup {w} /\ clientStep = "built"
      /\ holders' = [m \in DOMAIN holders |->
                        IF m \in {"streams", "tokens"} \/ (m = "factory" /\ holders[m] # NotBuilt)
                        THEN w ELSE holders[m]]
      /\ UNCHANGED <<clientStep, lastCall, health>>
  BY DEF SetWallet
<1>3. holders' \in [Holder -> Adapter \cup {NoAdapter, KeypairAdapter, NotBuilt}]
  BY <1>1, <1>2 DEF FacadeTypes
<1>4. {holders'[m] : m \in DOMAIN holders'} \subseteq accepted' \cup {NotBuilt}
  <2> SUFFICES ASSUME NEW m \in DOMAIN holders' PROVE holders'[m] \in accepted' \cup {NotBuilt}
    OBVIOUS
  <2>1. m \in DOMAIN holders /\ holders[m] \in accepted \cup {NotBuilt}
    BY <1>1, <1>2 DEF OneWallet
  <2> QED BY <1>2, <2>1
<1>5. /\ holders'["streams"] = w /\ holders'["tokens"] = w /\ holders'["factory"] \in {NotBuilt, w}
      /\ holders["factory"] # NotBuilt => holders'["factory"] # NotBuilt
  BY <1>1, <1>2 DEF Holder
<1> QED BY <1>1, <1>2, <1>3, <1>4, <1>5 DEF FacadeInv, FacadeTypes, OneWallet

LEMMA FacadeKeeps == FacadeInv /\ [FacadeNext]_facadeVars => FacadeInv'
<1> SUFFICES ASSUME FacadeInv, [FacadeNext]_facadeVars PROVE FacadeInv'
  OBVIOUS
<1>1. CASE GetFactory
  BY <1>1, BuiltKeeps DEF GetFactory
<1>2. CASE HealthStarts
  BY <1>2, BuiltKeeps DEF HealthStarts
<1>3. ASSUME NEW w \in Adapter, ChainSwitched(w) PROVE FacadeInv'
  BY <1>3 DEF ChainSwitched, FacadeInv, FacadeTypes, OneWallet, Active
<1>4. ASSUME NEW op \in {"pauseStream", "unpauseStream"}, CallHoisted(op) PROVE FacadeInv'
  <2>1. holders["streams"] \in accepted
    BY <1>4, ActiveIsWallet DEF CallHoisted, FacadeInv, FacadeTypes, OneWallet, Holder
  <2> QED BY <1>4, <2>1 DEF CallHoisted, FacadeInv, FacadeTypes, OneWallet, Active
<1>5. ASSUME NEW endpoint \in {"rpc", "indexer"}, EndpointAnswers(endpoint) PROVE FacadeInv'
  <2>1. /\ health \in [rpc : Found, indexer : Found] /\ health[endpoint] = "asked"
        /\ \E found \in {"up", "down"} : health' = [health EXCEPT ![endpoint] = found]
        /\ UNCHANGED <<settled, clientStep, attached, holders, accepted, lastCall>>
    BY <1>5 DEF EndpointAnswers, FacadeInv, FacadeTypes
  <2>2. health' \in [rpc : Found, indexer : Found]
    BY <2>1 DEF Found
  <2>3. clientStep = "built" /\ holders["factory"] # NotBuilt
    BY <1>5, <2>1 DEF FacadeInv
  <2> QED BY <2>1, <2>2, <2>3 DEF FacadeInv, FacadeTypes, OneWallet, Active
<1>6. CASE UNCHANGED facadeVars
  BY <1>6 DEF facadeVars, FacadeInv, FacadeTypes, OneWallet, Active
<1> QED BY <1>1, <1>2, <1>3, <1>4, <1>5, <1>6, ConstructKeeps, SetWalletKeeps DEF FacadeNext

\* The session of an adapter that is connected is one the wallet has granted.
SessionInv ==
    /\ session \in Topic \cup {NoSession}
    /\ disconnecting \in Topic \cup {NoSession}
    /\ granted \subseteq Topic
    /\ pairingListeners \in Nat
    /\ connecting \in {"no", "pairing", "approval"}
    /\ SessionWatched

LEMMA SessionStart == SessionInit => SessionInv
BY DEF SessionInit, SessionInv, SessionWatched

LEMMA SessionKeeps == SessionInv /\ [SessionNext]_sessionVars => SessionInv'
<1> SUFFICES ASSUME SessionInv, [SessionNext]_sessionVars PROVE SessionInv'
  OBVIOUS
<1> USE DEF SessionInv, SessionWatched, pairingVars, walletVars
<1>1. CASE ConnectWallet
  BY <1>1 DEF ConnectWallet
<1>2. CASE PairingShown \/ PairingExpires \/ PairingFails
  BY <1>2 DEF PairingShown, PairingExpires, PairingFails
<1>3. ASSUME NEW t \in Topic, NEW a \in Accounts, Approved(t, a) PROVE SessionInv'
  BY <1>3 DEF Approved
<1>4. ASSUME NEW t \in Topic, ApprovedTooLate(t) \/ SessionEnds(t) PROVE SessionInv'
  BY <1>4, SessionAssumption DEF ApprovedTooLate, SessionEnds
<1>5. ASSUME NEW t \in Topic, NEW a \in Accounts \cup {"none"}, AccountsChanged(t, a) PROVE SessionInv'
  BY <1>5 DEF AccountsChanged
<1>6. ASSUME NEW t \in Topic \cup {NoSession}, SetSession(t) PROVE SessionInv'
  BY <1>6 DEF SetSession
<1>7. CASE Disconnects \/ DisconnectOver \/ DisconnectedAtWallet
  BY <1>7, SessionAssumption DEF Disconnects, DisconnectOver, DisconnectedAtWallet
<1>8. CASE UNCHANGED sessionVars
  BY <1>8 DEF sessionVars
<1> QED BY <1>1, <1>2, <1>3, <1>4, <1>5, <1>6, <1>7, <1>8 DEF SessionNext

\* In whatever order wallets are set, sessions granted and ended and pairings
\* fail: the modules hold the wallet that is attached, and its session is heard.
THEOREM WalletAlwaysFollowed == ClientWalletSpec => []WalletFollowed
<1>1. FacadeInit /\ SessionInit => FacadeInv /\ SessionInv
  BY FacadeStart, SessionStart
<1>2. FacadeInv /\ SessionInv /\ [\/ FacadeNext /\ UNCHANGED sessionVars
                                  \/ SessionNext /\ UNCHANGED facadeVars]_walletFollowedVars
      => FacadeInv' /\ SessionInv'
  BY FacadeKeeps, SessionKeeps DEF walletFollowedVars
<1>3. FacadeInv /\ SessionInv => WalletFollowed
  BY DEF FacadeInv, SessionInv, WalletFollowed
<1> QED BY <1>1, <1>2, <1>3, PTL DEF ClientWalletSpec

-----------------------------------------------------------------------------
(* The arguments of a new stream                                           *)

StreamTerms ==
    [token : Addresses \cup {"native"}, sender : Addresses, recipient : Addresses,
     amount : Int, text : BOOLEAN, rate : Int, start : Int, end : Int, clawback : Choice]

\* A text has no sign.
WellSaid(terms) == terms \in StreamTerms /\ (terms.text => terms.amount \in Nat)

\* What the builder keeps of what it was told.
AsSettings(terms) == [[terms EXCEPT !.amount = Encoded(terms)] EXCEPT !.text = FALSE]

RequestInv ==
    /\ WellSaid(wished) /\ settings = AsSettings(wished)
    /\ today \in Nat
    /\ ArgumentsAsAsked

LEMMA BlankTerms == WellSaid(Blank) /\ AsSettings(Blank) = Blank
<1>1. Blank \in StreamTerms /\ ~Blank.text
  BY DEF Blank, StreamTerms, Addresses, Choice, Nobody, Unsaid
<1>2. Encoded(Blank) = Blank.amount
  BY <1>1 DEF Encoded
<1>3. AsSettings(Blank) = Blank
  <2>1. AsSettings(Blank) = [[Blank EXCEPT !.amount = Blank.amount] EXCEPT !.text = FALSE]
    BY <1>2 DEF AsSettings
  <2>2. [Blank EXCEPT !.amount = Blank.amount] = Blank
    BY <1>1 DEF StreamTerms
  <2>3. [Blank EXCEPT !.text = FALSE] = Blank
    BY <1>1 DEF StreamTerms
  <2> QED BY <2>1, <2>2, <2>3
<1> QED BY <1>1, <1>3 DEF WellSaid

LEMMA ConfigTerms ==
  ASSUME NEW c \in Configs
  PROVE  WellSaid(c) /\ (c.start = Unsaid \/ c.start \in Nat)
<1>1. Number \subseteq Int /\ 0 .. MaxGrains \subseteq Nat /\ Moment \subseteq {Unsaid} \cup Nat /\ Unsaid \in Int
  BY RequestAssumption DEF Number, Moment, Unsaid, Fraction
<1> DEFINE Terms(amounts, text) ==
             [token : {"contract", "native"}, sender : {"account"}, recipient : {"account", Nobody},
              amount : amounts, text : {text}, rate : Number, start : Moment, end : Moment,
              clawback : Choice]
<1>2. c \in Terms(Number, FALSE) \/ c \in Terms(0 .. MaxGrains, TRUE)
  BY DEF Configs
<1>3. ASSUME NEW amounts \in SUBSET Int, NEW text \in BOOLEAN, c \in Terms(amounts, text)
      PROVE  /\ c \in StreamTerms /\ c.text = text /\ c.amount \in amounts
             /\ c.start = Unsaid \/ c.start \in Nat
  <2>1. {"contract", "native"} \subseteq Addresses \cup {"native"} /\ {"account", Nobody} \subseteq Addresses
    BY DEF Addresses
  <2>2. /\ c.token \in {"contract", "native"} /\ c.sender \in {"account"}
        /\ c.recipient \in {"account", Nobody} /\ c.amount \in amounts /\ c.text \in {text}
        /\ c.rate \in Number /\ c.start \in Moment /\ c.end \in Moment /\ c.clawback \in Choice
        /\ c = [token |-> c.token, sender |-> c.sender, recipient |-> c.recipient,
                amount |-> c.amount, text |-> c.text, rate |-> c.rate, start |-> c.start,
                end |-> c.end, clawback |-> c.clawback]
    BY <1>3
  <2> HIDE DEF Terms
  <2>3. c.amount \in Int /\ c.rate \in Int /\ c.start \in Int /\ c.end \in Int
    BY <1>1, <2>2
  <2>4. c \in StreamTerms
    BY <1>3, <2>1, <2>2, <2>3 DEF StreamTerms
  <2> QED BY <1>1, <2>2, <2>4
<1> HIDE DEF Terms
<1>4. CASE c \in Terms(Number, FALSE)
  BY <1>1, <1>3, <1>4 DEF WellSaid
<1>5. CASE c \in Terms(0 .. MaxGrains, TRUE)
  <2>1. 0 .. MaxGrains \in SUBSET Int /\ TRUE \in BOOLEAN
    BY <1>1
  <2>2. /\ c \in StreamTerms /\ c.amount \in 0 .. MaxGrains
        /\ c.start = Unsaid \/ c.start \in Nat
    BY <1>3, <1>5, <2>1
  <2> QED BY <1>1, <2>2 DEF WellSaid
<1> QED BY <1>2, <1>4, <1>5

\* The text of a whole number of tokens is that number, and any other is none.
LEMMA WholeTokens ==
  ASSUME NEW n \in Nat, NEW g \in Nat \ {0}
  PROVE  /\ n \div g \in Nat
         /\ n % g = 0 => (n \div g) * g = n
<1>1. n \div g \in Nat /\ n % g \in Nat /\ n = (g * (n \div g)) + (n % g)
  BY SMT
<1> DEFINE q == n \div g
<1> HIDE DEF q
<1>2. q \in Nat /\ (n % g = 0 => n = g * q)
  BY <1>1 DEF q
<1>3. g * q = q * g
  BY <1>2
<1> QED BY <1>2, <1>3 DEF q

LEMMA EncodedWhole ==
  ASSUME NEW terms, WellSaid(terms)
  PROVE  /\ Encoded(terms) \in Int
         /\ ~terms.text => Encoded(terms) = terms.amount
         /\ terms.text => \/ Encoded(terms) = Fraction
                          \/ Encoded(terms) \in Nat /\ Encoded(terms) * TokenGrains = terms.amount
<1>1. terms.amount \in Int /\ terms.text \in BOOLEAN /\ Fraction \in Int
  BY DEF WellSaid, StreamTerms, Fraction
<1>2. CASE ~terms.text
  BY <1>1, <1>2 DEF Encoded
<1>3. CASE terms.text
  <2>1. terms.amount \in Nat /\ TokenGrains \in Nat \ {0}
    BY <1>3, RequestAssumption DEF WellSaid
  <2>2. CASE terms.amount % TokenGrains = 0
    <3>1. Encoded(terms) = terms.amount \div TokenGrains
      BY <1>3, <2>2 DEF Encoded
    <3> DEFINE q == terms.amount \div TokenGrains
    <3>2. q \in Nat /\ q * TokenGrains = terms.amount
      BY <2>1, <2>2, WholeTokens
    <3> HIDE DEF q
    <3>3. Encoded(terms) = q
      BY <3>1 DEF q
    <3> QED BY <1>3, <3>2, <3>3
  <2>3. CASE terms.amount % TokenGrains # 0
    BY <1>1, <1>3, <2>3 DEF Encoded
  <2> QED BY <2>2, <2>3
<1> QED BY <1>1, <1>2, <1>3

LEMMA AsSettingsIs ==
  ASSUME NEW terms, WellSaid(terms)
  PROVE  /\ AsSettings(terms) \in StreamTerms /\ AsSettings(terms).amount = Encoded(terms) /\ ~AsSettings(terms).text
         /\ \A field \in DOMAIN terms \ {"amount", "text"} : AsSettings(terms)[field] = terms[field]
         /\ DOMAIN AsSettings(terms) = DOMAIN terms
BY EncodedWhole DEF AsSettings, WellSaid, StreamTerms

\* No request is made: what was asked of the last one is as it was, or forgotten.
LEMMA NoRequestKeeps ==
  ASSUME WellSaid(wished'), settings' = AsSettings(wished'), today' \in Nat,
         made' = NoRequest \/ (ArgumentsAsAsked /\ made' = made)
  PROVE  RequestInv'
BY DEF RequestInv, ArgumentsAsAsked, AsSettings, WellSaid, Encoded

\* A setter but for the deposit leaves the text of the deposit.
LEMMA PutKeeps ==
  ASSUME RequestInv, NEW field \in DOMAIN wished \ {"amount", "text"}, NEW v, Put(field, v),
         [wished EXCEPT ![field] = v] \in StreamTerms
  PROVE  RequestInv'
<1>1. /\ WellSaid(wished) /\ settings = AsSettings(wished) /\ today' \in Nat /\ made' = NoRequest
      /\ settings' = [settings EXCEPT ![field] = v]
      /\ wished' = [[wished EXCEPT ![field] = v] EXCEPT !.text = (wished.text /\ field # "amount")]
  BY DEF RequestInv, Put
<1>2. wished.text \in BOOLEAN /\ (wished.text => wished.amount \in Nat) /\ wished \in StreamTerms
  BY <1>1 DEF WellSaid, StreamTerms
<1>3. wished' = [wished EXCEPT ![field] = v]
  <2>1. (wished.text /\ field # "amount") = wished.text
    BY <1>2
  <2> QED BY <1>1, <1>2, <2>1 DEF StreamTerms
<1>4. wished'.amount = wished.amount /\ wished'.text = wished.text
  BY <1>2, <1>3 DEF StreamTerms
<1>5. WellSaid(wished')
  BY <1>2, <1>3, <1>4 DEF WellSaid
<1>6. Encoded(wished') = Encoded(wished)
  BY <1>4 DEF Encoded
<1>7. settings' = AsSettings(wished')
  BY <1>1, <1>2, <1>3, <1>6 DEF AsSettings, StreamTerms
<1> QED BY <1>1, <1>5, <1>7, NoRequestKeeps

\* The deposit itself, which is then no text.
LEMMA PutAmountKeeps ==
  ASSUME RequestInv, NEW v \in Int, Put("amount", v)
  PROVE  RequestInv'
<1>1. /\ WellSaid(wished) /\ settings = AsSettings(wished) /\ today' \in Nat /\ made' = NoRequest
      /\ settings' = [settings EXCEPT !.amount = v]
      /\ wished' = [[wished EXCEPT !.amount = v] EXCEPT !.text = FALSE]
  BY DEF RequestInv, Put
<1>2. wished \in StreamTerms
  BY <1>1 DEF WellSaid
<1>3. wished' \in StreamTerms /\ wished'.text = FALSE /\ wished'.amount = v
  BY <1>1, <1>2 DEF StreamTerms
<1>4. WellSaid(wished') /\ Encoded(wished') = v
  BY <1>3 DEF WellSaid, Encoded
<1>5. settings' = AsSettings(wished')
  BY <1>1, <1>2, <1>4 DEF AsSettings, StreamTerms
<1> QED BY <1>1, <1>4, <1>5, NoRequestKeeps

\* toStroops() and calculateRate() are the nearest, to half of one.
LEMMA HalfUpNearest ==
  ASSUME NEW n \in Nat, NEW d \in Nat \ {0}
  PROVE  HalfUp(n, d) \in Nat /\ 2 * (HalfUp(n, d) * d - n) \in -d .. d
<1> DEFINE q == HalfUp(n, d)
           p == q * d
<1>1. /\ q \in Nat /\ (2 * d) * q <= 2 * n + d /\ 2 * n + d < (2 * d) * q + 2 * d
  <2>1. \A a \in Nat, b \in Nat \ {0} :
           a \div b \in Nat /\ b * (a \div b) <= a /\ a < b * (a \div b) + b
    OBVIOUS
  <2>2. 2 * n + d \in Nat /\ 2 * d \in Nat \ {0}
    OBVIOUS
  <2> QED BY <2>1, <2>2 DEF HalfUp
<1> HIDE DEF q
<1>2. (2 * d) * q = 2 * p /\ p \in Int
  BY <1>1
<1> HIDE DEF p
<1>3. 2 * (p - n) \in -d .. d
  BY <1>1, <1>2
<1> QED BY <1>1, <1>3 DEF p, q

LEMMA ToContractArgsKeeps ==
  ASSUME RequestInv, ToContractArgs
  PROVE  RequestInv'
<1> DEFINE args == [[[settings EXCEPT !.start = Given(settings.start, today)]
                        EXCEPT !.end = Given(settings.end, 0)] EXCEPT !.clawback = Said(settings.clawback)]
<1>1. /\ WellSaid(wished) /\ settings = AsSettings(wished) /\ today \in Nat
      /\ UNCHANGED <<settings, wished, today>>
      /\ made' = [route |-> "builder", asked |-> wished, args |-> args]
      /\ settings.amount # Fraction
  BY DEF RequestInv, ToContractArgs
<1>2. /\ settings \in StreamTerms /\ settings.amount = Encoded(wished)
      /\ \A field \in {"token", "sender", "recipient", "rate", "start", "end", "clawback"} :
            settings[field] = wished[field]
  BY <1>1, AsSettingsIs DEF WellSaid, StreamTerms
<1>3. /\ args.sender = wished.sender /\ args.recipient = wished.recipient /\ args.token = wished.token
      /\ args.amount = Encoded(wished) /\ args.rate = wished.rate /\ args.end = Given(wished.end, 0)
      /\ args.clawback = Said(wished.clawback)
      /\ args.start = Given(wished.start, today)
  BY <1>2 DEF StreamTerms
<1> HIDE DEF args
<1>4. made'.route = "builder" /\ made'.asked = wished /\ made'.args = args
  BY <1>1
<1>5. DepositAsAsked("builder", wished, args)
  <2>1. args.amount # Unsaid
    BY <1>2, <1>3 DEF ToContractArgs, Missing
  <2> QED BY <1>1, <1>2, <1>3, <2>1, EncodedWhole DEF DepositAsAsked
<1>6. ArgumentsAsAsked'
  BY <1>3, <1>4, <1>5 DEF ArgumentsAsAsked, Given
<1> QED BY <1>1, <1>6 DEF RequestInv

LEMMA ExecuteItemKeeps ==
  ASSUME RequestInv, NEW c \in Configs, ExecuteItem(c)
  PROVE  RequestInv'
<1> DEFINE args == [[[[[c EXCEPT !.amount = Encoded(c)] EXCEPT !.text = FALSE]
                        EXCEPT !.start = Given(c.start, 0)]
                        EXCEPT !.end = Given(c.end, 0)] EXCEPT !.clawback = Said(c.clawback)]
<1>1. WellSaid(c) /\ c \in StreamTerms /\ UNCHANGED <<settings, wished, today>>
      /\ made' = [route |-> "batcher", asked |-> c, args |-> args]
      /\ Encoded(c) # Fraction
  BY ConfigTerms DEF ExecuteItem, WellSaid
<1>2. /\ args.sender = c.sender /\ args.recipient = c.recipient /\ args.token = c.token
      /\ args.amount = Encoded(c) /\ args.rate = c.rate /\ args.end = Given(c.end, 0)
      /\ args.clawback = Said(c.clawback)
      /\ args.start = Given(c.start, 0)
  BY <1>1 DEF StreamTerms
<1> HIDE DEF args
<1>3. made'.route = "batcher" /\ made'.asked = c /\ made'.args = args
  BY <1>1
<1>4. DepositAsAsked("batcher", c, args)
  BY <1>1, <1>2, EncodedWhole DEF DepositAsAsked
<1>5. ArgumentsAsAsked'
  BY <1>2, <1>3, <1>4 DEF ArgumentsAsAsked, Given
<1> QED BY <1>1, <1>5 DEF RequestInv

\* The end is the start and the duration, and there is a rate or a duration.
LEMMA CreateStreamKeeps ==
  ASSUME RequestInv, NEW c \in Configs, NEW d \in Duration, CreateStream(c, d)
  PROVE  RequestInv'
<1> DEFINE from == Given(c.start, today)
           units == HalfUp(c.amount, UnitGrains)
           end == IF d # Unsaid THEN from + d ELSE 0
           perSecond == IF c.rate # Unsaid THEN c.rate ELSE HalfUp(units, d)
           token == IF c.token = "native" THEN "contract" ELSE c.token
           asked0 == [c EXCEPT !.end = IF d = Unsaid THEN 0 ELSE from + d]
           args == [[[[[[[c EXCEPT !.token = token] EXCEPT !.amount = units] EXCEPT !.text = FALSE]
                       EXCEPT !.rate = perSecond] EXCEPT !.start = from]
                       EXCEPT !.end = end] EXCEPT !.clawback = Said(c.clawback)]
<1>1. /\ WellSaid(c) /\ c \in StreamTerms /\ UNCHANGED <<settings, wished, today>> /\ today \in Nat
      /\ made' = [route |-> "create", asked |-> asked0, args |-> args]
      /\ c.rate # Unsaid \/ d # Unsaid
      /\ c.text
  BY ConfigTerms DEF CreateStream, ValidParameters, RequestInv, WellSaid
<1>2. from \in Nat /\ (d = Unsaid \/ d \in Nat \ {0})
  BY <1>1, ConfigTerms, RequestAssumption DEF Given, Duration
<1>3. end \in Int /\ end = (IF d = Unsaid THEN 0 ELSE from + d) /\ Given(end, 0) = end
  BY <1>2 DEF Given, Unsaid
<1>4. d # Unsaid => end - from = d /\ end > from
  BY <1>2
<1>5. units \in Nat /\ 2 * (units * UnitGrains - c.amount) \in -UnitGrains .. UnitGrains
  <2>1. c.amount \in Nat /\ UnitGrains \in Nat \ {0}
    BY <1>1, RequestAssumption DEF WellSaid
  <2> QED BY <2>1, HalfUpNearest
<1> HIDE DEF from, end, perSecond, token, units
<1>6. /\ asked0.sender = c.sender /\ asked0.recipient = c.recipient /\ asked0.token = c.token
      /\ asked0.amount = c.amount /\ asked0.text /\ asked0.rate = c.rate /\ asked0.end = end
      /\ asked0.clawback = c.clawback /\ asked0.start = c.start
  BY <1>1, <1>3 DEF StreamTerms
<1>7. /\ args.sender = c.sender /\ args.recipient = c.recipient /\ args.token = token
      /\ args.amount = units /\ args.rate = perSecond /\ args.end = end
      /\ args.clawback = Said(c.clawback) /\ args.start = from
  BY <1>1 DEF StreamTerms
<1> HIDE DEF asked0, args
<1>8. made'.route = "create" /\ made'.asked = asked0 /\ made'.args = args
  BY <1>1
<1>9. c.token # "native" => token = c.token
  BY DEF token
<1>10. c.rate # Unsaid => perSecond = c.rate
  BY DEF perSecond
<1>11. c.start # Unsaid => from = c.start
  BY DEF from, Given
<1>12. end # 0 => end > from
  BY <1>3, <1>4
<1>13. c.rate = Unsaid => 2 * (perSecond * (end - from) - units) \in -(end - from) .. (end - from)
  <2> SUFFICES ASSUME c.rate = Unsaid
               PROVE  2 * (perSecond * (end - from) - units) \in -(end - from) .. (end - from)
    OBVIOUS
  <2>1. d # Unsaid /\ d \in Nat \ {0}
    BY <1>1, <1>2
  <2>2. perSecond = HalfUp(units, d) /\ end - from = d
    BY <1>4, <2>1 DEF perSecond
  <2> QED BY <1>5, <2>1, <2>2, HalfUpNearest
<1>14. DepositAsAsked("create", asked0, args)
  <2>1. units # Unsaid
    BY <1>5 DEF Unsaid
  <2> QED BY <1>5, <1>6, <1>7, <2>1 DEF DepositAsAsked
<1>15. ArgumentsAsAsked'
  BY <1>3, <1>6, <1>7, <1>8, <1>9, <1>10, <1>11, <1>12, <1>13, <1>14 DEF ArgumentsAsAsked
<1> QED BY <1>1, <1>15 DEF RequestInv

\* A setter that accepts what it is given puts it into the terms.
LEMMA SettersKeep ==
  ASSUME RequestInv, NEW field, NEW v,
         \/ field \in {"token", "sender", "recipient"} /\ v \in Addresses /\ SetAddress(field, v)
         \/ field \in {"rate", "start", "end"} /\ v \in Int /\ Put(field, v)
         \/ field = "clawback" /\ v \in Choice /\ Put(field, v)
  PROVE  RequestInv'
<1>1. wished \in StreamTerms /\ Put(field, v) /\ field \in DOMAIN wished \ {"amount", "text"}
  BY DEF RequestInv, WellSaid, SetAddress, StreamTerms
<1>2. [wished EXCEPT ![field] = v] \in StreamTerms
  BY <1>1 DEF StreamTerms
<1> QED BY <1>1, <1>2, PutKeeps

LEMMA RequestsKeep == RequestInv /\ [RequestNext]_requestVars => RequestInv'
<1> SUFFICES ASSUME RequestInv, [RequestNext]_requestVars PROVE RequestInv'
  OBVIOUS
<1>1. WellSaid(wished) /\ settings = AsSettings(wished) /\ today \in Nat /\ ArgumentsAsAsked
  BY DEF RequestInv
<1>2. ASSUME NEW field \in {"token", "sender", "recipient"}, NEW a \in Addresses, SetAddress(field, a)
      PROVE  RequestInv'
  BY <1>2, SettersKeep
<1>3. ASSUME NEW v \in Number, SetAmount(v) \/ SetRatePerSecond(v) PROVE RequestInv'
  <2>1. v \in Int
    BY RequestAssumption DEF Number, Unsaid, Fraction
  <2>2. CASE SetAmount(v)
    BY <2>1, <2>2, PutAmountKeeps DEF SetAmount
  <2>3. CASE SetRatePerSecond(v)
    BY <2>1, <2>3, SettersKeep DEF SetRatePerSecond
  <2> QED BY <1>3, <2>2, <2>3
<1>4. ASSUME NEW v \in 0 .. MaxStart, SetStartTime(v) \/ SetEndTime(v) PROVE RequestInv'
  <2>1. v \in Int /\ \E field \in {"start", "end"} : Put(field, v)
    BY <1>4, RequestAssumption DEF SetStartTime, SetEndTime
  <2> QED BY <2>1, SettersKeep
<1>5. ASSUME NEW choice \in {"yes", "no"},
             SetClawbackEnabled(choice) \/ SetCancelable(choice) \/ SetClawbackable(choice)
      PROVE  RequestInv'
  <2>1. choice \in Choice
    BY DEF Choice
  <2>2. CASE SetClawbackEnabled(choice)
    BY <2>1, <2>2, SettersKeep DEF SetClawbackEnabled
  <2>3. CASE SetCancelable(choice)
    BY <1>1, <2>3, NoRequestKeeps DEF SetCancelable
  <2>4. CASE SetClawbackable(choice)
    <3>1. settings' = [settings EXCEPT !.clawback = choice] /\ wished' = [wished EXCEPT !.clawback = choice]
          /\ made' = NoRequest /\ today' = today
      BY <2>4 DEF SetClawbackable
    <3>2. wished \in StreamTerms
      BY <1>1 DEF WellSaid
    <3>3. wished' \in StreamTerms /\ wished'.amount = wished.amount /\ wished'.text = wished.text
      BY <2>1, <3>1, <3>2 DEF StreamTerms
    <3>4. WellSaid(wished') /\ Encoded(wished') = Encoded(wished)
      BY <1>1, <3>3 DEF WellSaid, Encoded
    <3>5. settings' = AsSettings(wished')
      BY <1>1, <3>1, <3>2, <3>4 DEF AsSettings, StreamTerms
    <3> QED BY <1>1, <3>1, <3>4, <3>5, NoRequestKeeps
  <2> QED BY <1>5, <2>2, <2>3, <2>4
<1>6. CASE CloneBuilder \/ RequestTick \/ UNCHANGED requestVars
  BY <1>1, <1>6, NoRequestKeeps DEF CloneBuilder, RequestTick, requestVars
<1>7. CASE ResetBuilder
  BY <1>1, <1>7, BlankTerms, NoRequestKeeps DEF ResetBuilder
<1>8. ASSUME NEW c \in Configs, NEW d \in Duration, FromConfig(c, d) PROVE RequestInv'
  <2> DEFINE end == IF c.end = Unsaid /\ d # Unsaid /\ c.start # Unsaid THEN c.start + d ELSE c.end
  <2>1. WellSaid(c) /\ c \in StreamTerms /\ d \in Int
    BY ConfigTerms, RequestAssumption DEF Duration, Unsaid, WellSaid
  <2>2. end \in Int
    BY <2>1 DEF StreamTerms
  <2>3. /\ wished' = [c EXCEPT !.end = end] /\ made' = NoRequest /\ today' = today
        /\ settings' = [[[c EXCEPT !.end = end] EXCEPT !.amount = Encoded(c)] EXCEPT !.text = FALSE]
    BY <1>8 DEF FromConfig
  <2> HIDE DEF end
  <2>4. wished' \in StreamTerms /\ wished'.amount = c.amount /\ wished'.text = c.text
    BY <2>1, <2>2, <2>3 DEF StreamTerms
  <2>5. WellSaid(wished') /\ Encoded(wished') = Encoded(c)
    BY <2>1, <2>4 DEF WellSaid, Encoded
  <2>6. settings' = AsSettings(wished')
    BY <2>3, <2>5 DEF AsSettings
  <2> QED BY <1>1, <2>3, <2>5, <2>6, NoRequestKeeps
<1> QED
  BY <1>2, <1>3, <1>4, <1>5, <1>6, <1>7, <1>8, ToContractArgsKeeps, ExecuteItemKeeps, CreateStreamKeeps
  DEF RequestNext

LEMMA RequestStart == RequestInit => RequestInv
BY BlankTerms DEF RequestInit, RequestInv, ArgumentsAsAsked

\* Whichever way the arguments of create_stream are made, for any amounts and
\* texts of any places, times and durations, they say what was asked, but for the
\* text and the missing deposit that the property excepts, and the rate spreads the
\* deposit.
THEOREM ArgumentsAlwaysAsAsked == RequestSpec => []ArgumentsAsAsked
BY RequestStart, RequestsKeep, PTL DEF RequestSpec, RequestInv

-----------------------------------------------------------------------------
(* The heap of a page                                                      *)

Row == [id : Int, at : Nat, status : Statuses]
Lower(rows, m, n) == IsLowerPriority(rows, m, n)
Places(rows) == 1 .. Len(rows)

\* No two rows have the same priority.
LEMMA PrioritiesOrder ==
  ASSUME NEW rows \in Seq(Row)
  PROVE  /\ \A m \in Places(rows) : ~Lower(rows, m, m)
         /\ \A m, n \in Places(rows) : m # n => Lower(rows, m, n) \/ Lower(rows, n, m)
         /\ \A m, n \in Places(rows) : Lower(rows, m, n) => ~Lower(rows, n, m)
         /\ \A l, m, n \in Places(rows) : Lower(rows, l, m) /\ Lower(rows, m, n) => Lower(rows, l, n)
<1> DEFINE at(n) == rows[n].at
<1>1. \A n \in Places(rows) : n \in Nat /\ at(n) \in Nat
  <2>1. \A n \in Places(rows) : n \in Nat /\ rows[n] \in Row
    BY DEF Places
  <2> QED BY <2>1 DEF Row
<1>2. \A m, n : Lower(rows, m, n) <=> at(m) < at(n) \/ (at(m) = at(n) /\ m > n)
  BY DEF Lower, IsLowerPriority
<1> HIDE DEF at
<1> QED BY <1>1, <1>2

Distinct(h) == \A i, j \in 1 .. Len(h) : h[i] = h[j] => i = j
Members(h) == {h[i] : i \in 1 .. Len(h)}
HeapOf(rows, h) == h \in Seq(Places(rows)) /\ Distinct(h)
Ordered(rows, h) == \A j \in 2 .. Len(h) : Lower(rows, h[j \div 2], h[j])

LEMMA ParentIs ==
  ASSUME NEW j \in Nat, j >= 2
  PROVE  j \div 2 \in Nat /\ j \div 2 >= 1 /\ j \div 2 < j
OBVIOUS

LEMMA ChildrenAre ==
  ASSUME NEW j \in Nat, NEW i \in Nat, i >= 1
  PROVE  j \div 2 = i <=> j = 2 * i \/ j = 2 * i + 1
OBVIOUS

LEMMA SwappedIs ==
  ASSUME NEW rows, NEW h, HeapOf(rows, h), NEW a \in 1 .. Len(h), NEW b \in 1 .. Len(h)
  PROVE  LET g == Swapped(h, a, b)
         IN  /\ HeapOf(rows, g) /\ Len(g) = Len(h) /\ Members(g) = Members(h)
             /\ g[a] = h[b] /\ g[b] = h[a]
             /\ \A j \in 1 .. Len(h) : j # a /\ j # b => g[j] = h[j]
<1> DEFINE g == Swapped(h, a, b)
           S == Places(rows)
           n == Len(h)
<1>1. h \in Seq(S) /\ n \in Nat /\ \A i, j \in 1 .. n : h[i] = h[j] => i = j
  BY DEF HeapOf, Distinct
<1> HIDE DEF S
<1>2. /\ g \in Seq(S) /\ Len(g) = n /\ g[a] = h[b] /\ g[b] = h[a]
      /\ \A j \in 1 .. n : j # a /\ j # b => g[j] = h[j]
  BY <1>1 DEF Swapped
<1> HIDE DEF g, n
<1>3. Distinct(g)
  BY <1>1, <1>2 DEF Distinct, n
<1>4. Members(g) = Members(h)
  <2>1. ASSUME NEW i \in 1 .. n PROVE \E j \in 1 .. n : g[i] = h[j]
    BY <1>2 DEF n
  <2>2. ASSUME NEW i \in 1 .. n PROVE \E j \in 1 .. n : h[i] = g[j]
    BY <1>2 DEF n
  <2>3. Members(g) = {g[i] : i \in 1 .. n} /\ Members(h) = {h[i] : i \in 1 .. n}
    BY <1>2 DEF Members, n
  <2> QED BY <2>1, <2>2, <2>3
<1> QED BY <1>2, <1>3, <1>4 DEF HeapOf, g, n, S

\* In order but for the entry at i, which may be lower than its parent on its way up
\* and higher than what is below it on its way down.
Between(rows, h, i) ==
    \A j \in 2 .. Len(h) : j \div 2 = i /\ i # 1 => Lower(rows, h[i \div 2], h[j])
OnItsWay(rows, h, i, up) ==
    /\ HeapOf(rows, h) /\ i \in 1 .. Len(h)
    /\ \A j \in 2 .. Len(h) : (IF up THEN j # i ELSE j \div 2 # i) => Lower(rows, h[j \div 2], h[j])
    /\ Between(rows, h, i)

Turned(rows, h, i, up) == IF up THEN Raised(rows, h, i) ELSE Lowered(rows, h, i)

LEMMA RaisedIs ==
  ASSUME NEW rows \in Seq(Row), NEW h, NEW i, OnItsWay(rows, h, i, TRUE)
  PROVE  LET s == Raised(rows, h, i)
         IN  \/ s = [heap |-> h, i |-> i] /\ Ordered(rows, h)
             \/ /\ OnItsWay(rows, s.heap, s.i, TRUE) /\ s.i < i
                /\ Len(s.heap) = Len(h) /\ Members(s.heap) = Members(h)
<1> DEFINE p == i \div 2
           g == Swapped(h, i, p)
           n == Len(h)
<1>1. /\ HeapOf(rows, h) /\ n \in Nat /\ i \in 1 .. n
      /\ \A j \in 2 .. n : j # i => Lower(rows, h[j \div 2], h[j])
      /\ \A j \in 2 .. n : j \div 2 = i /\ i # 1 => Lower(rows, h[p], h[j])
  BY DEF OnItsWay, Between, HeapOf
<1>2. CASE i = 1 \/ Lower(rows, h[p], h[i])
  <2>1. Raised(rows, h, i) = [heap |-> h, i |-> i]
    BY <1>2 DEF Raised, Lower
  <2>2. Ordered(rows, h)
    BY <1>1, <1>2 DEF Ordered
  <2> QED BY <2>1, <2>2
<1>3. CASE ~(i = 1 \/ Lower(rows, h[p], h[i]))
  <2>1. Raised(rows, h, i) = [heap |-> g, i |-> p]
    BY <1>3 DEF Raised, Lower
  <2>2. i \in 2 .. n /\ p \in 1 .. n /\ p < i
    BY <1>1, <1>3, ParentIs
  <2>3. /\ HeapOf(rows, g) /\ Len(g) = n /\ Members(g) = Members(h)
        /\ g[i] = h[p] /\ g[p] = h[i]
        /\ \A j \in 1 .. n : j # i /\ j # p => g[j] = h[j]
    <3> HIDE DEF p
    <3> QED BY <1>1, <2>2, SwappedIs
  <2>4. \A j \in 1 .. n : h[j] \in Places(rows)
    BY <1>1 DEF HeapOf
  <2>5. Lower(rows, h[i], h[p])
    <3>1. h[i] # h[p]
      BY <1>1, <2>2 DEF HeapOf, Distinct
    <3> QED BY <1>1, <1>3, <2>2, <2>4, <3>1, PrioritiesOrder
  <2>6. \A j \in 2 .. n : j \in 1 .. n /\ j \div 2 \in 1 .. n /\ j \div 2 < j
    <3> SUFFICES ASSUME NEW j \in 2 .. n PROVE j \in 1 .. n /\ j \div 2 \in 1 .. n /\ j \div 2 < j
      OBVIOUS
    <3> QED BY <1>1, ParentIs
  <2> HIDE DEF g, p, n
  <2>7. ASSUME NEW j \in 2 .. n, j # p PROVE Lower(rows, g[j \div 2], g[j])
    <3> DEFINE q == j \div 2
    <3>0. j \in 1 .. n /\ q \in 1 .. n /\ q < j
      BY <2>6
    <3>1. CASE j = i
      <4>1. g[q] = h[i] /\ g[j] = h[p]
        BY <2>3, <3>1 DEF p
      <4> QED BY <2>5, <4>1
    <3>2. CASE j # i /\ q = i
      <4>1. g[q] = h[p] /\ g[j] = h[j]
        BY <2>3, <2>7, <3>0, <3>2
      <4>2. Lower(rows, h[p], h[j])
        BY <1>1, <2>2, <3>2
      <4> QED BY <4>1, <4>2
    <3>3. CASE j # i /\ q = p
      <4>1. g[q] = h[i] /\ g[j] = h[j]
        BY <2>3, <2>7, <3>0, <3>3
      <4>2. Lower(rows, h[p], h[j])
        BY <1>1, <3>3
      <4>3. h[i] \in Places(rows) /\ h[p] \in Places(rows) /\ h[j] \in Places(rows)
        BY <1>1, <2>2, <2>4, <3>0
      <4>4. Lower(rows, h[i], h[j])
        BY <2>5, <4>2, <4>3, PrioritiesOrder
      <4> QED BY <4>1, <4>4
    <3>4. CASE j # i /\ q # i /\ q # p
      <4>1. g[q] = h[q] /\ g[j] = h[j]
        BY <2>3, <2>7, <3>0, <3>4
      <4>2. Lower(rows, h[q], h[j])
        BY <1>1, <3>4
      <4> QED BY <4>1, <4>2
    <3> QED BY <3>1, <3>2, <3>3, <3>4
  <2>8. ASSUME NEW j \in 2 .. n, j \div 2 = p, p # 1 PROVE Lower(rows, g[p \div 2], g[j])
    <3> DEFINE r == p \div 2
    <3>1. p \in 2 .. n /\ r \in 1 .. n /\ r < p
      <4>1. p \in 2 .. n
        BY <1>1, <2>2, <2>8
      <4> QED BY <2>6, <4>1
    <3>2. g[r] = h[r]
      BY <2>2, <2>3, <3>1
    <3>3. Lower(rows, h[r], h[p])
      BY <1>1, <2>2, <3>1
    <3>4. CASE j = i
      BY <2>3, <3>2, <3>3, <3>4
    <3>5. CASE j # i
      <4>1. g[j] = h[j]
        BY <2>3, <2>6, <2>8, <3>5
      <4>2. Lower(rows, h[p], h[j])
        BY <1>1, <2>8, <3>5
      <4>3. h[r] \in Places(rows) /\ h[p] \in Places(rows) /\ h[j] \in Places(rows)
        BY <2>2, <2>4, <2>6, <3>1
      <4>4. Lower(rows, h[r], h[j])
        BY <3>3, <4>2, <4>3, PrioritiesOrder
      <4> QED BY <3>2, <4>1, <4>4
    <3> QED BY <3>4, <3>5
  <2>9. OnItsWay(rows, g, p, TRUE)
    BY <2>2, <2>3, <2>7, <2>8 DEF OnItsWay, Between
  <2>10. Raised(rows, h, i).heap = g /\ Raised(rows, h, i).i = p
    BY <2>1
  <2> QED BY <2>2, <2>3, <2>9, <2>10 DEF n
<1> QED BY <1>2, <1>3

LEMMA LoweredIs ==
  ASSUME NEW rows \in Seq(Row), NEW h, NEW i, OnItsWay(rows, h, i, FALSE)
  PROVE  LET s == Lowered(rows, h, i)
         IN  \/ s = [heap |-> h, i |-> i] /\ Ordered(rows, h)
             \/ /\ OnItsWay(rows, s.heap, s.i, FALSE) /\ s.i > i
                /\ Len(s.heap) = Len(h) /\ Members(s.heap) = Members(h)
<1> DEFINE n == Len(h)
           below == Under(rows, h, i)
           c == CHOOSE x \in below : \A y \in below : ~Lower(rows, h[y], h[x])
           g == Swapped(h, i, c)
<1>1. /\ HeapOf(rows, h) /\ n \in Nat /\ i \in 1 .. n
      /\ \A j \in 2 .. n : j \div 2 # i => Lower(rows, h[j \div 2], h[j])
      /\ \A j \in 2 .. n : j \div 2 = i /\ i # 1 => Lower(rows, h[i \div 2], h[j])
      /\ \A j \in 1 .. n : h[j] \in Places(rows)
  BY DEF OnItsWay, Between, HeapOf
<1>2. \A j : j \in below <=> j \in 2 .. n /\ j \div 2 = i /\ Lower(rows, h[j], h[i])
  <2>1. \A j : j \in below <=> j \in {2 * i, 2 * i + 1} /\ j <= n /\ Lower(rows, h[j], h[i])
    BY DEF Under, Lower
  <2>2. \A j : j \in {2 * i, 2 * i + 1} /\ j <= n <=> j \in 2 .. n /\ j \div 2 = i
    <3> SUFFICES ASSUME NEW j PROVE j \in {2 * i, 2 * i + 1} /\ j <= n <=> j \in 2 .. n /\ j \div 2 = i
      OBVIOUS
    <3>1. i \in Nat /\ i >= 1
      BY <1>1
    <3>2. CASE j \in Nat
      BY <1>1, <3>1, <3>2, ChildrenAre
    <3>3. CASE j \notin Nat
      BY <1>1, <3>1, <3>3
    <3> QED BY <3>2, <3>3
  <2> HIDE DEF below, n
  <2> QED BY <2>1, <2>2
<1>3. \A j \in 2 .. n : j \in 1 .. n /\ j \div 2 \in 1 .. n /\ j \div 2 < j
  <2> SUFFICES ASSUME NEW j \in 2 .. n PROVE j \in 1 .. n /\ j \div 2 \in 1 .. n /\ j \div 2 < j
    OBVIOUS
  <2> QED BY <1>1, ParentIs
<1>4. CASE below = {}
  <2>1. Lowered(rows, h, i) = [heap |-> h, i |-> i]
    BY <1>4 DEF Lowered
  <2>2. ASSUME NEW j \in 2 .. n PROVE Lower(rows, h[j \div 2], h[j])
    <3>1. CASE j \div 2 # i
      BY <1>1, <3>1
    <3>2. CASE j \div 2 = i
      <4>1. ~Lower(rows, h[j], h[i])
        BY <1>2, <1>4, <3>2
      <4>2. h[j] # h[i]
        BY <1>1, <1>3, <3>2 DEF HeapOf, Distinct
      <4>3. h[i] \in Places(rows) /\ h[j] \in Places(rows)
        BY <1>1, <1>3
      <4> QED BY <3>2, <4>1, <4>2, <4>3, PrioritiesOrder
    <3> QED BY <3>1, <3>2
  <2>3. Ordered(rows, h)
    BY <2>2 DEF Ordered
  <2> QED BY <2>1, <2>3
<1>5. CASE below # {}
  <2>1. Lowered(rows, h, i) = [heap |-> g, i |-> c]
    BY <1>5 DEF Lowered, Lower
  <2>2. \E x \in below : \A y \in below : ~Lower(rows, h[y], h[x])
    <3> DEFINE l == 2 * i
               r == 2 * i + 1
    <3>1. below \subseteq {l, r} /\ \A y \in below : h[y] \in Places(rows)
      BY <1>1, <1>2 DEF Under
    <3> HIDE DEF below, l, r
    <3>2. CASE l \in below /\ r \in below
      <4>1. ~Lower(rows, h[l], h[l]) /\ ~Lower(rows, h[r], h[r])
            /\ (Lower(rows, h[l], h[r]) => ~Lower(rows, h[r], h[l]))
        BY <3>1, <3>2, PrioritiesOrder
      <4> QED BY <3>1, <3>2, <4>1
    <3>3. CASE ~(l \in below /\ r \in below)
      <4>1. PICK x : below = {x}
        BY <1>5, <3>1, <3>3
      <4>2. ~Lower(rows, h[x], h[x])
        BY <3>1, <4>1, PrioritiesOrder
      <4> QED BY <4>1, <4>2
    <3> QED BY <3>2, <3>3
  <2>3. c \in below /\ \A y \in below : ~Lower(rows, h[y], h[c])
    <3> HIDE DEF below
    <3> QED BY <2>2
  <2> HIDE DEF below, c
  <2>4. c \in 2 .. n /\ c \div 2 = i /\ Lower(rows, h[c], h[i])
    BY <1>2, <2>3
  <2>5. c \in 1 .. n /\ i < c /\ i # c
    BY <1>3, <2>4
  <2>6. /\ HeapOf(rows, g) /\ Len(g) = n /\ Members(g) = Members(h)
        /\ g[i] = h[c] /\ g[c] = h[i]
        /\ \A j \in 1 .. n : j # i /\ j # c => g[j] = h[j]
    BY <1>1, <2>5, SwappedIs
  <2> HIDE DEF g, n
  <2>7. ASSUME NEW j \in 2 .. n, j \div 2 # c PROVE Lower(rows, g[j \div 2], g[j])
    <3> DEFINE q == j \div 2
    <3>0. j \in 1 .. n /\ q \in 1 .. n /\ q < j
      BY <1>3
    <3>1. CASE j = c
      <4>1. g[q] = h[c] /\ g[j] = h[i]
        BY <2>4, <2>6, <3>1
      <4> QED BY <2>4, <4>1
    <3>2. CASE j # c /\ q = i
      <4>1. g[q] = h[c] /\ g[j] = h[j]
        BY <2>6, <3>0, <3>2
      <4>2. h[c] \in Places(rows) /\ h[i] \in Places(rows) /\ h[j] \in Places(rows)
        BY <1>1, <2>5, <3>0
      <4>3. h[c] # h[j]
        BY <1>1, <2>5, <3>0, <3>2 DEF HeapOf, Distinct, n
      <4>4. ~Lower(rows, h[j], h[c])
        <5>1. CASE j \in below
          BY <2>3, <5>1
        <5>2. CASE j \notin below
          <6>1. ~Lower(rows, h[j], h[i])
            BY <1>2, <3>2, <5>2
          <6> QED BY <2>4, <4>2, <6>1, PrioritiesOrder
        <5> QED BY <5>1, <5>2
      <4>5. Lower(rows, h[c], h[j])
        BY <4>2, <4>3, <4>4, PrioritiesOrder
      <4> QED BY <4>1, <4>5
    <3>3. CASE j = i
      <4>1. q # i /\ g[q] = h[q] /\ g[j] = h[c]
        BY <2>6, <2>7, <3>0, <3>3
      <4>2. i # 1 /\ Lower(rows, h[i \div 2], h[c])
        BY <1>1, <2>4, <3>3
      <4> QED BY <3>3, <4>1, <4>2
    <3>4. CASE j # c /\ j # i /\ q # i
      <4>1. g[q] = h[q] /\ g[j] = h[j]
        BY <2>6, <2>7, <3>0, <3>4
      <4>2. Lower(rows, h[q], h[j])
        BY <1>1, <3>4
      <4> QED BY <4>1, <4>2
    <3> QED BY <3>1, <3>2, <3>3, <3>4
  <2>8. ASSUME NEW j \in 2 .. n, j \div 2 = c PROVE Lower(rows, g[c \div 2], g[j])
    <3>1. j \in 1 .. n /\ c < j
      BY <1>3, <2>8
    <3>2. g[c \div 2] = h[c] /\ g[j] = h[j]
      BY <2>4, <2>5, <2>6, <3>1
    <3>3. Lower(rows, h[c], h[j])
      BY <1>1, <2>5, <2>8
    <3> QED BY <3>2, <3>3
  <2>9. OnItsWay(rows, g, c, FALSE)
    BY <2>5, <2>6, <2>7, <2>8 DEF OnItsWay, Between
  <2>10. Lowered(rows, h, i).heap = g /\ Lowered(rows, h, i).i = c
    BY <2>1
  <2> QED BY <2>5, <2>6, <2>9, <2>10 DEF n
<1> QED BY <1>4, <1>5

\* The loop of a sift, turn by turn.
LEMMA SiftUnrolls ==
  ASSUME NEW rows, NEW h, NEW i, NEW up, Len(h) \in Nat
  PROVE  \E turn : /\ Sifted(rows, h, i, up) = turn[Len(h)].heap
                   /\ turn[0] = [heap |-> h, i |-> i]
                   /\ \A n \in 1 .. Len(h) : turn[n] = Turned(rows, turn[n - 1].heap, turn[n - 1].i, up)
<1> DEFINE l == Len(h)
           Def(g, n) == IF n = 0 THEN [heap |-> h, i |-> i]
                        ELSE IF up THEN Raised(rows, g[n - 1].heap, g[n - 1].i)
                        ELSE Lowered(rows, g[n - 1].heap, g[n - 1].i)
           T == {m \in Nat : \E g : g = [n \in 0 .. m |-> Def(g, n)]}
           It == CHOOSE g : g = [n \in 0 .. l |-> Def(g, n)]
<1>1. Sifted(rows, h, i, up) = It[l].heap
  BY DEF Sifted
<1>2. 0 \in T
  <2>1. 0 .. 0 = {0}
    OBVIOUS
  <2>2. [n \in {0} |-> [heap |-> h, i |-> i]] = [n \in {0} |-> Def([j \in {0} |-> [heap |-> h, i |-> i]], n)]
    OBVIOUS
  <2> QED BY <2>1, <2>2
<1>3. ASSUME NEW m \in 0 .. l - 1, m \in T PROVE m + 1 \in T
  <2>1. PICK g : g = [n \in 0 .. m |-> Def(g, n)]
    BY <1>3
  <2> DEFINE g2 == [n \in 0 .. m + 1 |-> Def(g, n)]
  <2>2. ASSUME NEW n \in 0 .. m + 1 PROVE Def(g, n) = Def(g2, n)
    <3>1. CASE n = 0
      BY <3>1
    <3>2. CASE n # 0
      <4>1. n - 1 \in 0 .. m /\ n - 1 \in 0 .. m + 1
        BY <3>2
      <4>2. g[n - 1] = Def(g, n - 1) /\ g2[n - 1] = Def(g, n - 1)
        <5> HIDE DEF Def
        <5> QED BY <2>1, <4>1
      <4>3. g[n - 1] = g2[n - 1]
        BY <4>2
      <4> HIDE DEF g2
      <4> QED BY <3>2, <4>3
    <3> QED BY <3>1, <3>2
  <2>3. g2 = [n \in 0 .. m + 1 |-> Def(g2, n)]
    <3> HIDE DEF Def
    <3> QED BY <2>2
  <2> HIDE DEF Def, g2
  <2> QED BY <2>3
<1>4. l \in T
  <2> HIDE DEF T
  <2>1. 0 .. l \subseteq T
    BY <1>2, <1>3, UpTo
  <2> QED BY <2>1
<1>5. It = [n \in 0 .. l |-> Def(It, n)]
  <2> HIDE DEF Def
  <2> QED BY <1>4
<1> HIDE DEF It
<1>6. It[0] = [heap |-> h, i |-> i]
  BY <1>5
<1>7. ASSUME NEW n \in 1 .. l PROVE It[n] = Turned(rows, It[n - 1].heap, It[n - 1].i, up)
  <2>1. n \in 0 .. l /\ n # 0
    OBVIOUS
  <2>2. It[n] = Def(It, n)
    <3> HIDE DEF Def
    <3> QED BY <1>5, <2>1
  <2> QED BY <2>1, <2>2 DEF Turned
<1> QED BY <1>1, <1>6, <1>7

\* A sift ends, within the turns it has, in a heap of the same entries.
LEMMA SiftIs ==
  ASSUME NEW rows \in Seq(Row), NEW h, NEW i, NEW up \in BOOLEAN, OnItsWay(rows, h, i, up)
  PROVE  LET g == Sifted(rows, h, i, up)
         IN  HeapOf(rows, g) /\ Ordered(rows, g) /\ Len(g) = Len(h) /\ Members(g) = Members(h)
<1> DEFINE l == Len(h)
           Same(g) == HeapOf(rows, g) /\ Len(g) = l /\ Members(g) = Members(h)
           Far(j, n) == IF up THEN j <= l - n ELSE j >= n + 1
<1>1. HeapOf(rows, h) /\ l \in Nat /\ i \in 1 .. l
  BY DEF OnItsWay, HeapOf
<1>2. PICK turn : /\ Sifted(rows, h, i, up) = turn[l].heap
                  /\ turn[0] = [heap |-> h, i |-> i]
                  /\ \A n \in 1 .. l : turn[n] = Turned(rows, turn[n - 1].heap, turn[n - 1].i, up)
  BY <1>1, SiftUnrolls
<1> DEFINE Heap(n) == turn[n].heap
           At(n) == turn[n].i
           Moving(n) == OnItsWay(rows, Heap(n), At(n), up) /\ Far(At(n), n)
           Settled(n) == /\ Turned(rows, Heap(n), At(n), up) = [heap |-> Heap(n), i |-> At(n)]
                         /\ Ordered(rows, Heap(n))
           S == {n \in 0 .. l : Same(Heap(n)) /\ (Moving(n) \/ Settled(n))}
<1>3. 0 \in S
  <2>1. Heap(0) = h /\ At(0) = i
    BY <1>2
  <2>2. Far(i, 0)
    BY <1>1
  <2> HIDE DEF Heap, At, Far
  <2> QED BY <1>1, <2>1, <2>2
<1>4. ASSUME NEW n \in 0 .. l - 1, n \in S PROVE n + 1 \in S
  <2> DEFINE a == Heap(n)
             j == At(n)
             s == Turned(rows, a, j, up)
  <2>1. n + 1 \in 1 .. l /\ n + 1 \in 0 .. l /\ (n + 1) - 1 = n
    BY <1>1
  <2>2. turn[n + 1] = s
    BY <1>2, <2>1
  <2>3. Heap(n + 1) = s.heap /\ At(n + 1) = s.i
    BY <2>2
  <2>4. Same(a) /\ (Moving(n) \/ Settled(n))
    BY <1>4
  <2>5. CASE s = [heap |-> a, i |-> j] /\ Ordered(rows, a)
    <3>1. Heap(n + 1) = a /\ At(n + 1) = j
      BY <2>3, <2>5
    <3>2. Settled(n + 1)
      <4> HIDE DEF Heap, At
      <4> QED BY <2>5, <3>1
    <3> HIDE DEF Same, Far, Heap, At, Settled
    <3> QED BY <2>1, <2>4, <3>1, <3>2
  <2>6. CASE ~(s = [heap |-> a, i |-> j] /\ Ordered(rows, a))
    <3>1. OnItsWay(rows, a, j, up) /\ Far(j, n)
      BY <2>4, <2>6
    <3>2. /\ OnItsWay(rows, s.heap, s.i, up) /\ (IF up THEN s.i < j ELSE s.i > j)
          /\ Len(s.heap) = Len(a) /\ Members(s.heap) = Members(a)
      <4> HIDE DEF a, j, Same, Far
      <4>1. CASE up = TRUE
        BY <2>6, <3>1, <4>1, RaisedIs DEF Turned
      <4>2. CASE up = FALSE
        BY <2>6, <3>1, <4>2, LoweredIs DEF Turned
      <4> QED BY <4>1, <4>2
    <3> HIDE DEF s, a, j, Heap, At
    <3>3. Same(Heap(n + 1))
      BY <2>3, <2>4, <3>2 DEF OnItsWay
    <3>4. j \in 1 .. l /\ s.i \in 1 .. l
      BY <2>4, <3>1, <3>2 DEF OnItsWay
    <3>5. Far(s.i, n + 1)
      BY <1>1, <3>1, <3>2, <3>4
    <3> HIDE DEF Same, Far
    <3> QED BY <2>1, <2>3, <3>2, <3>3, <3>5
  <2> QED BY <2>5, <2>6
<1> HIDE DEF S
<1>5. 0 .. l \subseteq S
  BY <1>1, <1>3, <1>4, UpTo
<1>6. l \in S
  BY <1>1, <1>5
<1>7. ~Moving(l)
  BY <1>1, <1>6 DEF S, OnItsWay
<1> QED BY <1>2, <1>6, <1>7 DEF S

\* On top of a heap stands the lowest.
LEMMA LowestOnTop ==
  ASSUME NEW rows \in Seq(Row), NEW h, HeapOf(rows, h), Ordered(rows, h)
  PROVE  \A j \in 2 .. Len(h) : Lower(rows, h[1], h[j])
<1> DEFINE l == Len(h)
           S == {n \in 0 .. l : \A j \in 2 .. n : Lower(rows, h[1], h[j])}
<1>1. l \in Nat /\ \A j \in 1 .. l : h[j] \in Places(rows)
  BY DEF HeapOf
<1>2. 0 \in S
  BY <1>1
<1>3. ASSUME NEW n \in 0 .. l - 1, n \in S PROVE n + 1 \in S
  <2>1. n + 1 \in 0 .. l /\ \A j \in 2 .. n + 1 : j \in 2 .. n \/ j = n + 1
    BY <1>1
  <2>2. CASE n = 0
    BY <2>1, <2>2
  <2>3. CASE n # 0
    <3> DEFINE j == n + 1
               p == j \div 2
    <3>1. j \in 2 .. l /\ j \in 1 .. l /\ 1 \in 1 .. l /\ p \in 1 .. n /\ p \in 1 .. l
      BY <1>1, <2>3, ParentIs
    <3>2. Lower(rows, h[p], h[j])
      BY <3>1 DEF Ordered
    <3>3. Lower(rows, h[1], h[j])
      <4>1. CASE p = 1
        BY <3>2, <4>1
      <4>2. CASE p # 1
        <5>1. p \in 2 .. n
          BY <1>1, <3>1, <4>2
        <5>2. Lower(rows, h[1], h[p])
          BY <1>3, <5>1
        <5>3. h[1] \in Places(rows) /\ h[p] \in Places(rows) /\ h[j] \in Places(rows)
          BY <1>1, <3>1
        <5> HIDE DEF p, j
        <5> QED BY <3>2, <5>2, <5>3, PrioritiesOrder
      <4> QED BY <4>1, <4>2
    <3> QED BY <1>3, <2>1, <3>3
  <2> QED BY <2>2, <2>3
<1> HIDE DEF S
<1>4. 0 .. l \subseteq S
  BY <1>1, <1>2, <1>3, UpTo
<1>5. l \in S
  BY <1>1, <1>4
<1> QED BY <1>5 DEF S

\* Of the first n rows the heap holds the k highest, or all.
HoldsTop(rows, k, n, h) ==
    /\ HeapOf(rows, h) /\ Ordered(rows, h)
    /\ Members(h) \subseteq 1 .. n
    /\ n <= k => Len(h) = n /\ Members(h) = 1 .. n
    /\ n >= k => Len(h) = k
    /\ \A a \in Members(h), b \in 1 .. n : b \notin Members(h) => Lower(rows, b, a)

LEMMA OfferKeepsTop ==
  ASSUME NEW rows \in Seq(Row), NEW k \in Nat \ {0}, NEW n \in 0 .. Len(rows) - 1, NEW h,
         HoldsTop(rows, k, n, h)
  PROVE  HoldsTop(rows, k, n + 1, Offered(rows, k, h, n + 1))
<1> DEFINE N == Len(rows)
           l == Len(h)
           c == n + 1
           P == Places(rows)
           g == Offered(rows, k, h, c)
<1>1. /\ N \in Nat /\ n \in Nat /\ c \in Nat /\ c \in P /\ P = 1 .. N /\ l \in Nat
      /\ 1 .. n \subseteq P /\ 1 .. c = (1 .. n) \cup {c} /\ c \notin 1 .. n
  BY DEF HoldsTop, HeapOf, Places
<1>2. /\ HeapOf(rows, h) /\ Ordered(rows, h) /\ h \in Seq(P)
      /\ \A i, j \in 1 .. l : h[i] = h[j] => i = j
      /\ Members(h) = {h[i] : i \in 1 .. l} /\ \A i \in 1 .. l : h[i] \in 1 .. n /\ h[i] \in P /\ h[i] # c
  BY <1>1 DEF HoldsTop, HeapOf, Distinct, Members
<1> HIDE DEF P, c
<1>3. CASE l < k
  <2> DEFINE a == Append(h, c)
             i == l + 1
  <2>1. n <= k /\ n = l /\ Members(h) = 1 .. n
    BY <1>1, <1>3 DEF HoldsTop
  <2>2. /\ a \in Seq(P) /\ Len(a) = i /\ a[i] = c
        /\ \A j \in 1 .. l : a[j] = h[j]
    BY <1>1, <1>2
  <2> HIDE DEF a
  <2>3. HeapOf(rows, a)
    <3>1. ASSUME NEW x \in 1 .. i, NEW y \in 1 .. i, a[x] = a[y] PROVE x = y
      <4>1. (x \in 1 .. l \/ x = i) /\ (y \in 1 .. l \/ y = i)
        BY <1>1
      <4>2. ASSUME NEW z \in 1 .. l PROVE a[z] = h[z] /\ a[z] # a[i]
        BY <1>2, <2>2
      <4> QED BY <1>2, <3>1, <4>1, <4>2
    <3>2. Distinct(a)
      BY <2>2, <3>1 DEF Distinct
    <3> QED BY <2>2, <3>2 DEF HeapOf, P
  <2>4. Members(a) = 1 .. c
    <3>1. Members(a) = {a[j] : j \in 1 .. i}
      BY <2>2 DEF Members
    <3>2. \A j : j \in 1 .. i <=> j \in 1 .. l \/ j = i
      BY <1>1
    <3>3. Members(a) = {h[j] : j \in 1 .. l} \cup {c}
      BY <2>2, <3>1, <3>2
    <3> QED BY <1>1, <1>2, <2>1, <3>3
  <2>5. OnItsWay(rows, a, i, TRUE)
    <3>1. i \in 1 .. Len(a)
      BY <1>1, <2>2
    <3>2. ASSUME NEW j \in 2 .. Len(a), j # i PROVE Lower(rows, a[j \div 2], a[j])
      <4>1. j \in 2 .. l /\ j \in 1 .. l /\ j \div 2 \in 1 .. l
        BY <1>1, <2>2, <3>2, ParentIs
      <4>2. Lower(rows, h[j \div 2], h[j])
        BY <1>2, <4>1 DEF Ordered
      <4> QED BY <2>2, <4>1, <4>2
    <3>3. \A j \in 2 .. Len(a) : j \div 2 # i
      BY <1>1, <2>2, ParentIs
    <3> HIDE DEF i
    <3> QED BY <2>3, <3>1, <3>2, <3>3 DEF OnItsWay, Between
  <2>6. g = Sifted(rows, a, i, TRUE)
    BY <1>3 DEF Offered, a, c
  <2> HIDE DEF g, i
  <2>7. HeapOf(rows, g) /\ Ordered(rows, g) /\ Len(g) = i /\ Members(g) = 1 .. c
    BY <2>2, <2>4, <2>5, <2>6, SiftIs
  <2>8. c <= k /\ i = c
    BY <1>1, <1>3, <2>1 DEF i, c
  <2>9. HoldsTop(rows, k, c, g)
    BY <1>1, <2>7, <2>8 DEF HoldsTop
  <2> QED BY <2>9 DEF g, c
<1>4. CASE ~(l < k)
  <2>1. l = k /\ n >= k /\ 1 \in 1 .. l /\ k <= c /\ ~(c <= k)
    BY <1>1, <1>4 DEF HoldsTop, c
  <2>2. \A j \in 2 .. l : Lower(rows, h[1], h[j])
    BY <1>2, LowestOnTop
  <2>3. \A a \in Members(h), b \in 1 .. n : b \notin Members(h) => Lower(rows, b, a)
    BY DEF HoldsTop
  <2>4. \A i \in 1 .. l : i = 1 \/ i \in 2 .. l
    BY <1>1
  <2>5. h[1] \in P /\ h[1] # c /\ h[1] \in Members(h) /\ Members(h) \subseteq P
    BY <1>2, <2>1
  <2>6. CASE Lower(rows, h[1], c)
    <3> DEFINE a == [h EXCEPT ![1] = c]
    <3>1. a \in Seq(P) /\ Len(a) = l /\ a[1] = c /\ \A j \in 2 .. l : a[j] = h[j]
      BY <1>1, <1>2, <2>1
    <3> HIDE DEF a
    <3>2. HeapOf(rows, a)
      <4>1. ASSUME NEW i \in 1 .. l, NEW j \in 1 .. l, a[i] = a[j] PROVE i = j
        BY <1>2, <2>4, <3>1, <4>1
      <4> QED BY <3>1, <4>1 DEF HeapOf, Distinct, P
    <3>3. Members(a) = (Members(h) \ {h[1]}) \cup {c}
      <4>1. Members(a) = {a[j] : j \in 1 .. l}
        BY <3>1 DEF Members
      <4>2. \A j \in 2 .. l : j \in 1 .. l /\ h[j] # h[1]
        BY <1>1, <1>2, <2>1
      <4>3. ASSUME NEW x PROVE x \in Members(a) <=> (x \in Members(h) /\ x # h[1]) \/ x = c
        <5>1. x \in Members(a) <=> x = c \/ \E j \in 2 .. l : x = h[j]
          BY <2>1, <2>4, <3>1, <4>1, <4>2
        <5>2. x \in Members(h) <=> x = h[1] \/ \E j \in 2 .. l : x = h[j]
          BY <1>2, <2>1, <2>4, <4>2
        <5>3. (\E j \in 2 .. l : x = h[j]) => x # h[1]
          BY <4>2
        <5> QED BY <5>1, <5>2, <5>3
      <4> QED BY <4>3
    <3>4. OnItsWay(rows, a, 1, FALSE)
      <4>1. ASSUME NEW j \in 2 .. l, j \div 2 # 1 PROVE Lower(rows, a[j \div 2], a[j])
        <5>1. j \div 2 \in 2 .. l
          BY <1>1, <4>1, ParentIs
        <5>2. Lower(rows, h[j \div 2], h[j])
          BY <1>2 DEF Ordered
        <5> QED BY <3>1, <5>1, <5>2
      <4> QED BY <2>1, <3>1, <3>2, <4>1 DEF OnItsWay, Between
    <3>5. g = Sifted(rows, a, 1, FALSE)
      BY <1>4, <2>6 DEF Offered, Lower, a, c
    <3> HIDE DEF g
    <3>6. HeapOf(rows, g) /\ Ordered(rows, g) /\ Len(g) = k /\ Members(g) = (Members(h) \ {h[1]}) \cup {c}
      BY <2>1, <3>1, <3>3, <3>4, <3>5, SiftIs
    <3>7. ASSUME NEW x \in Members(g), NEW b \in 1 .. c, b \notin Members(g) PROVE Lower(rows, b, x)
      <4>1. b \in 1 .. n /\ b \in P /\ x \in P /\ c \in P
        BY <1>1, <2>5, <3>6, <3>7
      <4>2. Lower(rows, h[1], x)
        <5>1. CASE x = c
          BY <2>6, <5>1
        <5>2. CASE x # c
          <6>1. x \in Members(h) /\ x # h[1]
            BY <3>6, <5>2
          <6> QED BY <1>2, <2>2, <2>4, <6>1
        <5> QED BY <5>1, <5>2
      <4>3. CASE b = h[1]
        BY <4>2, <4>3
      <4>4. CASE b # h[1]
        <5>1. b \notin Members(h)
          BY <3>6, <3>7, <4>4
        <5>2. Lower(rows, b, h[1])
          BY <2>3, <2>5, <4>1, <5>1
        <5> QED BY <2>5, <4>1, <4>2, <5>2, PrioritiesOrder DEF P
      <4> QED BY <4>3, <4>4
    <3>8. Members(g) \subseteq 1 .. c
      BY <1>1, <1>2, <3>6
    <3>9. HoldsTop(rows, k, c, g)
      BY <2>1, <3>6, <3>7, <3>8 DEF HoldsTop
    <3> QED BY <3>9 DEF g, c
  <2>7. CASE ~Lower(rows, h[1], c)
    <3>1. g = h
      BY <1>4, <2>7 DEF Offered, Lower, c
    <3>2. Lower(rows, c, h[1])
      BY <1>1, <2>5, <2>7, PrioritiesOrder DEF P
    <3>3. ASSUME NEW x \in Members(h), NEW b \in 1 .. c, b \notin Members(h) PROVE Lower(rows, b, x)
      <4>1. CASE b \in 1 .. n
        BY <2>3, <3>3, <4>1
      <4>2. CASE b = c
        <5>1. x = h[1] \/ Lower(rows, h[1], x)
          BY <1>2, <2>2, <2>4
        <5>2. x \in P
          BY <2>5
        <5> QED BY <1>1, <2>5, <3>2, <4>2, <5>1, <5>2, PrioritiesOrder DEF P
      <4> QED BY <1>1, <4>1, <4>2
    <3>4. Members(h) \subseteq 1 .. c
      BY <1>1, <1>2
    <3> HIDE DEF g
    <3>5. HoldsTop(rows, k, c, g)
      BY <1>2, <2>1, <3>1, <3>3, <3>4 DEF HoldsTop
    <3> QED BY <3>5 DEF g, c
  <2> QED BY <2>6, <2>7
<1> QED BY <1>3, <1>4

\* The rows are offered to the heap one after the other.
LEMMA KeptUnrolls ==
  ASSUME NEW rows, NEW k, Len(rows) \in Nat
  PROVE  \E heap : /\ Kept(rows, k) = heap[Len(rows)]
                   /\ heap[0] = <<>>
                   /\ \A n \in 1 .. Len(rows) : heap[n] = Offered(rows, k, heap[n - 1], n)
<1> DEFINE l == Len(rows)
           Def(g, n) == IF n = 0 THEN <<>> ELSE Offered(rows, k, g[n - 1], n)
           T == {m \in Nat : \E g : g = [n \in 0 .. m |-> Def(g, n)]}
           It == CHOOSE g : g = [n \in 0 .. l |-> Def(g, n)]
<1>1. Kept(rows, k) = It[l]
  BY DEF Kept
<1>2. 0 \in T
  <2>1. 0 .. 0 = {0}
    OBVIOUS
  <2>2. [n \in {0} |-> <<>>] = [n \in {0} |-> Def([j \in {0} |-> <<>>], n)]
    OBVIOUS
  <2> QED BY <2>1, <2>2
<1>3. ASSUME NEW m \in 0 .. l - 1, m \in T PROVE m + 1 \in T
  <2>1. PICK g : g = [n \in 0 .. m |-> Def(g, n)]
    BY <1>3
  <2> DEFINE g2 == [n \in 0 .. m + 1 |-> Def(g, n)]
  <2>2. ASSUME NEW n \in 0 .. m + 1 PROVE Def(g, n) = Def(g2, n)
    <3>1. CASE n = 0
      BY <3>1
    <3>2. CASE n # 0
      <4>1. n - 1 \in 0 .. m /\ n - 1 \in 0 .. m + 1
        BY <3>2
      <4>2. g[n - 1] = Def(g, n - 1) /\ g2[n - 1] = Def(g, n - 1)
        <5> HIDE DEF Def
        <5> QED BY <2>1, <4>1
      <4>3. g[n - 1] = g2[n - 1]
        BY <4>2
      <4> HIDE DEF g2
      <4> QED BY <3>2, <4>3
    <3> QED BY <3>1, <3>2
  <2>3. g2 = [n \in 0 .. m + 1 |-> Def(g2, n)]
    <3> HIDE DEF Def
    <3> QED BY <2>2
  <2> HIDE DEF Def, g2
  <2> QED BY <2>3
<1>4. l \in T
  <2> HIDE DEF T
  <2>1. 0 .. l \subseteq T
    BY <1>2, <1>3, UpTo
  <2> QED BY <2>1
<1>5. It = [n \in 0 .. l |-> Def(It, n)]
  <2> HIDE DEF Def
  <2> QED BY <1>4
<1> HIDE DEF It
<1>6. It[0] = <<>>
  BY <1>5
<1>7. ASSUME NEW n \in 1 .. l PROVE It[n] = Offered(rows, k, It[n - 1], n)
  <2>1. n \in 0 .. l /\ n # 0
    OBVIOUS
  <2>2. It[n] = Def(It, n)
    <3> HIDE DEF Def
    <3> QED BY <1>5, <2>1
  <2> QED BY <2>1, <2>2
<1> QED BY <1>1, <1>6, <1>7

LEMMA KeptIs ==
  ASSUME NEW rows \in Seq(Row), NEW k \in Nat \ {0}
  PROVE  HoldsTop(rows, k, Len(rows), Kept(rows, k))
<1> DEFINE l == Len(rows)
<1>1. l \in Nat
  OBVIOUS
<1>2. PICK heap : /\ Kept(rows, k) = heap[l] /\ heap[0] = <<>>
                  /\ \A n \in 1 .. l : heap[n] = Offered(rows, k, heap[n - 1], n)
  BY <1>1, KeptUnrolls
<1> DEFINE S == {n \in 0 .. l : HoldsTop(rows, k, n, heap[n])}
<1>3. 0 \in S
  <2>1. /\ <<>> \in Seq(Places(rows)) /\ Len(<<>>) = 0 /\ 1 .. 0 = {}
        /\ \A j : j \notin 2 .. 0
    OBVIOUS
  <2>2. Members(<<>>) = {}
    BY <2>1 DEF Members
  <2>3. HoldsTop(rows, k, 0, <<>>)
    BY <2>1, <2>2 DEF HoldsTop, HeapOf, Distinct, Ordered
  <2> QED BY <1>1, <1>2, <2>3
<1>4. ASSUME NEW n \in 0 .. l - 1, n \in S PROVE n + 1 \in S
  <2>1. n + 1 \in 1 .. l /\ n + 1 \in 0 .. l /\ (n + 1) - 1 = n
    BY <1>1
  <2>2. heap[n + 1] = Offered(rows, k, heap[n], n + 1)
    BY <1>2, <2>1
  <2>3. HoldsTop(rows, k, n + 1, heap[n + 1])
    BY <1>4, <2>2, OfferKeepsTop
  <2> QED BY <2>1, <2>3
<1> HIDE DEF S
<1>5. 0 .. l \subseteq S
  BY <1>1, <1>3, <1>4, UpTo
<1>6. l \in S
  BY <1>1, <1>5
<1> QED BY <1>2, <1>6 DEF S

\* The rows of a set that are newer, and of how many sizes these sets are.
Above(rows, S, n) == {m \in S : Lower(rows, n, m)}
Height(rows, S, n) == Cardinality(Above(rows, S, n))

LEMMA HeightsDiffer ==
  ASSUME NEW rows \in Seq(Row), NEW S \in SUBSET Places(rows)
  PROVE  /\ IsFiniteSet(S) /\ Cardinality(S) \in Nat
         /\ \A n \in S : Height(rows, S, n) \in 0 .. Cardinality(S) - 1
         /\ \A m, n \in S : Height(rows, S, m) = Height(rows, S, n) => m = n
<1>1. IsFiniteSet(S) /\ Cardinality(S) \in Nat
  <2>1. IsFiniteSet(Places(rows))
    BY FS_Interval DEF Places
  <2> QED BY <2>1, FS_Subset, FS_CardinalityType
<1>2. ASSUME NEW n \in S
      PROVE  /\ Above(rows, S, n) \subseteq S /\ n \notin Above(rows, S, n)
             /\ IsFiniteSet(Above(rows, S, n)) /\ Height(rows, S, n) \in Nat
             /\ Height(rows, S, n) <= Cardinality(S) /\ Height(rows, S, n) # Cardinality(S)
  <2>1. Above(rows, S, n) \subseteq S /\ n \notin Above(rows, S, n)
    BY PrioritiesOrder DEF Above
  <2>2. IsFiniteSet(Above(rows, S, n)) /\ Cardinality(Above(rows, S, n)) \in Nat
    BY <1>1, <2>1, FS_Subset, FS_CardinalityType
  <2>3. Cardinality(Above(rows, S, n)) <= Cardinality(S) /\ Cardinality(S) # Cardinality(Above(rows, S, n))
    BY <1>1, <2>1, FS_Subset
  <2> QED BY <2>1, <2>2, <2>3 DEF Height
<1>3. ASSUME NEW m \in S, NEW n \in S, Lower(rows, m, n) PROVE Height(rows, S, m) # Height(rows, S, n)
  <2>1. Above(rows, S, n) \subseteq Above(rows, S, m)
    BY <1>3, PrioritiesOrder DEF Above
  <2>2. n \in Above(rows, S, m) /\ n \notin Above(rows, S, n)
    BY <1>2, <1>3 DEF Above
  <2>3. Above(rows, S, n) # Above(rows, S, m)
    BY <2>2
  <2>4. IsFiniteSet(Above(rows, S, m))
    BY <1>2
  <2> QED BY <2>1, <2>3, <2>4, FS_Subset DEF Height
<1>4. ASSUME NEW m \in S, NEW n \in S, Height(rows, S, m) = Height(rows, S, n) PROVE m = n
  <2>1. m # n => Lower(rows, m, n) \/ Lower(rows, n, m)
    BY PrioritiesOrder
  <2> QED BY <1>3, <1>4, <2>1
<1>5. \A n \in S : Height(rows, S, n) \in 0 .. Cardinality(S) - 1
  <2> SUFFICES ASSUME NEW n \in S PROVE Height(rows, S, n) \in 0 .. Cardinality(S) - 1
    OBVIOUS
  <2> DEFINE x == Height(rows, S, n)
             y == Cardinality(S)
  <2>1. x \in Nat /\ y \in Nat /\ x <= y /\ x # y
    BY <1>1, <1>2
  <2> HIDE DEF x, y
  <2>2. x \in 0 .. y - 1
    BY <2>1
  <2> QED BY <2>2 DEF x, y
<1> QED BY <1>1, <1>4, <1>5

\* Every height is that of one of them.
LEMMA HeightsReached ==
  ASSUME NEW rows \in Seq(Row), NEW S \in SUBSET Places(rows), NEW i \in 1 .. Cardinality(S)
  PROVE  \E n \in S : Height(rows, S, n) = i - 1
<1> DEFINE c == Cardinality(S)
           T == 0 .. c - 1
           f == [n \in S |-> Height(rows, S, n)]
<1>1. c \in Nat /\ IsFiniteSet(T) /\ Cardinality(T) = c
  <2>1. c \in Nat
    BY HeightsDiffer
  <2> HIDE DEF c
  <2>2. IsFiniteSet(0 .. c - 1) /\ Cardinality(0 .. c - 1) = IF 0 > c - 1 THEN 0 ELSE (c - 1) - 0 + 1
    BY <2>1, FS_Interval
  <2> QED BY <2>1, <2>2
<1>2. f \in Injection(S, T)
  <2>1. f \in [S -> T]
    BY HeightsDiffer
  <2>2. \A m, n \in S : f[m] = f[n] => m = n
    BY HeightsDiffer
  <2> HIDE DEF f, T
  <2> QED BY <2>1, <2>2 DEF Injection, IsInjective
<1> HIDE DEF T
<1>3. f \in Surjection(S, T)
  <2> HIDE DEF f
  <2> QED BY <1>1, <1>2, FS_Injection
<1>4. i - 1 \in T
  <2>1. i \in 1 .. c
    OBVIOUS
  <2> HIDE DEF c
  <2> QED BY <1>1, <2>1 DEF T
<1>5. PICK n \in S : f[n] = i - 1
  <2> HIDE DEF f
  <2> QED BY <1>3, <1>4 DEF Surjection
<1> QED BY <1>5

\* The rows sorted: the i-th has i - 1 before it.
InOrder(rows) ==
    LET Before(m, n) == rows[m].at > rows[n].at \/ (rows[m].at = rows[n].at /\ m < n)
    IN  [i \in DOMAIN rows |->
            rows[CHOOSE n \in DOMAIN rows : Cardinality({m \in DOMAIN rows : Before(m, n)}) = i - 1]]

LEMMA InOrderIs ==
  ASSUME NEW rows \in Seq(Row)
  PROVE  InOrder(rows) = [i \in Places(rows) |->
                            rows[CHOOSE n \in Places(rows) : Height(rows, Places(rows), n) = i - 1]]
<1>1. DOMAIN rows = Places(rows) /\ \A n \in Places(rows) : n \in Nat /\ rows[n] \in Row
  BY DEF Places
<1> DEFINE Before(m, n) == rows[m].at > rows[n].at \/ (rows[m].at = rows[n].at /\ m < n)
           Newer(n) == {m \in Places(rows) : Before(m, n)}
<1>2. ASSUME NEW n \in Places(rows) PROVE Newer(n) = Above(rows, Places(rows), n)
  <2>1. ASSUME NEW m \in Places(rows) PROVE Before(m, n) <=> Lower(rows, n, m)
    <3> DEFINE a == rows[m].at
               b == rows[n].at
    <3>1. a \in Nat /\ b \in Nat /\ m \in Nat /\ n \in Nat
      BY <1>1 DEF Row
    <3>2. Lower(rows, n, m) <=> b < a \/ (b = a /\ n > m)
      BY DEF Lower, IsLowerPriority
    <3> HIDE DEF a, b
    <3>3. (a > b \/ (a = b /\ m < n)) <=> (b < a \/ (b = a /\ n > m))
      BY <3>1
    <3> QED BY <3>2, <3>3 DEF a, b
  <2> HIDE DEF Before
  <2> QED BY <2>1 DEF Above
<1>3. InOrder(rows) = [i \in Places(rows) |->
                         rows[CHOOSE n \in Places(rows) : Cardinality(Newer(n)) = i - 1]]
  BY <1>1 DEF InOrder
<1> HIDE DEF Newer
<1>4. \A n \in Places(rows) : Cardinality(Newer(n)) = Height(rows, Places(rows), n)
  BY <1>2 DEF Height
<1>5. ASSUME NEW i
      PROVE  (CHOOSE n \in Places(rows) : Cardinality(Newer(n)) = i - 1)
             = (CHOOSE n \in Places(rows) : Height(rows, Places(rows), n) = i - 1)
  BY <1>4
<1> QED BY <1>3, <1>5

\* The heap gives the k first of the sorted rows.
LEMMA TopKIs ==
  ASSUME NEW rows \in Seq(Row), NEW k \in Nat \ {0}
  PROVE  /\ DOMAIN TopK(rows, k) = 1 .. (IF k < Len(rows) THEN k ELSE Len(rows))
         /\ DOMAIN InOrder(rows) = 1 .. Len(rows)
         /\ \A i \in DOMAIN TopK(rows, k) : TopK(rows, k)[i] = InOrder(rows)[i]
<1> DEFINE N == Len(rows)
           h == Kept(rows, k)
           K == {h[n] : n \in DOMAIN h}
           l == Len(h)
           P == Places(rows)
<1>1. HoldsTop(rows, k, N, h)
  BY KeptIs
<1> HIDE DEF h
<1>2. /\ N \in Nat /\ P = 1 .. N /\ l \in Nat /\ h \in Seq(P) /\ DOMAIN h = 1 .. l /\ K = Members(h)
      /\ l = (IF k < N THEN k ELSE N) /\ K \subseteq P
      /\ \A a \in K, b \in P : b \notin K => Lower(rows, b, a)
  <2>1. N \in Nat /\ P = 1 .. N
    BY DEF Places
  <2>2. h \in Seq(P) /\ Members(h) \subseteq 1 .. N /\ (N <= k => l = N) /\ (N >= k => l = k)
        /\ \A a \in Members(h), b \in 1 .. N : b \notin Members(h) => Lower(rows, b, a)
    BY <1>1 DEF HoldsTop, HeapOf
  <2>3. l \in Nat /\ DOMAIN h = 1 .. l
    BY <2>2
  <2>4. K = Members(h)
    BY <2>3 DEF Members
  <2> HIDE DEF N, l, K, P
  <2>5. l = (IF k < N THEN k ELSE N)
    BY <2>1, <2>2
  <2> QED BY <2>1, <2>2, <2>3, <2>4, <2>5
<1>3. Cardinality(K) = l
  <2> DEFINE f == [n \in 1 .. l |-> h[n]]
  <2>1. f \in Bijection(1 .. l, K)
    <3>1. f \in [1 .. l -> K] /\ \A n \in 1 .. l : f[n] = h[n]
      BY <1>2
    <3>2. \A m, n \in 1 .. l : f[m] = f[n] => m = n
      BY <1>1 DEF HoldsTop, HeapOf, Distinct
    <3>3. \A x \in K : \E n \in 1 .. l : f[n] = x
      BY <1>2
    <3> HIDE DEF f, K
    <3> QED BY <3>1, <3>2, <3>3 DEF Bijection, Injection, Surjection, IsInjective
  <2>2. IsFiniteSet(1 .. l) /\ Cardinality(1 .. l) = l
    <3>1. l \in Nat
      BY <1>2
    <3> HIDE DEF l
    <3>2. IsFiniteSet(1 .. l) /\ Cardinality(1 .. l) = IF 1 > l THEN 0 ELSE l - 1 + 1
      BY <3>1, FS_Interval
    <3> QED BY <3>1, <3>2
  <2> HIDE DEF K, f
  <2>3. ExistsBijection(1 .. l, K)
    BY <2>1 DEF ExistsBijection
  <2> QED BY <2>2, <2>3, FS_Bijection
<1>4. TopK(rows, k) = [i \in 1 .. l |-> rows[CHOOSE n \in K : Height(rows, K, n) = i - 1]]
  <2>1. TopK(rows, k) = [i \in DOMAIN h |->
            rows[CHOOSE n \in K : Cardinality({m \in K : IsLowerPriority(rows, n, m)}) = i - 1]]
    BY DEF TopK, h
  <2> HIDE DEF K
  <2>2. \A n : Height(rows, K, n) = Cardinality({m \in K : IsLowerPriority(rows, n, m)})
    BY DEF Height, Above, Lower
  <2>3. ASSUME NEW i
        PROVE  (CHOOSE n \in K : Cardinality({m \in K : IsLowerPriority(rows, n, m)}) = i - 1)
               = (CHOOSE n \in K : Height(rows, K, n) = i - 1)
    BY <2>2
  <2>4. DOMAIN h = 1 .. l
    BY <1>2
  <2> HIDE DEF l
  <2> QED BY <2>1, <2>3, <2>4
<1> HIDE DEF K, N, l, P
<1>5. ASSUME NEW i \in 1 .. l
      PROVE  (CHOOSE n \in K : Height(rows, K, n) = i - 1) = (CHOOSE n \in P : Height(rows, P, n) = i - 1)
  <2>1. PICK n \in K : Height(rows, K, n) = i - 1
    BY <1>2, <1>3, HeightsReached DEF P
  <2>2. \A m \in K : Height(rows, K, m) = i - 1 => m = n
    BY <1>2, <2>1, HeightsDiffer DEF P
  <2>3. Above(rows, K, n) = Above(rows, P, n)
    <3>1. ASSUME NEW m \in P, m \notin K PROVE ~Lower(rows, n, m)
      <4>1. Lower(rows, m, n) /\ n \in P
        BY <1>2, <2>1, <3>1
      <4> QED BY <4>1, PrioritiesOrder DEF P
    <3> QED BY <1>2, <3>1 DEF Above
  <2>4. n \in P /\ Height(rows, P, n) = i - 1
    BY <1>2, <2>1, <2>3 DEF Height
  <2>5. \A m \in P : Height(rows, P, m) = i - 1 => m = n
    BY <2>4, HeightsDiffer DEF P
  <2> QED BY <2>1, <2>2, <2>4, <2>5
<1>6. InOrder(rows) = [i \in P |-> rows[CHOOSE n \in P : Height(rows, P, n) = i - 1]]
  BY InOrderIs DEF P
<1>7. 1 .. l \subseteq P
  BY <1>2
<1>8. \A i \in 1 .. l : TopK(rows, k)[i] = InOrder(rows)[i]
  BY <1>4, <1>5, <1>6, <1>7
<1> QED BY <1>2, <1>4, <1>6, <1>8 DEF N

-----------------------------------------------------------------------------
(* The pages                                                               *)

LEMMA PageQuotient ==
  ASSUME NEW a \in Nat, NEW b \in Nat \ {0}
  PROVE  /\ a \div b \in Nat /\ a % b \in Nat /\ a % b < b
         /\ a = (a \div b) * b + (a % b)
<1>1. a \div b \in Nat
  OBVIOUS
<1>2. a % b \in Nat /\ a % b < b
  OBVIOUS
<1>3. a = b * (a \div b) + (a % b)
  OBVIOUS
<1>4. b * (a \div b) = (a \div b) * b
  BY <1>1
<1> QED BY <1>1, <1>2, <1>3, <1>4

LEMMA PageStart ==
  ASSUME NEW p \in Nat, NEW q \in Nat, NEW s \in Nat \ {0}
  PROVE  /\ p * s \in Nat /\ q * s \in Nat
         /\ p < q => p * s + s <= q * s
         /\ (p + 1) * s = p * s + s
<1>1. p * s \in Nat /\ q * s \in Nat
  OBVIOUS
<1>2. (p + 1) * s = p * s + s
  OBVIOUS
<1>3. ASSUME p < q PROVE p * s + s <= q * s
  <2> DEFINE d == q - (p + 1)
  <2>1. d \in Nat /\ q = (p + 1) + d
    BY <1>3
  <2> HIDE DEF d
  <2>2. ((p + 1) + d) * s = (p + 1) * s + d * s
    BY <2>1
  <2>3. d * s \in Nat
    BY <2>1
  <2> QED BY <1>1, <1>2, <2>1, <2>2, <2>3
<1> QED BY <1>1, <1>2, <1>3

\* There are as many pages as the rows need, and none of them is empty.
LEMMA TotalPagesIs ==
  ASSUME NEW rows, Len(rows) \in Nat, NEW size \in Nat \ {0}
  PROVE  /\ TotalPages(rows, size) \in Nat \ {0}
         /\ TotalPages(rows, size) * size \in Nat
         /\ Len(rows) <= TotalPages(rows, size) * size
         /\ \A p \in 0 .. TotalPages(rows, size) - 1 :
               p * size \in Nat /\ (Len(rows) > 0 => p * size < Len(rows))
<1> DEFINE N == Len(rows)
           t == TotalPages(rows, size)
<1>1. CASE N <= size
  <2>1. t = 1
    BY <1>1 DEF TotalPages
  <2> HIDE DEF t
  <2>2. 1 * size = size /\ 0 * size = 0 /\ \A p \in 0 .. 1 - 1 : p = 0
    OBVIOUS
  <2> HIDE DEF N
  <2>3. \A p \in 0 .. t - 1 : p * size = 0
    BY <2>1, <2>2
  <2>4. N \in Nat
    BY DEF N
  <2> QED BY <1>1, <2>1, <2>2, <2>3, <2>4 DEF t, N
<1>2. CASE N > size
  <2> DEFINE a == N + size - 1
             q == a \div size
             r == a % size
  <2>1. t = q
    BY <1>2 DEF TotalPages
  <2>2. a \in Nat /\ N \in Nat
    BY <1>2
  <2> HIDE DEF t, N
  <2>3. a = N + size - 1
    OBVIOUS
  <2> HIDE DEF a
  <2>4. q \in Nat /\ r \in Nat /\ r < size /\ a = q * size + r
    BY <2>2, PageQuotient
  <2> HIDE DEF q, r
  <2>5. q * size \in Nat /\ (q = 0 => q * size = 0)
    BY <2>4, PageStart
  <2> DEFINE m == q * size
  <2>6. m \in Nat /\ a = m + r
    BY <2>4, <2>5
  <2>7. q = 0 => m = 0
    BY <2>5
  <2> HIDE DEF m
  <2>8. N <= m /\ q # 0
    BY <1>2, <2>2, <2>3, <2>4, <2>6, <2>7
  <2>9. ASSUME NEW p \in 0 .. q - 1 PROVE p * size \in Nat /\ p * size < N
    <3>1. p \in Nat /\ p < q
      BY <2>4
    <3>2. p * size \in Nat /\ p * size + size <= q * size
      BY <2>4, <3>1, PageStart
    <3> DEFINE x == p * size
    <3>3. x \in Nat /\ x + size <= m
      BY <3>2 DEF m
    <3> HIDE DEF x
    <3>4. x < N
      BY <2>2, <2>3, <2>4, <2>6, <3>3
    <3> QED BY <3>3, <3>4 DEF x
  <2>10. t \in Nat \ {0} /\ t * size \in Nat /\ N <= t * size
    BY <2>1, <2>4, <2>6, <2>8 DEF m
  <2> QED BY <2>1, <2>9, <2>10 DEF t, N
<1>3. N <= size \/ N > size
  OBVIOUS
<1> QED BY <1>1, <1>2, <1>3

LEMMA ClampPageIs ==
  ASSUME NEW p \in Int, NEW total \in Nat \ {0}
  PROVE  /\ ClampPage(p, total) \in 0 .. total - 1
         /\ p \in 0 .. total - 1 => ClampPage(p, total) = p
BY DEF ClampPage

\* A slice of the rows of the heap is that slice of the sorted rows.
LEMMA SliceIs ==
  ASSUME NEW rows \in Seq(Row), NEW start \in Nat, NEW size \in Nat \ {0}
  PROVE  LET top == TopK(rows, start + size)
             end == IF start + size < Len(rows) THEN start + size ELSE Len(rows)
             slice == SubSeq(top, start + 1, IF Len(top) < start + size THEN Len(top) ELSE start + size)
         IN  /\ slice = SubSeq(InOrder(rows), start + 1, end)
             /\ start < Len(rows) => slice # <<>>
<1> DEFINE N == Len(rows)
           k == start + size
           top == TopK(rows, k)
           end == IF k < N THEN k ELSE N
           all == InOrder(rows)
           last == IF Len(top) < k THEN Len(top) ELSE k
           V == {all[i] : i \in 1 .. N}
<1>1. N \in Nat /\ k \in Nat \ {0} /\ end \in Nat /\ end <= N /\ end <= k
  OBVIOUS
<1>2. DOMAIN top = 1 .. end /\ DOMAIN all = 1 .. N /\ \A i \in 1 .. end : top[i] = all[i]
  BY <1>1, TopKIs
<1>3. top = [i \in DOMAIN top |-> top[i]] /\ all = [i \in DOMAIN all |-> all[i]]
  BY DEF TopK, InOrder
<1>e. end = (IF k < N THEN k ELSE N)
  OBVIOUS
<1> HIDE DEF N, k, top, all, end, V
<1>4. all \in Seq(V) /\ Len(all) = N
  <2>1. \A i \in 1 .. N : all[i] \in V
    BY DEF V
  <2> QED BY <1>1, <1>2, <1>3, <2>1
<1>5. top \in Seq(V) /\ Len(top) = end
  <2>1. \A i \in 1 .. end : i \in 1 .. N
    BY <1>1
  <2>2. \A i \in 1 .. end : top[i] \in V
    BY <1>2, <2>1 DEF V
  <2> QED BY <1>1, <1>2, <1>3, <2>2
<1>6. last = end
  BY <1>1, <1>5, <1>e
<1> HIDE DEF last
<1>7. SubSeq(top, start + 1, end) = SubSeq(all, start + 1, end)
  <2> DEFINE a == SubSeq(top, start + 1, end)
             b == SubSeq(all, start + 1, end)
             n == IF start + 1 <= end THEN end - (start + 1) + 1 ELSE 0
  <2>1. \A i \in start + 1 .. end : i \in 1 .. end /\ i \in 1 .. N
    BY <1>1
  <2>2. \A i \in start + 1 .. end : top[i] \in V /\ all[i] \in V /\ top[i] = all[i]
    BY <1>2, <2>1 DEF V
  <2>3. /\ a \in Seq(V) /\ Len(a) = n
        /\ \A i \in 1 .. end - (start + 1) + 1 : a[i] = top[(start + 1) + i - 1]
    BY <1>1, <2>2, SubSeqProperties
  <2>4. /\ b \in Seq(V) /\ Len(b) = n
        /\ \A i \in 1 .. end - (start + 1) + 1 : b[i] = all[(start + 1) + i - 1]
    BY <1>1, <2>2, SubSeqProperties
  <2> HIDE DEF a, b
  <2>5. n \in Nat /\ \A i \in 1 .. n : i \in 1 .. end - (start + 1) + 1 /\ (start + 1) + i - 1 \in start + 1 .. end
    BY <1>1
  <2> HIDE DEF n
  <2>6. \A i \in 1 .. n : a[i] = b[i]
    BY <2>2, <2>3, <2>4, <2>5
  <2>7. a = b
    BY <2>3, <2>4, <2>5, <2>6
  <2> QED BY <2>7 DEF a, b
<1>8. start < N => SubSeq(top, start + 1, end) # <<>>
  <2>1. ASSUME start < N PROVE start + 1 <= end
    <3>1. start < k
      BY DEF k
    <3> QED BY <1>1, <1>e, <2>1, <3>1
  <2> QED BY <1>1, <1>5, <2>1
<1> QED BY <1>6, <1>7, <1>8 DEF N, k, top, all, end, last

-----------------------------------------------------------------------------
(* Transaction history                                                     *)

LEMMA FilteredIs ==
  ASSUME NEW rows \in Seq(Row), NEW status
  PROVE  Filtered(rows, status) \in Seq(Row)
<1> DEFINE S == {n \in DOMAIN rows : status \in {"ALL", rows[n].status}}
<1>1. S \subseteq DOMAIN rows /\ DOMAIN rows = 1 .. Len(rows) /\ Len(rows) \in Nat
  OBVIOUS
<1>2. IsFiniteSet(1 .. Len(rows)) /\ 1 .. Len(rows) \subseteq Nat
  BY <1>1, FS_Interval
<1>3. Filtered(rows, status) = Picked(rows, S)
  BY DEF Filtered
<1> HIDE DEF S
<1>4. S \in SUBSET Nat /\ IsFiniteSet(S)
  BY <1>1, <1>2, FS_Subset
<1> QED BY <1>1, <1>3, <1>4, PickedIs

LEMMA NormalizedIs ==
  ASSUME NEW payload \in Seq(Row)
  PROVE  Normalized(payload) \in Seq(Row)
<1> DEFINE S == {n \in DOMAIN payload :
                   payload[n].id # 0 /\ \A m \in 1 .. n - 1 : payload[m].id # payload[n].id}
<1>1. S \subseteq DOMAIN payload /\ DOMAIN payload = 1 .. Len(payload) /\ Len(payload) \in Nat
  OBVIOUS
<1>2. IsFiniteSet(1 .. Len(payload)) /\ 1 .. Len(payload) \subseteq Nat
  BY <1>1, FS_Interval
<1>3. Normalized(payload) = Picked(payload, S)
  BY DEF Normalized
<1> HIDE DEF S
<1>4. S \in SUBSET Nat /\ IsFiniteSet(S)
  BY <1>1, <1>2, FS_Subset
<1> QED BY <1>1, <1>3, <1>4, PickedIs

\* An answer consists of rows.
LEMMA PayloadsAre ==
  ASSUME NEW payload \in Payloads
  PROVE  payload \in Seq(Row)
<1> DEFINE Answer(size, times, odd, twice) ==
             [n \in 1 .. size |->
                [id |-> IF n = odd THEN twice ELSE n, at |-> times[n],
                 status |-> IF n % 2 = 1 THEN "CONFIRMED" ELSE "PENDING"]]
           Answers(size) == {Answer(size, times, odd, twice) :
                               times \in [1 .. size -> 0 .. LatestTime], odd \in {0, 2}, twice \in {0, 1}}
<1>1. PICK size \in 0 .. PayloadMax : payload \in Answers(size)
  <2>1. Payloads = UNION {Answers(size) : size \in 0 .. PayloadMax}
    BY DEF Payloads
  <2> HIDE DEF Answers
  <2> QED BY <2>1
<1>2. PICK times \in [1 .. size -> 0 .. LatestTime], odd \in {0, 2}, twice \in {0, 1} :
        payload = Answer(size, times, odd, twice)
  <2> HIDE DEF Answer
  <2> QED BY <1>1
<1>3. size \in Nat
  BY HistoryConstants
<1>4. ASSUME NEW n \in 1 .. size PROVE payload[n] \in Row
  <2>1. times[n] \in Nat
    <3>1. times[n] \in 0 .. LatestTime
      OBVIOUS
    <3> QED BY <3>1, HistoryConstants
  <2>2. (IF n = odd THEN twice ELSE n) \in Int
    OBVIOUS
  <2>3. (IF n % 2 = 1 THEN "CONFIRMED" ELSE "PENDING") \in Statuses
    BY DEF Statuses
  <2> DEFINE i == IF n = odd THEN twice ELSE n
             s == IF n % 2 = 1 THEN "CONFIRMED" ELSE "PENDING"
  <2>4. payload[n] = [id |-> i, at |-> times[n], status |-> s]
    BY <1>2
  <2> HIDE DEF i, s
  <2> QED BY <2>1, <2>2, <2>3, <2>4 DEF Row, i, s
<1>5. DOMAIN payload = 1 .. size /\ payload = [n \in 1 .. size |-> payload[n]]
  BY <1>2
<1> QED BY <1>3, <1>4, <1>5

\* What the memo holds is of the array and the signature it names; a new array
\* has never the name of the one that the memo is of.
HistoryInv ==
    /\ transactions \in Seq(Row)
    /\ array \in {0, 1}
    /\ historyPage \in Int
    /\ pageSize \in Nat \ {0}
    /\ memo.array = array => memo.filtered = Filtered(transactions, memo.signature)

LEMMA InitHistory == HistoryInit => HistoryInv
<1> SUFFICES ASSUME HistoryInit PROVE HistoryInv
  OBVIOUS
<1>1. transactions \in Seq(Row) /\ array = 0 /\ historyPage = 0 /\ pageSize = 10
  BY DEF HistoryInit, DefaultPageSize
<1>2. memo.array = -1
  BY DEF HistoryInit, NoMemo
<1> QED BY <1>1, <1>2 DEF HistoryInv

LEMMA EntryIs ==
  ASSUME HistoryInv
  PROVE  /\ SelectorEntry.filtered = Passing /\ Passing \in Seq(Row)
         /\ SelectorEntry.array = array
         /\ SelectorEntry.filtered = Filtered(transactions, SelectorEntry.signature)
<1>1. Passing \in Seq(Row)
  BY FilteredIs DEF HistoryInv, Passing
<1>2. CASE memo.array = array /\ memo.signature = filters
  <2>1. SelectorEntry = memo
    BY <1>2 DEF SelectorEntry
  <2>2. memo.filtered = Filtered(transactions, memo.signature)
    BY <1>2 DEF HistoryInv
  <2> QED BY <1>1, <1>2, <2>1, <2>2 DEF Passing
<1>3. CASE ~(memo.array = array /\ memo.signature = filters)
  <2>1. SelectorEntry = [array |-> array, signature |-> filters, filtered |-> Filtered(transactions, filters)]
    BY <1>3 DEF SelectorEntry
  <2> QED BY <1>1, <2>1 DEF Passing
<1> QED BY <1>2, <1>3

\* The page of some rows is that of an integer.
LEMMA PageStaysInt ==
  ASSUME NEW p \in Int, NEW rows, Len(rows) \in Nat, NEW size \in Nat \ {0}
  PROVE  ClampPage(p, TotalPages(rows, size)) \in Int
<1>1. TotalPages(rows, size) \in Nat \ {0}
  BY TotalPagesIs
<1> QED BY <1>1 DEF ClampPage

LEMMA StepKeepsHistory == HistoryInv /\ [HistoryNext]_historyVars => HistoryInv'
<1> SUFFICES ASSUME HistoryInv, [HistoryNext]_historyVars PROVE HistoryInv'
  OBVIOUS
<1>i. /\ transactions \in Seq(Row) /\ array \in {0, 1} /\ historyPage \in Int /\ pageSize \in Nat \ {0}
      /\ memo.array = array => memo.filtered = Filtered(transactions, memo.signature)
  BY DEF HistoryInv
<1>n. NoMemo.array = -1
  BY DEF NoMemo
<1>1. ASSUME UNCHANGED <<transactions, array, memo>>, historyPage' \in Int, pageSize' \in Nat \ {0}
      PROVE  HistoryInv'
  BY <1>i, <1>1 DEF HistoryInv
<1>2. ASSUME UNCHANGED <<transactions, array>>, memo' = SelectorEntry,
             historyPage' \in Int, pageSize' \in Nat \ {0}
      PROVE  HistoryInv'
  <2>1. memo'.filtered = Filtered(transactions', memo'.signature)
    BY <1>2, EntryIs
  <2> QED BY <1>i, <1>2, <2>1 DEF HistoryInv
<1>3. ASSUME transactions' \in Seq(Row), array' = 1 - array,
             memo' = IF memo.array = array' THEN NoMemo ELSE memo,
             historyPage' \in Int, pageSize' \in Nat \ {0}
      PROVE  HistoryInv'
  <2>1. array' \in {0, 1}
    BY <1>i, <1>3
  <2>2. memo'.array # array'
    BY <1>n, <1>3, <2>1
  <2> QED BY <1>3, <2>1, <2>2 DEF HistoryInv
<1>4. ASSUME NEW payload, payload \in Seq(Row), LoadSuccess(payload) PROVE HistoryInv'
  <2>1. transactions' \in Seq(Row)
    BY <1>4, NormalizedIs DEF LoadSuccess
  <2>2. historyPage' \in Int
    <3>1. Len(transactions') \in Nat
      BY <2>1
    <3> QED BY <1>i, <1>4, <3>1, PageStaysInt DEF LoadSuccess
  <2> QED BY <1>i, <1>3, <1>4, <2>1, <2>2 DEF LoadSuccess
<1>5. CASE LoadStart
  BY <1>i, <1>1, <1>5 DEF LoadStart, Loaded
<1>6. CASE LoadFailure
  BY <1>i, <1>1, <1>6 DEF LoadFailure, Loaded
<1>7. CASE ResetHistory
  BY <1>3, <1>7 DEF ResetHistory, DefaultPageSize
<1>8. CASE RenderHistory
  BY <1>i, <1>2, <1>8 DEF RenderHistory, Loaded
<1>9. ASSUME NEW payload \in IF transactions = <<>> THEN Payloads ELSE {SubSeq(transactions, 1, 1)},
             LoadSuccess(payload)
      PROVE  HistoryInv'
  <2>1. CASE transactions = <<>>
    <3>1. payload \in Seq(Row)
      BY <2>1, PayloadsAre
    <3> QED BY <1>4, <1>9, <3>1
  <2>2. CASE transactions # <<>>
    <3>1. payload = SubSeq(transactions, 1, 1)
      BY <2>2
    <3>2. \A i \in 1 .. 1 : transactions[i] \in Row
      BY <1>i, <2>2
    <3>3. payload \in Seq(Row)
      BY <3>1, <3>2, SubSeqProperties
    <3> QED BY <1>4, <1>9, <3>3
  <2> QED BY <2>1, <2>2
<1>10. ASSUME NEW f, SetFilter(f) PROVE HistoryInv'
  BY <1>i, <1>1, <1>10 DEF SetFilter, Loaded
<1>11. ASSUME NEW p \in -1 .. PayloadMax, SetPage(p) PROVE HistoryInv'
  <2>1. p \in Int
    BY HistoryConstants
  <2>2. Len(SelectorEntry.filtered) \in Nat
    BY EntryIs
  <2>3. historyPage' \in Int
    BY <1>i, <1>11, <2>1, <2>2, PageStaysInt DEF SetPage
  <2> QED BY <1>i, <1>2, <1>11, <2>3 DEF SetPage, Loaded
<1>12. ASSUME NEW size \in HistorySizes, SetPageSize(size) PROVE HistoryInv'
  <2>1. size \in Nat \ {0}
    BY HistoryConstants
  <2> QED BY <1>i, <1>1, <1>12, <2>1 DEF SetPageSize, Loaded
<1>13. CASE UNCHANGED historyVars
  BY <1>i, <1>1, <1>13 DEF historyVars
<1> QED BY <1>5, <1>6, <1>7, <1>8, <1>9, <1>10, <1>11, <1>12, <1>13 DEF HistoryNext

LEMMA HistoryInvGivesPages == HistoryInv => PagesExact
<1> SUFFICES ASSUME HistoryInv PROVE PagesExact
  OBVIOUS
<1> DEFINE N == Len(Passing)
           total == TotalPages(Passing, pageSize)
           End(p) == IF (p + 1) * pageSize < N THEN (p + 1) * pageSize ELSE N
           Slice(p) == SubSeq(NewestFirst, p * pageSize + 1, End(p))
<1>1. /\ SelectorEntry.filtered = Passing /\ Passing \in Seq(Row)
      /\ pageSize \in Nat \ {0} /\ historyPage \in Int
  BY EntryIs DEF HistoryInv
<1>2. N \in Nat
  BY <1>1
<1>3. /\ total \in Nat \ {0} /\ N <= total * pageSize
      /\ \A p \in 0 .. total - 1 : p * pageSize \in Nat /\ (N > 0 => p * pageSize < N)
  BY <1>1, <1>2, TotalPagesIs
<1>4. NewestFirst = InOrder(Passing)
  BY DEF NewestFirst, InOrder
<1>5. ASSUME NEW q \in Int, NEW p, p = ClampPage(q, total)
      PROVE  Visible(q) = Slice(p) /\ (N > 0 => Visible(q) # <<>>)
  <2>1. p \in 0 .. total - 1
    BY <1>3, <1>5, ClampPageIs
  <2> DEFINE start == p * pageSize
             top == TopK(Passing, start + pageSize)
             slice == SubSeq(top, start + 1, IF Len(top) < start + pageSize THEN Len(top) ELSE start + pageSize)
  <2>2. start \in Nat /\ (N > 0 => start < N)
    BY <1>3, <2>1
  <2>3. Visible(q) = slice
    BY <1>1, <1>5 DEF Visible
  <2>4. (p + 1) * pageSize = start + pageSize
    BY <1>1, <1>3, <2>1, PageStart
  <2> HIDE DEF start
  <2>5. /\ slice = SubSeq(InOrder(Passing), start + 1, IF start + pageSize < N THEN start + pageSize ELSE N)
        /\ start < N => slice # <<>>
    BY <1>1, <2>2, SliceIs
  <2> HIDE DEF slice, N
  <2>6. Slice(p) = SubSeq(InOrder(Passing), start + 1, IF start + pageSize < N THEN start + pageSize ELSE N)
    BY <1>4, <2>4 DEF start
  <2> QED BY <2>2, <2>3, <2>5, <2>6
<1>6. ASSUME NEW p \in 0 .. total - 1 PROVE Visible(p) = Slice(p)
  <2>1. p \in Int /\ p = ClampPage(p, total)
    BY <1>3, ClampPageIs
  <2> QED BY <1>5, <2>1
<1>7. Passing # <<>> => N > 0
  BY <1>1
<1>8. Passing # <<>> => Visible(historyPage) # <<>>
  BY <1>1, <1>5, <1>7
<1> QED BY <1>3, <1>6, <1>8 DEF PagesExact

\* The pages of the table (transaction-history.ts:676) are the slices of the rows
\* that pass the filter, newest first, whatever was loaded, filtered and turned
\* to before and whatever the memo shared by the selectors holds.
THEOREM PagesAlwaysExact == HistorySpec => []PagesExact
<1> QED BY InitHistory, StepKeepsHistory, HistoryInvGivesPages, PTL DEF HistorySpec

=============================================================================
