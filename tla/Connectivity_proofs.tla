-------------------------- MODULE Connectivity_proofs --------------------------
(***************************************************************************)
(* Proofs about Connectivity: its types, that the copy of the plug-in's      *)
(* thread follows the checker, and that what it says at rest is the truth.   *)
(***************************************************************************)
EXTENDS Connectivity, FiniteSetTheorems, TLAPS

-----------------------------------------------------------------------------
(* Queues *)

\* A message put in a queue of messages gives a queue of messages.
LEMMA AppendType ==
  ASSUME NEW S, NEW q \in Seq(S), NEW m \in S
  PROVE  Append(q, m) \in Seq(S)
  OBVIOUS

\* What is taken from a queue of messages is a message, and a queue is left.
LEMMA HeadTailType ==
  ASSUME NEW S, NEW q \in Seq(S), q # <<>>
  PROVE  Head(q) \in S /\ Tail(q) \in Seq(S)
  OBVIOUS

\* Who reads the news that has just been sent has it, whatever was sent before.
LEMMA FollowsAppendNews ==
  ASSUME NEW S, NEW q \in Seq(S), NEW m \in S, NEW kind, m.kind = kind, NEW old
  PROVE  Follows(Append(q, m), kind, old, m.now)
  <1> DEFINE r == Append(q, m)
  <1>1. Len(r) = Len(q) + 1 /\ Len(q) \in Nat /\ r[Len(q) + 1] = m
    OBVIOUS
  <1>2. Len(q) + 1 \in News(r, kind)
    BY <1>1 DEF News
  <1>3. \A j \in News(r, kind) : j <= Len(q) + 1
    BY <1>1 DEF News
  <1> QED
    BY <1>1, <1>2, <1>3 DEF Follows

\* A message of another kind makes no difference to the news in a queue.
LEMMA FollowsAppendOther ==
  ASSUME NEW S, NEW q \in Seq(S), NEW m \in S, NEW kind, m.kind # kind, NEW old, NEW new,
         Follows(q, kind, old, new)
  PROVE  Follows(Append(q, m), kind, old, new)
  <1> DEFINE r == Append(q, m)
  <1>1. /\ Len(r) = Len(q) + 1 /\ Len(q) \in Nat /\ r[Len(q) + 1] = m
        /\ \A i \in 1..Len(q) : r[i] = q[i]
    OBVIOUS
  <1>2. News(r, kind) = News(q, kind)
    <2>1. ASSUME NEW i \in News(r, kind) PROVE i \in News(q, kind)
      BY <1>1, <2>1 DEF News
    <2>2. ASSUME NEW i \in News(q, kind) PROVE i \in News(r, kind)
      BY <1>1, <2>2 DEF News
    <2> QED
      BY <2>1, <2>2
  <1>3. \A i \in News(q, kind) : r[i] = q[i]
    BY <1>1 DEF News
  <1> QED
    BY <1>2, <1>3 DEF Follows

\* Who reads the first of the news has what it says, and still follows.
LEMMA FollowsTailNews ==
  ASSUME NEW S, NEW q \in Seq(S), q # <<>>, NEW kind, Head(q).kind = kind, NEW old, NEW new,
         Follows(q, kind, old, new)
  PROVE  Follows(Tail(q), kind, Head(q).now, new)
  <1>1. /\ Len(Tail(q)) = Len(q) - 1 /\ Len(q) \in Nat /\ Len(q) >= 1 /\ Head(q) = q[1]
        /\ \A i \in 1..Len(q) - 1 : Tail(q)[i] = q[i + 1]
    OBVIOUS
  <1>2. 1 \in News(q, kind)
    BY <1>1 DEF News
  <1>3. PICK i \in News(q, kind) : q[i].now = new /\ \A j \in News(q, kind) : j <= i
    BY <1>2 DEF Follows
  <1>4. \A j \in News(Tail(q), kind) : j + 1 \in News(q, kind)
    BY <1>1 DEF News
  <1>5. CASE i = 1
    <2>1. News(Tail(q), kind) = {}
      BY <1>3, <1>4, <1>5 DEF News
    <2> QED
      BY <1>1, <1>3, <1>5, <2>1 DEF Follows
  <1>6. CASE i # 1
    <2>1. i - 1 \in News(Tail(q), kind) /\ Tail(q)[i - 1] = q[i]
      BY <1>1, <1>3, <1>6 DEF News
    <2>2. \A j \in News(Tail(q), kind) : j <= i - 1
      BY <1>3, <1>4 DEF News
    <2> QED
      BY <1>3, <2>1, <2>2 DEF Follows
  <1> QED
    BY <1>5, <1>6

\* Reading a message of another kind makes no difference.
LEMMA FollowsTailOther ==
  ASSUME NEW S, NEW q \in Seq(S), q # <<>>, NEW kind, Head(q).kind # kind, NEW old, NEW new,
         Follows(q, kind, old, new)
  PROVE  Follows(Tail(q), kind, old, new)
  <1>1. /\ Len(Tail(q)) = Len(q) - 1 /\ Len(q) \in Nat /\ Len(q) >= 1 /\ Head(q) = q[1]
        /\ \A i \in 1..Len(q) - 1 : Tail(q)[i] = q[i + 1]
    OBVIOUS
  <1>2. \A j \in News(Tail(q), kind) : j + 1 \in News(q, kind)
    BY <1>1 DEF News
  <1>3. \A i \in News(q, kind) : i - 1 \in News(Tail(q), kind) /\ Tail(q)[i - 1] = q[i]
    BY <1>1 DEF News
  <1>4. CASE News(q, kind) = {} /\ old = new
    BY <1>2, <1>4 DEF Follows
  <1>5. CASE \E i \in News(q, kind) : q[i].now = new /\ \A j \in News(q, kind) : j <= i
    <2>1. PICK i \in News(q, kind) : q[i].now = new /\ \A j \in News(q, kind) : j <= i
      BY <1>5
    <2>2. \A j \in News(Tail(q), kind) : j <= i - 1
      BY <1>2, <2>1 DEF News
    <2> QED
      BY <1>3, <2>1, <2>2 DEF Follows
  <1> QED
    BY <1>4, <1>5 DEF Follows

-----------------------------------------------------------------------------
(* The parts of actions *)

\* The four kinds of message to the plug-in are of the right type.
LEMMA MessageTypes ==
  ASSUME NEW gen \in GenerationIds, NEW answer \in Answers, NEW level \in Levels,
         NEW url \in Urls \cup {NoUrl}
  PROVE  /\ ConnectivityNews(level) \in PluginMessage /\ PortalNews(url) \in PluginMessage
         /\ ProbeOrder(gen) \in PluginMessage /\ ProbeResult(gen, answer) \in PluginMessage
  BY DEF PluginMessage, ConnectivityNews, PortalNews, ProbeOrder, ProbeResult

\* The copy follows, of both kinds of news, over a queue.
BothFollow(q, c, url, level, page) ==
  Follows(q, "connectivity", c, level) /\ Follows(q, "portal", url, page)

\* A check that is started, or left for later, tells the reader nothing.
LEMMA StartCheckStep ==
  ASSUME TypeOK, NEW before \in Seq(PluginMessage), StartCheck(before)
  PROVE  /\ generation' \in GenerationIds /\ toPlugin' \in Seq(PluginMessage)
         /\ unprobed' \in BOOLEAN /\ debouncing' \in BOOLEAN /\ pendingCheck' \in BOOLEAN
         /\ \A c, url, level, page : BothFollow(before, c, url, level, page)
                                      => BothFollow(toPlugin', c, url, level, page)
  <1>1. CASE StartProbeCheck(before) /\ debouncing' = TRUE /\ pendingCheck' = FALSE
    <2>1. PICK gen \in GenerationIds : generation' = gen /\ toPlugin' = Append(before, ProbeOrder(gen))
      BY <1>1, CountsAssumption DEF StartProbeCheck, TypeOK, GenerationIds
    <2>2. ProbeOrder(gen) \in PluginMessage
      BY <2>1 DEF PluginMessage, ProbeOrder
    <2>3. ProbeOrder(gen).kind # "connectivity" /\ ProbeOrder(gen).kind # "portal"
      BY DEF ProbeOrder
    <2>4. ASSUME NEW c, NEW url, NEW level, NEW page, BothFollow(before, c, url, level, page)
          PROVE  BothFollow(toPlugin', c, url, level, page)
      <3>1. Follows(toPlugin', "connectivity", c, level)
        BY <2>1, <2>2, <2>3, <2>4, FollowsAppendOther DEF BothFollow
      <3>2. Follows(toPlugin', "portal", url, page)
        BY <2>1, <2>2, <2>3, <2>4, FollowsAppendOther DEF BothFollow
      <3> QED
        BY <3>1, <3>2 DEF BothFollow
    <2>5. toPlugin' \in Seq(PluginMessage)
      BY <2>1, <2>2, AppendType
    <2>6. unprobed' \in BOOLEAN
      BY <1>1 DEF StartProbeCheck
    <2> QED
      BY <1>1, <2>1, <2>4, <2>5, <2>6
  <1>2. CASE /\ pendingCheck' = TRUE /\ toPlugin' = before
             /\ UNCHANGED <<generation, unprobed, debouncing>>
    BY <1>2 DEF TypeOK
  <1> QED
    BY <1>1, <1>2 DEF StartCheck

\* The first guess is announced, and never concerns a portal.
LEMMA DefaultStep ==
  ASSUME TypeOK, UrlWithPortal, CacheFollows
  PROVE  /\ DefaultConnectivity \in Levels /\ DefaultNews \in Seq(PluginMessage)
         /\ DefaultConnectivity = "Portal" <=> portalUrl # NoUrl
         /\ BothFollow(DefaultNews, cached, cachedUrl, DefaultConnectivity, portalUrl)
  <1> DEFINE m == ConnectivityNews(DefaultConnectivity)
  <1>1. /\ DefaultConnectivity \in Levels
        /\ DefaultConnectivity = "Portal" <=> portalUrl # NoUrl
    BY DEF DefaultConnectivity, Guesses, TypeOK, Levels, UrlWithPortal
  <1>2. m \in PluginMessage /\ m.kind = "connectivity" /\ m.now = DefaultConnectivity
    BY <1>1 DEF PluginMessage, ConnectivityNews
  <1>3. CASE Guesses
    <2>1. DefaultNews = Append(toPlugin, m) /\ toPlugin \in Seq(PluginMessage)
      BY <1>3 DEF DefaultNews, TypeOK
    <2>2. DefaultNews \in Seq(PluginMessage)
      BY <1>2, <2>1, AppendType
    <2>3. Follows(DefaultNews, "connectivity", cached, DefaultConnectivity)
      BY <1>2, <2>1, FollowsAppendNews
    <2>4. Follows(DefaultNews, "portal", cachedUrl, portalUrl)
      <3>1. m.kind # "portal"
        BY <1>2
      <3> QED
        BY <1>2, <2>1, <3>1, FollowsAppendOther DEF CacheFollows
    <2> QED
      BY <1>1, <2>2, <2>3, <2>4 DEF BothFollow
  <1>4. CASE ~Guesses
    BY <1>1, <1>4 DEF DefaultConnectivity, DefaultNews, TypeOK, CacheFollows, BothFollow
  <1> QED
    BY <1>3, <1>4

\* setPortalUrl announces what it changes.
LEMMA PortalStep ==
  ASSUME NEW before \in Seq(PluginMessage), NEW c, NEW old, NEW level,
         NEW url \in Urls \cup {NoUrl}, BothFollow(before, c, old, level, portalUrl)
  PROVE  /\ PortalChange(url, before) \in Seq(PluginMessage)
         /\ BothFollow(PortalChange(url, before), c, old, level, url)
  <1> DEFINE m == PortalNews(url)
  <1>1. CASE url = portalUrl
    BY <1>1 DEF PortalChange
  <1>2. CASE url # portalUrl
    <2>1. m \in PluginMessage /\ m.kind = "portal" /\ m.now = url /\ m.kind # "connectivity"
      BY DEF PluginMessage, PortalNews
    <2>2. PortalChange(url, before) = Append(before, m)
      BY <1>2 DEF PortalChange
    <2>3. Append(before, m) \in Seq(PluginMessage)
      BY <2>1, AppendType
    <2>4. Follows(Append(before, m), "portal", old, url)
      BY <2>1, FollowsAppendNews
    <2>5. Follows(Append(before, m), "connectivity", c, level)
      BY <2>1, FollowsAppendOther DEF BothFollow
    <2> QED
      BY <2>2, <2>3, <2>4, <2>5 DEF BothFollow
  <1> QED
    BY <1>1, <1>2

\* setConnectivity announces always.
LEMMA ConnectivityStep ==
  ASSUME NEW before \in Seq(PluginMessage), NEW c, NEW old, NEW level, NEW page,
         NEW now \in Levels, BothFollow(before, c, old, level, page)
  PROVE  /\ Append(before, ConnectivityNews(now)) \in Seq(PluginMessage)
         /\ BothFollow(Append(before, ConnectivityNews(now)), c, old, now, page)
  <1> DEFINE m == ConnectivityNews(now)
  <1>1. m \in PluginMessage /\ m.kind = "connectivity" /\ m.now = now /\ m.kind # "portal"
    BY DEF PluginMessage, ConnectivityNews
  <1>2. Append(before, m) \in Seq(PluginMessage)
    BY <1>1, AppendType
  <1>3. Follows(Append(before, m), "connectivity", c, now)
    BY <1>1, FollowsAppendNews
  <1>4. Follows(Append(before, m), "portal", old, page)
    BY <1>1, FollowsAppendOther DEF BothFollow
  <1> QED
    BY <1>2, <1>3, <1>4 DEF BothFollow

\* A result, whichever of its two announcements comes first.
LEMMA DecideStep ==
  ASSUME TypeOK, CacheFollows, NEW answer \in Answers, Decide(answer)
  PROVE  /\ connectivity' \in Levels /\ portalUrl' \in Urls \cup {NoUrl}
         /\ toPlugin' \in Seq(PluginMessage)
         /\ connectivity' = "Portal" <=> portalUrl' # NoUrl
         /\ BothFollow(toPlugin', cached, cachedUrl, connectivity', portalUrl')
  <1> DEFINE level == Judged(answer, devices)
             url   == UrlOf(answer)
  <1>1. /\ level \in Levels /\ url \in Urls \cup {NoUrl} /\ NoUrl \in Urls \cup {NoUrl}
        /\ level = "Portal" <=> url # NoUrl
        /\ answer = "unreachable" => url = NoUrl
    BY NoneAssumption, AnswersAssumption DEF Judged, UrlOf, Answers, Levels
  <1>2. /\ connectivity' = level /\ portalUrl' = url
        /\ toPlugin' = IF answer = "unreachable"
                       THEN Append(PortalChange(NoUrl, toPlugin), ConnectivityNews(level))
                       ELSE PortalChange(url, Append(toPlugin, ConnectivityNews(level)))
    BY DEF Decide
  <1>3. /\ toPlugin \in Seq(PluginMessage)
        /\ BothFollow(toPlugin, cached, cachedUrl, connectivity, portalUrl)
    BY DEF TypeOK, CacheFollows, BothFollow
  <1> HIDE DEF level, url
  <1>4. CASE answer = "unreachable"
    <2>1. /\ PortalChange(NoUrl, toPlugin) \in Seq(PluginMessage)
          /\ BothFollow(PortalChange(NoUrl, toPlugin), cached, cachedUrl, connectivity, NoUrl)
      BY <1>1, <1>3, PortalStep
    <2>2. /\ toPlugin' \in Seq(PluginMessage)
          /\ BothFollow(toPlugin', cached, cachedUrl, level, NoUrl)
      BY <1>1, <1>2, <1>4, <2>1, ConnectivityStep
    <2> QED
      BY <1>1, <1>2, <1>4, <2>2
  <1>5. CASE answer # "unreachable"
    <2>1. /\ Append(toPlugin, ConnectivityNews(level)) \in Seq(PluginMessage)
          /\ BothFollow(Append(toPlugin, ConnectivityNews(level)), cached, cachedUrl, level, portalUrl)
      BY <1>1, <1>3, ConnectivityStep
    <2>2. /\ toPlugin' \in Seq(PluginMessage)
          /\ BothFollow(toPlugin', cached, cachedUrl, level, url)
      BY <1>1, <1>2, <1>5, <2>1, PortalStep
    <2> QED
      BY <1>1, <1>2, <2>2
  <1> QED
    BY <1>4, <1>5

-----------------------------------------------------------------------------
(* The invariant *)

IInv == TypeOK /\ UrlWithPortal /\ CacheFollows

LEMMA InitInvariant == Init => IInv
  <1> SUFFICES ASSUME Init PROVE IInv
    OBVIOUS
  <1>1. TypeOK
    <2>1. toPlugin \in Seq(PluginMessage) /\ toProber \in Seq([kind: {"probe"}, gen: GenerationIds])
      BY DEF Init
    <2>2. toChecker \in Seq([kind: {"result"}, gen: GenerationIds, answer: Answers])
      BY DEF Init
    <2>3. generation \in GenerationIds /\ checkCount \in 0..Polls /\ changes \in Nat
      BY CountsAssumption DEF Init, GenerationIds
    <2>4. connectivity \in Levels /\ cached \in Levels
      BY DEF Init, Levels
    <2> QED
      BY <2>1, <2>2, <2>3, <2>4 DEF Init, TypeOK
  <1>2. UrlWithPortal
    BY DEF Init, UrlWithPortal
  <1>3. News(toPlugin, "connectivity") = {} /\ News(toPlugin, "portal") = {}
    BY DEF Init, News
  <1>4. CacheFollows
    BY <1>3 DEF Init, CacheFollows, Follows
  <1> QED
    BY <1>1, <1>2, <1>4 DEF IInv

\* A step of StatusChecker that leaves the reader's copy and the other queues alone.
LEMMA CheckerStep ==
  ASSUME IInv, UNCHANGED <<localVars, toProber>>,
         toChecker' \in Seq([kind: {"result"}, gen: GenerationIds, answer: Answers]),
         web' \in Answers, devices' \in DeviceStates, primary' \in Conns \cup {NoConn},
         changes' \in Nat, started' \in BOOLEAN, polling' \in BOOLEAN,
         checkCount' \in 0..Polls, debouncing' \in BOOLEAN, pendingCheck' \in BOOLEAN,
         unprobed' \in BOOLEAN, generation' \in GenerationIds,
         connectivity' \in Levels, portalUrl' \in Urls \cup {NoUrl},
         toPlugin' \in Seq(PluginMessage),
         connectivity' = "Portal" <=> portalUrl' # NoUrl,
         BothFollow(toPlugin', cached, cachedUrl, connectivity', portalUrl')
  PROVE  IInv'
  <1>1. TypeOK'
    BY DEF IInv, TypeOK, localVars
  <1>2. UrlWithPortal'
    BY DEF UrlWithPortal
  <1>3. CacheFollows'
    BY DEF CacheFollows, BothFollow, localVars
  <1> QED
    BY <1>1, <1>2, <1>3 DEF IInv

\* A step that reads the queue of the plug-in, or adds what is no news to it.
LEMMA PluginStepKeeps ==
  ASSUME IInv, UNCHANGED <<network, unprobed, checkerVars>>,
         cached' \in Levels, cachedUrl' \in Urls \cup {NoUrl}, urlPrimary' \in Conns \cup {NoConn},
         toPlugin' \in Seq(PluginMessage),
         toProber' \in Seq([kind: {"probe"}, gen: GenerationIds]),
         toChecker' \in Seq([kind: {"result"}, gen: GenerationIds, answer: Answers]),
         BothFollow(toPlugin', cached', cachedUrl', connectivity, portalUrl)
  PROVE  IInv'
  <1>1. TypeOK'
    BY DEF IInv, TypeOK, network, checkerVars
  <1>2. UrlWithPortal'
    BY DEF IInv, UrlWithPortal, checkerVars
  <1>3. CacheFollows'
    BY DEF CacheFollows, BothFollow, checkerVars
  <1> QED
    BY <1>1, <1>2, <1>3 DEF IInv

LEMMA NextInvariant == IInv /\ [Next]_vars => IInv'
  <1> SUFFICES ASSUME IInv, [Next]_vars PROVE IInv'
    OBVIOUS
  <1>1. TypeOK /\ UrlWithPortal /\ CacheFollows
    BY DEF IInv
  <1>2. /\ toPlugin \in Seq(PluginMessage)
        /\ BothFollow(toPlugin, cached, cachedUrl, connectivity, portalUrl)
        /\ connectivity = "Portal" <=> portalUrl # NoUrl
    BY <1>1 DEF TypeOK, CacheFollows, BothFollow, UrlWithPortal
  <1>3. /\ DefaultConnectivity \in Levels /\ DefaultNews \in Seq(PluginMessage)
        /\ DefaultConnectivity = "Portal" <=> portalUrl # NoUrl
        /\ BothFollow(DefaultNews, cached, cachedUrl, DefaultConnectivity, portalUrl)
    BY <1>1, DefaultStep
  <1>4. CASE InitConnectivityChecker
    <2>1. /\ connectivity' = DefaultConnectivity /\ StartCheck(DefaultNews)
          /\ started' = TRUE
          /\ UNCHANGED <<network, portalUrl, polling, checkCount, localVars, toProber, toChecker>>
      BY <1>4 DEF InitConnectivityChecker
    <2>2. /\ generation' \in GenerationIds /\ toPlugin' \in Seq(PluginMessage)
          /\ unprobed' \in BOOLEAN /\ debouncing' \in BOOLEAN /\ pendingCheck' \in BOOLEAN
          /\ BothFollow(toPlugin', cached, cachedUrl, connectivity', portalUrl')
      BY <1>1, <1>3, <2>1, StartCheckStep
    <2> QED
      BY <1>1, <1>3, <2>1, <2>2, CheckerStep DEF TypeOK, network
  <1>5. CASE CheckConnectivity
    <2>1. /\ connectivity' = DefaultConnectivity /\ checkCount' = 0 /\ changes' = changes + 1
          /\ UNCHANGED <<web, devices, primary, started, portalUrl, localVars, toProber, toChecker>>
      BY <1>5 DEF CheckConnectivity
    <2>2. /\ generation' \in GenerationIds /\ toPlugin' \in Seq(PluginMessage)
          /\ unprobed' \in BOOLEAN /\ debouncing' \in BOOLEAN /\ pendingCheck' \in BOOLEAN
          /\ polling' \in BOOLEAN
          /\ BothFollow(toPlugin', cached, cachedUrl, connectivity', portalUrl')
      <3>1. CASE polling /\ StartCheck(DefaultNews) /\ UNCHANGED polling
        BY <1>1, <1>3, <2>1, <3>1, StartCheckStep DEF TypeOK
      <3>2. CASE /\ polling' = TRUE /\ toPlugin' = DefaultNews
                 /\ UNCHANGED <<generation, unprobed, debouncing, pendingCheck>>
        BY <1>1, <1>3, <2>1, <3>2 DEF TypeOK
      <3> QED
        BY <1>5, <3>1, <3>2 DEF CheckConnectivity
    <2>3. checkCount' \in 0..Polls /\ changes' \in Nat
      BY <1>1, <2>1, CountsAssumption DEF TypeOK
    <2> QED
      BY <1>1, <1>3, <2>1, <2>2, <2>3, CheckerStep DEF TypeOK
  <1>6. CASE PollTimerFires
    <2>1. /\ StartCheck(toPlugin)
          /\ UNCHANGED <<network, started, connectivity, portalUrl, localVars, toProber, toChecker>>
      BY <1>6 DEF PollTimerFires
    <2>2. checkCount' \in 0..Polls /\ polling' \in BOOLEAN
      <3>1. checkCount \in 0..Polls /\ Polls \in Nat
        BY <1>1, CountsAssumption DEF TypeOK
      <3>2. CASE checkCount >= Polls
        <4>1. checkCount' = 0 /\ polling' \in BOOLEAN
          BY <1>6, <3>2, Zenon DEF PollTimerFires
        <4> QED
          BY <3>1, <4>1
      <3>3. CASE ~(checkCount >= Polls)
        <4>1. checkCount' = checkCount + 1 /\ polling' = polling
          BY <1>6, <3>3 DEF PollTimerFires
        <4>2. checkCount' \in 0..Polls
          BY <3>1, <3>3, <4>1
        <4> QED
          BY <1>1, <4>1, <4>2 DEF TypeOK
      <3> QED
        BY <3>2, <3>3
    <2>3. /\ generation' \in GenerationIds /\ toPlugin' \in Seq(PluginMessage)
          /\ unprobed' \in BOOLEAN /\ debouncing' \in BOOLEAN /\ pendingCheck' \in BOOLEAN
          /\ BothFollow(toPlugin', cached, cachedUrl, connectivity', portalUrl')
      BY <1>1, <1>2, <2>1, StartCheckStep
    <2> QED
      BY <1>1, <1>2, <2>1, <2>2, <2>3, CheckerStep DEF TypeOK, network
  <1>7. CASE DebounceTimerFires
    <2>1. /\ debouncing' = FALSE /\ pendingCheck' = FALSE
          /\ UNCHANGED <<network, started, connectivity, portalUrl, polling, checkCount,
                         localVars, toProber, toChecker>>
      BY <1>7 DEF DebounceTimerFires
    <2>2. CASE StartProbeCheck(toPlugin)
      <3>1. PICK gen \in GenerationIds :
              generation' = gen /\ toPlugin' = Append(toPlugin, ProbeOrder(gen))
        BY <1>1, <2>2, CountsAssumption DEF StartProbeCheck, TypeOK, GenerationIds
      <3>2. ProbeOrder(gen) \in PluginMessage /\ ProbeOrder(gen).kind = "probe"
        BY DEF PluginMessage, ProbeOrder
      <3>3. toPlugin' \in Seq(PluginMessage)
        BY <1>2, <3>1, <3>2, AppendType
      <3>4. "probe" # "connectivity" /\ "probe" # "portal"
        OBVIOUS
      <3>5. Follows(toPlugin', "connectivity", cached, connectivity)
        BY <1>2, <3>1, <3>2, <3>4, FollowsAppendOther DEF BothFollow
      <3>6. Follows(toPlugin', "portal", cachedUrl, portalUrl)
        BY <1>2, <3>1, <3>2, <3>4, FollowsAppendOther DEF BothFollow
      <3>7. BothFollow(toPlugin', cached, cachedUrl, connectivity', portalUrl')
        BY <2>1, <3>5, <3>6 DEF BothFollow
      <3>8. unprobed' \in BOOLEAN
        BY <2>2 DEF StartProbeCheck
      <3> QED
        BY <1>1, <1>2, <2>1, <3>1, <3>3, <3>7, <3>8, CheckerStep DEF TypeOK, network
    <2>3. CASE UNCHANGED <<toPlugin, generation, unprobed>>
      BY <1>1, <1>2, <2>1, <2>3, CheckerStep DEF TypeOK, network
    <2> QED
      BY <1>7, <2>2, <2>3 DEF DebounceTimerFires
  <1>8. CASE CheckTimerFires \/ CheckTimerMeetsCheck
    <2>1. /\ StartCheck(toPlugin)
          /\ changes' \in Nat
          /\ UNCHANGED <<web, devices, primary, started, connectivity, portalUrl, polling,
                         checkCount, localVars, toProber, toChecker>>
      BY <1>1, <1>8 DEF CheckTimerFires, CheckTimerMeetsCheck, Change, network, TypeOK
    <2>2. /\ generation' \in GenerationIds /\ toPlugin' \in Seq(PluginMessage)
          /\ unprobed' \in BOOLEAN /\ debouncing' \in BOOLEAN /\ pendingCheck' \in BOOLEAN
          /\ BothFollow(toPlugin', cached, cachedUrl, connectivity', portalUrl')
      BY <1>1, <1>2, <2>1, StartCheckStep
    <2> QED
      BY <1>1, <1>2, <2>1, <2>2, CheckerStep DEF TypeOK, network
  <1>9. CASE OnProbeResult
    <2>1. /\ toChecker # <<>> /\ toChecker' = Tail(toChecker)
          /\ UNCHANGED <<network, unprobed, started, generation, polling, checkCount, debouncing,
                         pendingCheck, localVars, toProber>>
      BY <1>9 DEF OnProbeResult
    <2>2. /\ Head(toChecker).answer \in Answers
          /\ toChecker' \in Seq([kind: {"result"}, gen: GenerationIds, answer: Answers])
      <3>1. toChecker \in Seq([kind: {"result"}, gen: GenerationIds, answer: Answers])
        BY <1>1 DEF TypeOK
      <3>2. Head(toChecker) \in [kind: {"result"}, gen: GenerationIds, answer: Answers]
        BY <2>1, <3>1, HeadTailType
      <3> QED
        BY <2>1, <3>1, <3>2, HeadTailType
    <2>3. CASE Decide(Head(toChecker).answer)
      <3>1. /\ connectivity' \in Levels /\ portalUrl' \in Urls \cup {NoUrl}
            /\ toPlugin' \in Seq(PluginMessage)
            /\ connectivity' = "Portal" <=> portalUrl' # NoUrl
            /\ BothFollow(toPlugin', cached, cachedUrl, connectivity', portalUrl')
        BY <1>1, <2>2, <2>3, DecideStep
      <3> QED
        BY <1>1, <2>1, <2>2, <3>1, CheckerStep DEF TypeOK, network
    <2>4. CASE UNCHANGED <<connectivity, portalUrl, toPlugin>>
      BY <1>1, <1>2, <2>1, <2>2, <2>4, CheckerStep DEF TypeOK, network
    <2> QED
      BY <1>9, <2>3, <2>4 DEF OnProbeResult
  <1>10. CASE Probe
    <2> DEFINE order == Head(toProber)
               result == ProbeResult(order.gen, web)
    <2>1. /\ toProber # <<>> /\ toProber' = Tail(toProber) /\ toPlugin' = Append(toPlugin, result)
          /\ UNCHANGED <<network, unprobed, checkerVars, localVars, toChecker>>
      BY <1>10 DEF Probe
    <2>2. toProber \in Seq([kind: {"probe"}, gen: GenerationIds]) /\ web \in Answers
      BY <1>1 DEF TypeOK
    <2>3. /\ order \in [kind: {"probe"}, gen: GenerationIds]
          /\ toProber' \in Seq([kind: {"probe"}, gen: GenerationIds])
      BY <2>1, <2>2, HeadTailType
    <2>4. /\ result \in PluginMessage
          /\ result.kind # "connectivity" /\ result.kind # "portal"
      BY <2>2, <2>3 DEF ProbeResult, PluginMessage
    <2>5. toPlugin' \in Seq(PluginMessage)
      BY <1>2, <2>1, <2>4, AppendType
    <2>6. Follows(toPlugin', "connectivity", cached, connectivity)
      BY <1>2, <2>1, <2>4, FollowsAppendOther DEF BothFollow
    <2>7. Follows(toPlugin', "portal", cachedUrl, portalUrl)
      BY <1>2, <2>1, <2>4, FollowsAppendOther DEF BothFollow
    <2>8. BothFollow(toPlugin', cached', cachedUrl', connectivity, portalUrl)
      BY <2>1, <2>6, <2>7 DEF BothFollow, localVars
    <2> QED
      BY <1>1, <2>1, <2>3, <2>5, <2>8, PluginStepKeeps DEF TypeOK, localVars
  <1>11. CASE PluginStep
    <2> DEFINE m == Head(toPlugin)
    <2>1. toPlugin # <<>> /\ toPlugin' = Tail(toPlugin)
      BY <1>11 DEF PluginStep, StartProbe, OnProbeFinished, OnConnectivityChanged,
                   OnPortalDetected, Receive
    <2>2. m \in PluginMessage /\ toPlugin' \in Seq(PluginMessage)
      BY <1>2, <2>1, HeadTailType
    <2>3. m.kind # "connectivity" => Follows(toPlugin', "connectivity", cached, connectivity)
      BY <1>2, <2>1, FollowsTailOther DEF BothFollow
    <2>4. m.kind # "portal" => Follows(toPlugin', "portal", cachedUrl, portalUrl)
      BY <1>2, <2>1, FollowsTailOther DEF BothFollow
    <2>5. CASE StartProbe
      <3>1. /\ m.kind = "probe" /\ toProber' = Append(toProber, m)
            /\ UNCHANGED <<network, unprobed, checkerVars, localVars, toChecker>>
        BY <2>5 DEF StartProbe, Receive
      <3>2. m \in [kind: {"probe"}, gen: GenerationIds]
        BY <2>2, <3>1 DEF PluginMessage
      <3>3. toProber' \in Seq([kind: {"probe"}, gen: GenerationIds])
        BY <1>1, <3>1, <3>2, AppendType DEF TypeOK
      <3>4. BothFollow(toPlugin', cached', cachedUrl', connectivity, portalUrl)
        BY <2>3, <2>4, <3>1 DEF BothFollow, localVars
      <3> QED
        BY <1>1, <2>2, <3>1, <3>3, <3>4, PluginStepKeeps DEF TypeOK, localVars
    <2>6. CASE OnProbeFinished
      <3>1. /\ m.kind = "result" /\ toChecker' = Append(toChecker, m)
            /\ UNCHANGED <<network, unprobed, checkerVars, localVars, toProber>>
        BY <2>6 DEF OnProbeFinished, Receive
      <3>2. m \in [kind: {"result"}, gen: GenerationIds, answer: Answers]
        BY <2>2, <3>1 DEF PluginMessage
      <3>3. toChecker' \in Seq([kind: {"result"}, gen: GenerationIds, answer: Answers])
        BY <1>1, <3>1, <3>2, AppendType DEF TypeOK
      <3>4. BothFollow(toPlugin', cached', cachedUrl', connectivity, portalUrl)
        BY <2>3, <2>4, <3>1 DEF BothFollow, localVars
      <3> QED
        BY <1>1, <2>2, <3>1, <3>3, <3>4, PluginStepKeeps DEF TypeOK, localVars
    <2>7. CASE OnConnectivityChanged
      <3>1. /\ m.kind = "connectivity" /\ cached' = m.now
            /\ UNCHANGED <<network, unprobed, checkerVars, cachedUrl, urlPrimary, toProber, toChecker>>
        BY <2>7 DEF OnConnectivityChanged, Receive
      <3>2. cached' \in Levels
        BY <2>2, <3>1 DEF PluginMessage
      <3>3. Follows(toPlugin', "connectivity", cached', connectivity)
        BY <1>2, <2>1, <3>1, FollowsTailNews DEF BothFollow
      <3>4. BothFollow(toPlugin', cached', cachedUrl', connectivity, portalUrl)
        BY <2>4, <3>1, <3>3 DEF BothFollow
      <3> QED
        BY <1>1, <2>2, <3>1, <3>2, <3>4, PluginStepKeeps DEF TypeOK
    <2>8. CASE OnPortalDetected
      <3>1. /\ m.kind = "portal" /\ cachedUrl' = m.now /\ urlPrimary' = primary
            /\ UNCHANGED <<network, unprobed, checkerVars, cached, toProber, toChecker>>
        BY <2>8 DEF OnPortalDetected, Receive
      <3>2. cachedUrl' \in Urls \cup {NoUrl}
        BY <2>2, <3>1 DEF PluginMessage
      <3>3. Follows(toPlugin', "portal", cachedUrl', portalUrl)
        BY <1>2, <2>1, <3>1, FollowsTailNews DEF BothFollow
      <3>4. BothFollow(toPlugin', cached', cachedUrl', connectivity, portalUrl)
        BY <2>3, <3>1, <3>3 DEF BothFollow
      <3> QED
        BY <1>1, <2>2, <3>1, <3>2, <3>4, PluginStepKeeps DEF TypeOK
    <2> QED
      BY <1>11, <2>5, <2>6, <2>7, <2>8 DEF PluginStep
  <1>12. ASSUME NEW w \in Answers, WebChanges(w)
         PROVE  IInv'
    BY <1>1, <1>2, <1>12, CheckerStep DEF WebChanges, Change, TypeOK, checkerVars, queues
  <1>13. ASSUME NEW w \in Answers, NEW d \in DeviceStates, OnDevicesChanged(d, w)
         PROVE  IInv'
    <2>1. /\ changes' = changes + 1 /\ devices' = d /\ web' = w
          /\ UNCHANGED <<primary, started, connectivity, portalUrl, polling, checkCount,
                         localVars, toProber, toChecker>>
      BY <1>13 DEF OnDevicesChanged, Change
    <2>2. /\ generation' \in GenerationIds /\ toPlugin' \in Seq(PluginMessage)
          /\ unprobed' \in BOOLEAN /\ debouncing' \in BOOLEAN /\ pendingCheck' \in BOOLEAN
          /\ BothFollow(toPlugin', cached, cachedUrl, connectivity', portalUrl')
      <3>1. CASE StartCheck(toPlugin)
        BY <1>1, <1>2, <2>1, <3>1, StartCheckStep
      <3>2. CASE UNCHANGED <<toPlugin, generation, unprobed, debouncing, pendingCheck>>
        BY <1>1, <1>2, <2>1, <3>2 DEF TypeOK
      <3> QED
        BY <1>13, <3>1, <3>2 DEF OnDevicesChanged
    <2> QED
      BY <1>1, <1>2, <2>1, <2>2, CheckerStep DEF TypeOK
  <1>14. ASSUME NEW w \in Answers, NEW c \in Conns \cup {NoConn}, OnActiveConnectionsChanged(c, w)
         PROVE  IInv'
    <2>1. /\ changes' = changes + 1 /\ primary' = c /\ web' = w
          /\ UNCHANGED <<devices, unprobed, started, portalUrl, generation, debouncing,
                         pendingCheck, localVars, toProber, toChecker>>
      BY <1>14 DEF OnActiveConnectionsChanged, Change
    <2>2. CASE /\ checkCount' = 0 /\ polling' = TRUE
               /\ connectivity' = DefaultConnectivity /\ toPlugin' = DefaultNews
      BY <1>1, <1>3, <2>1, <2>2, CountsAssumption, CheckerStep DEF TypeOK
    <2>3. CASE UNCHANGED <<checkCount, polling, connectivity, toPlugin>>
      BY <1>1, <1>2, <2>1, <2>3, CheckerStep DEF TypeOK
    <2> QED
      BY <1>14, <2>2, <2>3 DEF OnActiveConnectionsChanged
  <1>15. CASE UNCHANGED vars
    BY <1>15 DEF IInv, TypeOK, UrlWithPortal, CacheFollows, vars, network, checkerVars,
                 localVars, queues
  <1> QED
    BY <1>4, <1>5, <1>6, <1>7, <1>8, <1>9, <1>10, <1>11, <1>12, <1>13, <1>14, <1>15
    DEF Next, NetworkStep

\* Every variable of the three threads and their queues keeps its type.
THEOREM TypeCorrect == Spec => []TypeOK
  <1>1. IInv => TypeOK
    BY DEF IInv
  <1> QED
    BY <1>1, InitInvariant, NextInvariant, PTL DEF Spec

\* A login page is kept by the checker exactly as long as a login is needed.
THEOREM UrlNeedsPortal == Spec => []UrlWithPortal
  <1>1. IInv => UrlWithPortal
    BY DEF IInv
  <1> QED
    BY <1>1, InitInvariant, NextInvariant, PTL DEF Spec

\* What everybody reads, once the news on its way is read, is what the checker has.
THEOREM CacheIsCurrent == Spec => []CacheFollows
  <1>1. IInv => CacheFollows
    BY DEF IInv
  <1> QED
    BY <1>1, InitInvariant, NextInvariant, PTL DEF Spec

-----------------------------------------------------------------------------
(* Which probe is the newest *)

\* How many probes were started since one of generation gen, when now is the generation.
Age(gen, now) == IF gen <= now THEN now - gen ELSE now + Generations - gen

\* In a queue, and of two places, the older messages come first.
Falling(q, kind, now) ==
  \A i, j \in 1..Len(q) :
    i < j /\ q[i].kind = kind /\ q[j].kind = kind => Age(q[i].gen, now) > Age(q[j].gen, now)
Over(A, B, now) == \A g \in A, h \in B : Age(g, now) > Age(h, now)

\* The probes under way are the last ones that were started, in this order.
InOrder ==
  /\ Falling(toPlugin, "probe", generation) /\ Falling(toProber, "probe", generation)
  /\ Falling(toPlugin, "result", generation) /\ Falling(toChecker, "result", generation)
  /\ Over(Gens(toProber, "probe"), Gens(toPlugin, "probe"), generation)
  /\ Over(Gens(toPlugin, "result"), Gens(toProber, "probe") \cup Gens(toPlugin, "probe"), generation)
  /\ Over(Gens(toChecker, "result"),
          Gens(toPlugin, "result") \cup Gens(toProber, "probe") \cup Gens(toPlugin, "probe"), generation)
  /\ \A g \in UnderWay : Age(g, generation) < Outstanding
  /\ Outstanding <= MaxProbes

\* Whether the result of a probe is in a queue.
HasResult(q, gen, answer) == \E i \in 1..Len(q) : q[i] = ProbeResult(gen, answer)

\* The newest probe will find the truth, or has found it and its result is on its way.
Promised ==
  \/ generation \in Gens(toPlugin, "probe") \cup Gens(toProber, "probe")
  \/ HasResult(toPlugin, generation, web) \/ HasResult(toChecker, generation, web)

\* The checker has the result of the newest probe, and it is the truth.
Settled ==
  /\ generation \notin UnderWay
  /\ connectivity = Judged(web, devices) /\ portalUrl = UrlOf(web)

WillBeRight == ~started \/ unprobed \/ polling \/ pendingCheck \/ Promised \/ Settled

\* Two queues have the same probes in them, in the same order.
SameProbes(q, r) ==
  /\ \A kind \in {"probe", "result"} :
       /\ Gens(r, kind) = Gens(q, kind)
       /\ \A now : Falling(q, kind, now) => Falling(r, kind, now)
  /\ \A gen, answer : HasResult(r, gen, answer) <=> HasResult(q, gen, answer)

-----------------------------------------------------------------------------
(* The order of the probes *)

\* The number that a generation is followed by.
LEMMA NextGeneration ==
  ASSUME NEW now \in GenerationIds
  PROVE  (now + 1) % Generations = IF now + 1 = Generations THEN 0 ELSE now + 1
  BY CountsAssumption DEF GenerationIds

\* A probe grows older by one with each that is started, until its number is taken again.
LEMMA AgeGrows ==
  ASSUME NEW now \in GenerationIds, NEW gen \in GenerationIds,
         Age(gen, now) + 1 < Generations
  PROVE  Age(gen, (now + 1) % Generations) = Age(gen, now) + 1
  BY NextGeneration, CountsAssumption DEF GenerationIds, Age

\* Only the newest generation has the age 0.
LEMMA AgeIsZero ==
  ASSUME NEW now \in GenerationIds, NEW gen \in GenerationIds
  PROVE  Age(gen, now) \in Nat /\ (Age(gen, now) = 0 <=> gen = now)
  BY CountsAssumption DEF GenerationIds, Age

\* Messages that are put into a queue and taken from it, by their generations.
LEMMA GensAppend ==
  ASSUME NEW S, NEW q \in Seq(S), NEW m \in S, NEW kind
  PROVE  Gens(Append(q, m), kind) = Gens(q, kind) \cup (IF m.kind = kind THEN {m.gen} ELSE {})
  <1> DEFINE r == Append(q, m)
  <1>1. /\ Len(r) = Len(q) + 1 /\ Len(q) \in Nat /\ r[Len(q) + 1] = m
        /\ \A i \in 1..Len(q) : r[i] = q[i]
    OBVIOUS
  <1> HIDE DEF r
  <1>2. ASSUME NEW g \in Gens(r, kind)
        PROVE  g \in Gens(q, kind) \cup (IF m.kind = kind THEN {m.gen} ELSE {})
    <2>1. PICK i \in 1..Len(r) : r[i].kind = kind /\ g = r[i].gen
      BY DEF Gens
    <2>2. CASE i = Len(q) + 1
      BY <1>1, <2>1, <2>2
    <2>3. CASE i # Len(q) + 1
      <3>1. i \in 1..Len(q) /\ q[i].kind = kind /\ g = q[i].gen
        BY <1>1, <2>1, <2>3
      <3> QED
        BY <3>1 DEF Gens
    <2> QED
      BY <2>2, <2>3
  <1>3. ASSUME NEW g \in Gens(q, kind)
        PROVE  g \in Gens(r, kind)
    <2>1. PICK i \in 1..Len(q) : q[i].kind = kind /\ g = q[i].gen
      BY DEF Gens
    <2>2. i \in 1..Len(r) /\ r[i].kind = kind /\ g = r[i].gen
      BY <1>1, <2>1
    <2> QED
      BY <2>2 DEF Gens
  <1>4. ASSUME m.kind = kind
        PROVE  m.gen \in Gens(r, kind)
    <2>1. Len(q) + 1 \in 1..Len(r) /\ r[Len(q) + 1].kind = kind /\ r[Len(q) + 1].gen = m.gen
      BY <1>1, <1>4
    <2> QED
      BY <2>1 DEF Gens
  <1> QED
    BY <1>2, <1>3, <1>4 DEF r

LEMMA GensTail ==
  ASSUME NEW S, NEW q \in Seq(S), q # <<>>, NEW kind
  PROVE  Gens(q, kind) = Gens(Tail(q), kind)
                           \cup (IF Head(q).kind = kind THEN {Head(q).gen} ELSE {})
  <1> DEFINE t == Tail(q)
  <1>1. /\ Len(t) = Len(q) - 1 /\ Len(q) \in Nat /\ Len(q) >= 1 /\ Head(q) = q[1]
        /\ \A i \in 1..Len(t) : t[i] = q[i + 1]
    OBVIOUS
  <1> HIDE DEF t
  <1>2. ASSUME NEW g \in Gens(q, kind)
        PROVE  g \in Gens(t, kind) \cup (IF Head(q).kind = kind THEN {Head(q).gen} ELSE {})
    <2>1. PICK i \in 1..Len(q) : q[i].kind = kind /\ g = q[i].gen
      BY DEF Gens
    <2>2. CASE i = 1
      BY <1>1, <2>1, <2>2
    <2>3. CASE i # 1
      <3>1. i - 1 \in 1..Len(t) /\ t[i - 1] = q[i]
        BY <1>1, <2>3
      <3> QED
        BY <2>1, <3>1 DEF Gens
    <2> QED
      BY <2>2, <2>3
  <1>3. ASSUME NEW g \in Gens(t, kind)
        PROVE  g \in Gens(q, kind)
    <2>1. PICK i \in 1..Len(t) : t[i].kind = kind /\ g = t[i].gen
      BY DEF Gens
    <2>2. i + 1 \in 1..Len(q) /\ q[i + 1].kind = kind /\ g = q[i + 1].gen
      BY <1>1, <2>1
    <2> QED
      BY <2>2 DEF Gens
  <1>4. ASSUME Head(q).kind = kind
        PROVE  Head(q).gen \in Gens(q, kind)
    <2>1. 1 \in 1..Len(q) /\ q[1].kind = kind /\ q[1].gen = Head(q).gen
      BY <1>1, <1>4
    <2> QED
      BY <2>1 DEF Gens
  <1> QED
    BY <1>2, <1>3, <1>4 DEF t

\* A newer message at the end keeps the order of a queue, one of another kind too.
LEMMA FallingAppend ==
  ASSUME NEW S, NEW q \in Seq(S), NEW m \in S, NEW kind, NEW now, Falling(q, kind, now),
         m.kind = kind => Over(Gens(q, kind), {m.gen}, now)
  PROVE  Falling(Append(q, m), kind, now)
  <1> DEFINE r == Append(q, m)
  <1>1. /\ Len(r) = Len(q) + 1 /\ Len(q) \in Nat /\ r[Len(q) + 1] = m
        /\ \A i \in 1..Len(q) : r[i] = q[i]
    OBVIOUS
  <1> HIDE DEF r
  <1>2. ASSUME NEW i \in 1..Len(r), NEW j \in 1..Len(r), i < j, r[i].kind = kind, r[j].kind = kind
        PROVE  Age(r[i].gen, now) > Age(r[j].gen, now)
    <2>1. i \in 1..Len(q) /\ r[i] = q[i]
      BY <1>1, <1>2
    <2>2. CASE j = Len(q) + 1
      <3>1. q[i].gen \in Gens(q, kind)
        BY <1>2, <2>1 DEF Gens
      <3>2. r[j] = m /\ m.kind = kind
        BY <1>1, <1>2, <2>2
      <3>3. Age(q[i].gen, now) > Age(m.gen, now)
        BY <3>1, <3>2 DEF Over
      <3> QED
        BY <2>1, <3>2, <3>3
    <2>3. CASE j # Len(q) + 1
      <3>1. j \in 1..Len(q) /\ r[j] = q[j]
        BY <1>1, <2>3
      <3> QED
        BY <1>2, <2>1, <3>1 DEF Falling
    <2> QED
      BY <2>2, <2>3
  <1> QED
    BY <1>2 DEF Falling, r

\* Without its first message a queue is in order; what was taken is older than what is left.
LEMMA FallingTail ==
  ASSUME NEW S, NEW q \in Seq(S), q # <<>>, NEW kind, NEW now, Falling(q, kind, now)
  PROVE  /\ Falling(Tail(q), kind, now)
         /\ Head(q).kind = kind => Over({Head(q).gen}, Gens(Tail(q), kind), now)
  <1> DEFINE t == Tail(q)
  <1>1. /\ Len(t) = Len(q) - 1 /\ Len(q) \in Nat /\ Len(q) >= 1 /\ Head(q) = q[1]
        /\ \A i \in 1..Len(t) : i + 1 \in 1..Len(q) /\ t[i] = q[i + 1]
    OBVIOUS
  <1> HIDE DEF t
  <1>2. ASSUME NEW i \in 1..Len(t), NEW j \in 1..Len(t), i < j, t[i].kind = kind, t[j].kind = kind
        PROVE  Age(t[i].gen, now) > Age(t[j].gen, now)
    <2>1. i + 1 < j + 1
      BY <1>2
    <2> QED
      BY <1>1, <1>2, <2>1 DEF Falling
  <1>3. ASSUME Head(q).kind = kind, NEW h \in Gens(t, kind)
        PROVE  Age(Head(q).gen, now) > Age(h, now)
    <2>1. PICK i \in 1..Len(t) : t[i].kind = kind /\ h = t[i].gen
      BY DEF Gens
    <2>2. 1 \in 1..Len(q) /\ 1 < i + 1 /\ q[1].kind = kind /\ q[i + 1].kind = kind /\ i + 1 \in 1..Len(q)
      BY <1>1, <1>3, <2>1
    <2>3. Age(q[1].gen, now) > Age(q[i + 1].gen, now)
      BY <2>2 DEF Falling
    <2> QED
      BY <1>1, <2>1, <2>3
  <1> QED
    BY <1>2, <1>3 DEF Falling, Over, t

LEMMA HasResultAppend ==
  ASSUME NEW S, NEW q \in Seq(S), NEW m \in S, NEW gen, NEW answer
  PROVE  HasResult(Append(q, m), gen, answer)
           <=> HasResult(q, gen, answer) \/ m = ProbeResult(gen, answer)
  <1> DEFINE r == Append(q, m)
  <1>1. /\ Len(r) = Len(q) + 1 /\ Len(q) \in Nat /\ r[Len(q) + 1] = m
        /\ \A i \in 1..Len(q) : r[i] = q[i]
    OBVIOUS
  <1> HIDE DEF r
  <1>2. ASSUME HasResult(r, gen, answer), m # ProbeResult(gen, answer)
        PROVE  HasResult(q, gen, answer)
    <2>1. PICK i \in 1..Len(r) : r[i] = ProbeResult(gen, answer)
      BY <1>2 DEF HasResult
    <2>2. i \in 1..Len(q) /\ q[i] = ProbeResult(gen, answer)
      BY <1>1, <1>2, <2>1
    <2> QED
      BY <2>2 DEF HasResult
  <1>3. ASSUME HasResult(q, gen, answer)
        PROVE  HasResult(r, gen, answer)
    <2>1. PICK i \in 1..Len(q) : q[i] = ProbeResult(gen, answer)
      BY <1>3 DEF HasResult
    <2>2. i \in 1..Len(r) /\ r[i] = ProbeResult(gen, answer)
      BY <1>1, <2>1
    <2> QED
      BY <2>2 DEF HasResult
  <1>4. ASSUME m = ProbeResult(gen, answer)
        PROVE  HasResult(r, gen, answer)
    <2>1. Len(q) + 1 \in 1..Len(r) /\ r[Len(q) + 1] = ProbeResult(gen, answer)
      BY <1>1, <1>4
    <2> QED
      BY <2>1 DEF HasResult
  <1> QED
    BY <1>2, <1>3, <1>4 DEF r

LEMMA HasResultTail ==
  ASSUME NEW S, NEW q \in Seq(S), q # <<>>, NEW gen, NEW answer
  PROVE  HasResult(q, gen, answer)
           <=> HasResult(Tail(q), gen, answer) \/ Head(q) = ProbeResult(gen, answer)
  <1> DEFINE t == Tail(q)
  <1>1. /\ Len(t) = Len(q) - 1 /\ Len(q) \in Nat /\ Len(q) >= 1 /\ Head(q) = q[1]
        /\ \A i \in 1..Len(t) : i + 1 \in 1..Len(q) /\ t[i] = q[i + 1]
    OBVIOUS
  <1> HIDE DEF t
  <1>2. ASSUME HasResult(q, gen, answer), Head(q) # ProbeResult(gen, answer)
        PROVE  HasResult(t, gen, answer)
    <2>1. PICK i \in 1..Len(q) : q[i] = ProbeResult(gen, answer)
      BY <1>2 DEF HasResult
    <2>2. i - 1 \in 1..Len(t) /\ t[i - 1] = ProbeResult(gen, answer)
      BY <1>1, <1>2, <2>1
    <2> QED
      BY <2>2 DEF HasResult
  <1>3. ASSUME HasResult(t, gen, answer)
        PROVE  HasResult(q, gen, answer)
    <2>1. PICK i \in 1..Len(t) : t[i] = ProbeResult(gen, answer)
      BY <1>3 DEF HasResult
    <2>2. i + 1 \in 1..Len(q) /\ q[i + 1] = ProbeResult(gen, answer)
      BY <1>1, <2>1
    <2> QED
      BY <2>2 DEF HasResult
  <1>4. ASSUME Head(q) = ProbeResult(gen, answer)
        PROVE  HasResult(q, gen, answer)
    <2>1. 1 \in 1..Len(q) /\ q[1] = ProbeResult(gen, answer)
      BY <1>1, <1>4
    <2> QED
      BY <2>1 DEF HasResult
  <1> QED
    BY <1>2, <1>3, <1>4 DEF t

\* News that are sent or read leave the probes in the queue as they are.
LEMMA NewsAreNoProbes ==
  ASSUME NEW q \in Seq(PluginMessage), NEW m \in PluginMessage,
         m.kind # "probe", m.kind # "result"
  PROVE  SameProbes(q, Append(q, m))
  <1>1. ASSUME NEW kind \in {"probe", "result"}
        PROVE  Gens(Append(q, m), kind) = Gens(q, kind)
    <2>1. m.kind # kind
      OBVIOUS
    <2>2. Gens(Append(q, m), kind) = Gens(q, kind) \cup (IF m.kind = kind THEN {m.gen} ELSE {})
      BY GensAppend
    <2> QED
      BY <2>1, <2>2
  <1>2. \A kind \in {"probe", "result"} : \A now :
          Falling(q, kind, now) => Falling(Append(q, m), kind, now)
    BY FallingAppend
  <1>3. \A gen, answer : m # ProbeResult(gen, answer)
    BY DEF ProbeResult
  <1>4. \A gen, answer : HasResult(Append(q, m), gen, answer) <=> HasResult(q, gen, answer)
    BY <1>3, HasResultAppend
  <1> QED
    BY <1>1, <1>2, <1>4 DEF SameProbes

LEMMA ReadNewsAreNoProbes ==
  ASSUME NEW q \in Seq(PluginMessage), q # <<>>, Head(q).kind # "probe", Head(q).kind # "result"
  PROVE  SameProbes(q, Tail(q))
  <1>1. ASSUME NEW kind \in {"probe", "result"}
        PROVE  Gens(Tail(q), kind) = Gens(q, kind)
    <2>1. Head(q).kind # kind
      OBVIOUS
    <2>2. Gens(q, kind) = Gens(Tail(q), kind)
                            \cup (IF Head(q).kind = kind THEN {Head(q).gen} ELSE {})
      BY GensTail
    <2> QED
      BY <2>1, <2>2
  <1>2. \A kind \in {"probe", "result"} : \A now :
          Falling(q, kind, now) => Falling(Tail(q), kind, now)
    BY FallingTail
  <1>3. \A gen, answer : Head(q) # ProbeResult(gen, answer)
    BY DEF ProbeResult
  <1>4. \A gen, answer : HasResult(Tail(q), gen, answer) <=> HasResult(q, gen, answer)
    BY <1>3, HasResultTail
  <1> QED
    BY <1>1, <1>2, <1>4 DEF SameProbes

LEMMA SameProbesTwice ==
  ASSUME NEW q, NEW r, NEW s, SameProbes(q, r), SameProbes(r, s)
  PROVE  SameProbes(q, s)
  BY DEF SameProbes

LEMMA SameProbesSelf ==
  ASSUME NEW q
  PROVE  SameProbes(q, q)
  BY DEF SameProbes

\* What is told to the plug-in's thread along with a check or a result is no probe.
LEMMA DefaultNewsAreNoProbes ==
  ASSUME TypeOK, DefaultConnectivity \in Levels
  PROVE  SameProbes(toPlugin, DefaultNews)
  <1> DEFINE m == ConnectivityNews(DefaultConnectivity)
  <1>1. m \in PluginMessage /\ m.kind # "probe" /\ m.kind # "result" /\ toPlugin \in Seq(PluginMessage)
    BY DEF ConnectivityNews, PluginMessage, TypeOK
  <1>2. SameProbes(toPlugin, Append(toPlugin, m))
    BY <1>1, NewsAreNoProbes
  <1> QED
    BY <1>2, SameProbesSelf DEF DefaultNews

LEMMA PortalNewsAreNoProbes ==
  ASSUME NEW q \in Seq(PluginMessage), NEW url \in Urls \cup {NoUrl}
  PROVE  /\ PortalChange(url, q) \in Seq(PluginMessage)
         /\ SameProbes(q, PortalChange(url, q))
  <1> DEFINE m == PortalNews(url)
  <1>1. m \in PluginMessage /\ m.kind # "probe" /\ m.kind # "result"
    BY DEF PortalNews, PluginMessage
  <1>2. SameProbes(q, Append(q, m)) /\ Append(q, m) \in Seq(PluginMessage)
    BY <1>1, NewsAreNoProbes, AppendType
  <1> QED
    BY <1>2, SameProbesSelf DEF PortalChange

LEMMA LevelNewsAreNoProbes ==
  ASSUME NEW q \in Seq(PluginMessage), NEW level \in Levels
  PROVE  /\ Append(q, ConnectivityNews(level)) \in Seq(PluginMessage)
         /\ SameProbes(q, Append(q, ConnectivityNews(level)))
  <1> DEFINE m == ConnectivityNews(level)
  <1>1. m \in PluginMessage /\ m.kind # "probe" /\ m.kind # "result"
    BY DEF ConnectivityNews, PluginMessage
  <1> QED
    BY <1>1, NewsAreNoProbes, AppendType

LEMMA DecisionsAreNoProbes ==
  ASSUME TypeOK, NEW answer \in Answers, Decide(answer)
  PROVE  /\ SameProbes(toPlugin, toPlugin')
         /\ connectivity' = Judged(answer, devices) /\ portalUrl' = UrlOf(answer)
  <1> DEFINE level == Judged(answer, devices)
             url   == UrlOf(answer)
  <1>1. level \in Levels /\ url \in Urls \cup {NoUrl} /\ toPlugin \in Seq(PluginMessage)
    BY DEF Judged, UrlOf, Levels, TypeOK
  <1>2. /\ connectivity' = level /\ portalUrl' = url
        /\ toPlugin' = IF answer = "unreachable"
                       THEN Append(PortalChange(NoUrl, toPlugin), ConnectivityNews(level))
                       ELSE PortalChange(url, Append(toPlugin, ConnectivityNews(level)))
    BY DEF Decide
  <1> HIDE DEF level, url
  <1>3. /\ SameProbes(toPlugin, PortalChange(NoUrl, toPlugin))
        /\ SameProbes(PortalChange(NoUrl, toPlugin),
                      Append(PortalChange(NoUrl, toPlugin), ConnectivityNews(level)))
    BY <1>1, PortalNewsAreNoProbes, LevelNewsAreNoProbes
  <1>4. /\ SameProbes(toPlugin, Append(toPlugin, ConnectivityNews(level)))
        /\ SameProbes(Append(toPlugin, ConnectivityNews(level)),
                      PortalChange(url, Append(toPlugin, ConnectivityNews(level))))
    BY <1>1, PortalNewsAreNoProbes, LevelNewsAreNoProbes
  <1>5. SameProbes(toPlugin, toPlugin')
    BY <1>2, <1>3, <1>4, SameProbesTwice
  <1> QED
    BY <1>2, <1>5 DEF level, url

-----------------------------------------------------------------------------
(* How the steps of a probe keep the order *)

Orders  == [kind: {"probe"}, gen: GenerationIds]
Results == [kind: {"result"}, gen: GenerationIds, answer: Answers]

\* What is in a queue of messages is a message.
LEMMA ElementType ==
  ASSUME NEW S, NEW q \in Seq(S), NEW i \in 1..Len(q)
  PROVE  q[i] \in S
  OBVIOUS

\* A message of a probe has a generation.
LEMMA GensTypes ==
  ASSUME TypeOK
  PROVE  /\ Gens(toPlugin, "probe") \subseteq GenerationIds
         /\ Gens(toPlugin, "result") \subseteq GenerationIds
         /\ Gens(toProber, "probe") \subseteq GenerationIds
         /\ Gens(toChecker, "result") \subseteq GenerationIds
         /\ UnderWay \subseteq GenerationIds /\ IsFiniteSet(UnderWay) /\ Outstanding \in Nat
  <1>1. Gens(toPlugin, "probe") \subseteq GenerationIds /\ Gens(toPlugin, "result") \subseteq GenerationIds
    <2>1. ASSUME NEW i \in 1..Len(toPlugin), toPlugin[i].kind \in {"probe", "result"}
          PROVE  toPlugin[i].gen \in GenerationIds
      <3>1. toPlugin[i] \in PluginMessage
        BY DEF TypeOK
      <3> QED
        BY <2>1, <3>1 DEF PluginMessage
    <2> QED
      BY <2>1 DEF Gens
  <1>2. Gens(toProber, "probe") \subseteq GenerationIds
    <2>1. ASSUME NEW i \in 1..Len(toProber)
          PROVE  toProber[i].gen \in GenerationIds
      <3>0. toProber \in Seq(Orders)
        BY DEF TypeOK, Orders
      <3>1. toProber[i] \in Orders
        BY <3>0, ElementType
      <3> QED
        BY <3>1 DEF Orders
    <2> QED
      BY <2>1 DEF Gens
  <1>3. Gens(toChecker, "result") \subseteq GenerationIds
    <2>1. ASSUME NEW i \in 1..Len(toChecker)
          PROVE  toChecker[i].gen \in GenerationIds
      <3>0. toChecker \in Seq(Results)
        BY DEF TypeOK, Results
      <3>1. toChecker[i] \in Results
        BY <3>0, ElementType
      <3> QED
        BY <3>1 DEF Results
    <2> QED
      BY <2>1 DEF Gens
  <1>4. UnderWay \subseteq GenerationIds
    BY <1>1, <1>2, <1>3 DEF UnderWay
  <1>5. IsFiniteSet(GenerationIds)
    BY CountsAssumption, FS_Interval DEF GenerationIds
  <1>6. IsFiniteSet(UnderWay)
    BY <1>4, <1>5, FS_Subset
  <1>7. Outstanding \in Nat
    BY <1>6, FS_CardinalityType DEF Outstanding
  <1> QED
    BY <1>1, <1>2, <1>3, <1>4, <1>6, <1>7

\* Steps that neither start nor move a probe.
LEMMA QuietKeepsOrder ==
  ASSUME InOrder, SameProbes(toPlugin, toPlugin'), UNCHANGED <<generation, toProber, toChecker>>
  PROVE  InOrder' /\ UnderWay' = UnderWay
  <1>1. /\ Gens(toPlugin', "probe") = Gens(toPlugin, "probe")
        /\ Gens(toPlugin', "result") = Gens(toPlugin, "result")
    BY DEF SameProbes
  <1>2. /\ Falling(toPlugin', "probe", generation) /\ Falling(toPlugin', "result", generation)
    BY DEF SameProbes, InOrder
  <1>3. UnderWay' = UnderWay
    BY <1>1 DEF UnderWay
  <1>4. Outstanding' = Outstanding
    BY <1>3 DEF Outstanding
  <1> QED
    BY <1>1, <1>2, <1>3, <1>4 DEF InOrder

\* The probes under way are older than one that is started.
LEMMA StartKeepsOrder ==
  ASSUME TypeOK, InOrder, NEW before \in Seq(PluginMessage), SameProbes(toPlugin, before),
         StartProbeCheck(before), UNCHANGED <<toProber, toChecker>>
  PROVE  InOrder' /\ Promised'
  <1> DEFINE next == (generation + 1) % Generations
             m == ProbeOrder(next)
  <1>1. /\ generation' = next /\ toPlugin' = Append(before, m) /\ Outstanding < MaxProbes
        /\ generation \in GenerationIds /\ next \in GenerationIds
    BY CountsAssumption DEF StartProbeCheck, TypeOK, GenerationIds
  <1>2. m \in PluginMessage /\ m.kind = "probe" /\ m.gen = next
    BY <1>1 DEF ProbeOrder, PluginMessage
  <1> HIDE DEF m
  <1>3. ASSUME NEW g \in UnderWay
        PROVE  /\ Age(g, next) = Age(g, generation) + 1 /\ Age(g, generation) \in Nat
               /\ Age(g, next) \in Nat /\ Age(g, next) < Outstanding + 1
    <2>1. g \in GenerationIds /\ Outstanding \in Nat
      BY GensTypes
    <2>2. Age(g, generation) \in Nat /\ Age(g, next) \in Nat
      BY <1>1, <2>1, AgeIsZero
    <2>3. Age(g, generation) < Outstanding
      BY DEF InOrder
    <2>4. Age(g, generation) + 1 < Generations
      BY <1>1, <2>1, <2>2, <2>3, CountsAssumption
    <2> QED
      BY <1>1, <2>1, <2>2, <2>3, <2>4, AgeGrows
  <1> HIDE DEF next
  <1>4. Age(next, next) = 0
    BY <1>1, AgeIsZero
  <1>5. \A A, B : A \subseteq UnderWay /\ B \subseteq UnderWay /\ Over(A, B, generation)
                   => Over(A, B, next)
    BY <1>3 DEF Over
  <1>6. \A A : A \subseteq UnderWay => Over(A, {next}, next)
    BY <1>3, <1>4 DEF Over
  <1>7. ASSUME NEW q, NEW kind, Gens(q, kind) \subseteq UnderWay, Falling(q, kind, generation)
        PROVE  Falling(q, kind, next)
    <2>1. ASSUME NEW i \in 1..Len(q), NEW j \in 1..Len(q),
                 i < j, q[i].kind = kind, q[j].kind = kind
          PROVE  Age(q[i].gen, next) > Age(q[j].gen, next)
      <3>1. q[i].gen \in UnderWay /\ q[j].gen \in UnderWay
        BY <1>7, <2>1 DEF Gens
      <3>2. Age(q[i].gen, generation) > Age(q[j].gen, generation)
        BY <1>7, <2>1 DEF Falling
      <3>3. /\ Age(q[i].gen, next) = Age(q[i].gen, generation) + 1
            /\ Age(q[i].gen, generation) \in Nat
        BY <1>3, <3>1
      <3>4. /\ Age(q[j].gen, next) = Age(q[j].gen, generation) + 1
            /\ Age(q[j].gen, generation) \in Nat
        BY <1>3, <3>1
      <3> QED
        BY <3>2, <3>3, <3>4
    <2> QED
      BY <2>1 DEF Falling
  <1>8. /\ Gens(before, "probe") = Gens(toPlugin, "probe")
        /\ Gens(before, "result") = Gens(toPlugin, "result")
        /\ Falling(before, "probe", generation) /\ Falling(before, "result", generation)
    BY DEF SameProbes, InOrder
  <1>9. /\ Gens(toPlugin', "probe") = Gens(toPlugin, "probe") \cup {next}
        /\ Gens(toPlugin', "result") = Gens(toPlugin, "result")
    <2>1. \A kind : Gens(Append(before, m), kind)
                       = Gens(before, kind) \cup (IF m.kind = kind THEN {m.gen} ELSE {})
      BY <1>2, GensAppend
    <2>2. Gens(toPlugin', "probe") = Gens(before, "probe") \cup {next}
      BY <1>1, <1>2, <2>1
    <2>3. Gens(toPlugin', "result") = Gens(before, "result")
      BY <1>1, <1>2, <2>1
    <2> QED
      BY <1>8, <2>2, <2>3
  <1>10. UnderWay' = UnderWay \cup {next}
    BY <1>9 DEF UnderWay
  <1>11. /\ Gens(toPlugin, "probe") \subseteq UnderWay /\ Gens(toPlugin, "result") \subseteq UnderWay
         /\ Gens(toProber, "probe") \subseteq UnderWay /\ Gens(toChecker, "result") \subseteq UnderWay
    BY DEF UnderWay
  <1>12. Falling(toPlugin', "probe", next)
    <2>1. Falling(before, "probe", next)
      BY <1>7, <1>8, <1>11
    <2>2. Over(Gens(before, "probe"), {m.gen}, next)
      BY <1>2, <1>6, <1>8, <1>11
    <2> QED
      BY <1>1, <1>2, <2>1, <2>2, FallingAppend
  <1>13. Falling(toPlugin', "result", next)
    <2>1. Falling(before, "result", next)
      BY <1>7, <1>8, <1>11
    <2>2. m.kind # "result"
      BY <1>2
    <2> QED
      BY <1>1, <1>2, <2>1, <2>2, FallingAppend
  <1>14. /\ Falling(toProber, "probe", next) /\ Falling(toChecker, "result", next)
    BY <1>7, <1>11 DEF InOrder
  <1>15. Over(Gens(toProber, "probe"), Gens(toPlugin, "probe") \cup {next}, next)
    BY <1>5, <1>6, <1>11 DEF InOrder, Over
  <1>16. Over(Gens(toPlugin, "result"),
              Gens(toProber, "probe") \cup (Gens(toPlugin, "probe") \cup {next}), next)
    <2>1. Over(Gens(toPlugin, "result"), Gens(toProber, "probe") \cup Gens(toPlugin, "probe"), next)
      BY <1>5, <1>11 DEF InOrder
    <2>2. Over(Gens(toPlugin, "result"), {next}, next)
      BY <1>6, <1>11
    <2> QED
      BY <2>1, <2>2 DEF Over
  <1>17. Over(Gens(toChecker, "result"),
              Gens(toPlugin, "result") \cup Gens(toProber, "probe")
                \cup (Gens(toPlugin, "probe") \cup {next}), next)
    <2>1. Over(Gens(toChecker, "result"),
               Gens(toPlugin, "result") \cup Gens(toProber, "probe") \cup Gens(toPlugin, "probe"),
               next)
      BY <1>5, <1>11 DEF InOrder
    <2>2. Over(Gens(toChecker, "result"), {next}, next)
      BY <1>6, <1>11
    <2> QED
      BY <2>1, <2>2 DEF Over
  <1>18. Outstanding' = Outstanding + 1 /\ Outstanding \in Nat
    <2>1. next \notin UnderWay
      BY <1>3, <1>4
    <2> QED
      BY <1>10, <2>1, GensTypes, FS_AddElement DEF Outstanding
  <1>19. \A g \in UnderWay' : Age(g, next) < Outstanding'
    BY <1>3, <1>4, <1>10, <1>18
  <1>20. Outstanding' <= MaxProbes
    BY <1>1, <1>18, CountsAssumption
  <1>21. InOrder'
    BY <1>1, <1>9, <1>12, <1>13, <1>14, <1>15, <1>16, <1>17, <1>19, <1>20 DEF InOrder
  <1>22. Promised'
    BY <1>1, <1>9 DEF Promised
  <1> QED
    BY <1>21, <1>22

\* The sets of generations by the place they are in: the order as it is moved along.
InLine(orders, asked, results, read, now) ==
  /\ Over(asked, orders, now) /\ Over(results, asked \cup orders, now)
  /\ Over(read, results \cup asked \cup orders, now)

LEMMA OrderOfProbes ==
  InOrder <=>
    /\ Falling(toPlugin, "probe", generation) /\ Falling(toProber, "probe", generation)
    /\ Falling(toPlugin, "result", generation) /\ Falling(toChecker, "result", generation)
    /\ InLine(Gens(toPlugin, "probe"), Gens(toProber, "probe"),
              Gens(toPlugin, "result"), Gens(toChecker, "result"), generation)
    /\ \A g \in UnderWay : Age(g, generation) < Outstanding
    /\ Outstanding <= MaxProbes
  BY DEF InOrder, InLine

\* The plug-in's thread passes the request of a probe on.
LEMMA RequestKeepsOrder ==
  ASSUME TypeOK, InOrder, StartProbe
  PROVE  InOrder' /\ UnderWay' = UnderWay /\ (Promised => Promised')
  <1> DEFINE m == Head(toPlugin)
  <1>1. /\ toPlugin # <<>> /\ m.kind = "probe" /\ toPlugin' = Tail(toPlugin)
        /\ toProber' = Append(toProber, m)
        /\ UNCHANGED <<generation, web, toChecker>>
    BY DEF StartProbe, Receive, network, checkerVars
  <1>2. toPlugin \in Seq(PluginMessage) /\ toProber \in Seq(Orders)
    BY DEF TypeOK, Orders
  <1>3. m \in PluginMessage /\ m \in Orders
    <2>1. m \in PluginMessage
      BY <1>1, <1>2, HeadTailType
    <2> QED
      BY <1>1, <2>1 DEF PluginMessage, Orders
  <1>4. /\ Gens(toPlugin, "probe") = Gens(toPlugin', "probe") \cup {m.gen}
        /\ Gens(toPlugin, "result") = Gens(toPlugin', "result")
        /\ Gens(toProber', "probe") = Gens(toProber, "probe") \cup {m.gen}
    <2>1. \A kind : Gens(toPlugin, kind) = Gens(Tail(toPlugin), kind)
                       \cup (IF m.kind = kind THEN {m.gen} ELSE {})
      BY <1>1, <1>2, GensTail
    <2>2. \A kind : Gens(Append(toProber, m), kind)
                      = Gens(toProber, kind) \cup (IF m.kind = kind THEN {m.gen} ELSE {})
      BY <1>2, <1>3, GensAppend
    <2>3. Gens(toPlugin, "probe") = Gens(toPlugin', "probe") \cup {m.gen}
      BY <1>1, <2>1
    <2>4. Gens(toPlugin, "result") = Gens(toPlugin', "result")
      BY <1>1, <2>1
    <2>5. Gens(toProber', "probe") = Gens(toProber, "probe") \cup {m.gen}
      BY <1>1, <2>2
    <2> QED
      BY <2>3, <2>4, <2>5
  <1>5. /\ Falling(toPlugin', "probe", generation) /\ Falling(toPlugin', "result", generation)
        /\ Over({m.gen}, Gens(toPlugin', "probe"), generation)
    BY <1>1, <1>2, FallingTail DEF InOrder
  <1>6. Over(Gens(toProber, "probe"), {m.gen}, generation)
    BY <1>4 DEF InOrder, Over
  <1>7. Falling(toProber', "probe", generation)
    BY <1>1, <1>2, <1>3, <1>6, FallingAppend DEF InOrder
  <1>8. UnderWay' = UnderWay
    BY <1>1, <1>4 DEF UnderWay
  <1>9. InLine(Gens(toPlugin', "probe"), Gens(toProber', "probe"),
               Gens(toPlugin', "result"), Gens(toChecker, "result"), generation)
    BY <1>4, <1>5, OrderOfProbes DEF InLine, Over
  <1>10. Outstanding' = Outstanding
    BY <1>8 DEF Outstanding
  <1>11. InOrder'
    BY <1>1, <1>5, <1>7, <1>8, <1>9, <1>10 DEF InOrder, InLine
  <1>12. HasResult(toPlugin, generation, web) => HasResult(toPlugin', generation, web)
    <2>1. m # ProbeResult(generation, web)
      BY <1>1 DEF ProbeResult
    <2> QED
      BY <1>1, <1>2, <2>1, HasResultTail
  <1>13. Promised => Promised'
    BY <1>1, <1>4, <1>12 DEF Promised
  <1> QED
    BY <1>8, <1>11, <1>13

\* The prober asks the web.
LEMMA ProbeKeepsOrder ==
  ASSUME TypeOK, InOrder, Probe
  PROVE  InOrder' /\ UnderWay' = UnderWay /\ (Promised => Promised')
  <1> DEFINE g == Head(toProber).gen
             m == ProbeResult(g, web)
  <1>1. /\ toProber # <<>> /\ toProber' = Tail(toProber) /\ toPlugin' = Append(toPlugin, m)
        /\ UNCHANGED <<generation, web, toChecker>>
    BY DEF Probe, network, checkerVars
  <1>2. toPlugin \in Seq(PluginMessage) /\ toProber \in Seq(Orders) /\ web \in Answers
    BY DEF TypeOK, Orders
  <1>3. Head(toProber).kind = "probe" /\ g \in GenerationIds
    <2>1. Head(toProber) \in Orders
      BY <1>1, <1>2, HeadTailType
    <2> QED
      BY <2>1 DEF Orders
  <1>4. m \in PluginMessage /\ m.kind = "result" /\ m.gen = g
    BY <1>2, <1>3 DEF ProbeResult, PluginMessage
  <1>5. HasResult(toPlugin', g, web)
    BY <1>1, <1>2, <1>4, HasResultAppend
  <1> HIDE DEF m
  <1>6. /\ Gens(toPlugin', "probe") = Gens(toPlugin, "probe")
        /\ Gens(toPlugin', "result") = Gens(toPlugin, "result") \cup {g}
        /\ Gens(toProber, "probe") = Gens(toProber', "probe") \cup {g}
    <2>1. \A kind : Gens(Append(toPlugin, m), kind)
                      = Gens(toPlugin, kind) \cup (IF m.kind = kind THEN {m.gen} ELSE {})
      BY <1>2, <1>4, GensAppend
    <2>2. Gens(toPlugin', "probe") = Gens(toPlugin, "probe")
      BY <1>1, <1>4, <2>1
    <2>3. Gens(toPlugin', "result") = Gens(toPlugin, "result") \cup {g}
      BY <1>1, <1>4, <2>1
    <2>4. \A kind : Gens(toProber, kind) = Gens(Tail(toProber), kind)
                       \cup (IF Head(toProber).kind = kind THEN {Head(toProber).gen} ELSE {})
      BY <1>1, <1>2, GensTail
    <2>5. Gens(toProber, "probe") = Gens(toProber', "probe") \cup {g}
      BY <1>1, <1>3, <2>4
    <2> QED
      BY <2>2, <2>3, <2>5
  <1>7. /\ Falling(toProber', "probe", generation)
        /\ Over({g}, Gens(toProber', "probe"), generation)
    BY <1>1, <1>2, <1>3, FallingTail DEF InOrder
  <1>8. Over(Gens(toPlugin, "result"), {g}, generation)
    BY <1>6 DEF InOrder, Over
  <1>9. Falling(toPlugin', "result", generation)
    BY <1>1, <1>2, <1>4, <1>8, FallingAppend DEF InOrder
  <1>10. Falling(toPlugin', "probe", generation)
    <2>1. m.kind # "probe"
      BY <1>4
    <2> QED
      BY <1>1, <1>2, <1>4, <2>1, FallingAppend DEF InOrder
  <1>11. UnderWay' = UnderWay
    BY <1>1, <1>6 DEF UnderWay
  <1>12. InLine(Gens(toPlugin', "probe"), Gens(toProber', "probe"),
                Gens(toPlugin', "result"), Gens(toChecker, "result"), generation)
    BY <1>6, <1>7, OrderOfProbes DEF InLine, Over
  <1>13. Outstanding' = Outstanding
    BY <1>11 DEF Outstanding
  <1>14. InOrder'
    BY <1>1, <1>7, <1>9, <1>10, <1>11, <1>12, <1>13 DEF InOrder, InLine
  <1>15. HasResult(toPlugin, generation, web) => HasResult(toPlugin', generation, web)
    BY <1>1, <1>2, <1>4, HasResultAppend
  <1>16. Promised => Promised'
    <2>1. CASE generation = g
      BY <1>1, <1>5, <2>1 DEF Promised
    <2>2. CASE generation # g
      BY <1>1, <1>6, <1>15, <2>2 DEF Promised
    <2> QED
      BY <2>1, <2>2
  <1> QED
    BY <1>11, <1>14, <1>16

\* The plug-in's thread passes a result on.
LEMMA ResultKeepsOrder ==
  ASSUME TypeOK, InOrder, OnProbeFinished
  PROVE  InOrder' /\ UnderWay' = UnderWay /\ (Promised => Promised')
  <1> DEFINE m == Head(toPlugin)
  <1>1. /\ toPlugin # <<>> /\ m.kind = "result" /\ toPlugin' = Tail(toPlugin)
        /\ toChecker' = Append(toChecker, m)
        /\ UNCHANGED <<generation, web, toProber>>
    BY DEF OnProbeFinished, Receive, network, checkerVars
  <1>2. toPlugin \in Seq(PluginMessage) /\ toChecker \in Seq(Results)
    BY DEF TypeOK, Results
  <1>3. m \in PluginMessage /\ m \in Results
    <2>1. m \in PluginMessage
      BY <1>1, <1>2, HeadTailType
    <2> QED
      BY <1>1, <2>1 DEF PluginMessage, Results
  <1>4. /\ Gens(toPlugin, "probe") = Gens(toPlugin', "probe")
        /\ Gens(toPlugin, "result") = Gens(toPlugin', "result") \cup {m.gen}
        /\ Gens(toChecker', "result") = Gens(toChecker, "result") \cup {m.gen}
    <2>1. \A kind : Gens(toPlugin, kind) = Gens(Tail(toPlugin), kind)
                       \cup (IF m.kind = kind THEN {m.gen} ELSE {})
      BY <1>1, <1>2, GensTail
    <2>2. \A kind : Gens(Append(toChecker, m), kind)
                      = Gens(toChecker, kind) \cup (IF m.kind = kind THEN {m.gen} ELSE {})
      BY <1>2, <1>3, GensAppend
    <2>3. Gens(toPlugin, "probe") = Gens(toPlugin', "probe")
      BY <1>1, <2>1
    <2>4. Gens(toPlugin, "result") = Gens(toPlugin', "result") \cup {m.gen}
      BY <1>1, <2>1
    <2>5. Gens(toChecker', "result") = Gens(toChecker, "result") \cup {m.gen}
      BY <1>1, <2>2
    <2> QED
      BY <2>3, <2>4, <2>5
  <1>5. /\ Falling(toPlugin', "probe", generation) /\ Falling(toPlugin', "result", generation)
        /\ Over({m.gen}, Gens(toPlugin', "result"), generation)
    BY <1>1, <1>2, FallingTail DEF InOrder
  <1>6. Over(Gens(toChecker, "result"), {m.gen}, generation)
    BY <1>4 DEF InOrder, Over
  <1>7. Falling(toChecker', "result", generation)
    BY <1>1, <1>2, <1>3, <1>6, FallingAppend DEF InOrder
  <1>8. UnderWay' = UnderWay
    BY <1>1, <1>4 DEF UnderWay
  <1>9. InLine(Gens(toPlugin', "probe"), Gens(toProber, "probe"),
               Gens(toPlugin', "result"), Gens(toChecker', "result"), generation)
    BY <1>4, <1>5, OrderOfProbes DEF InLine, Over
  <1>10. Outstanding' = Outstanding
    BY <1>8 DEF Outstanding
  <1>11. InOrder'
    BY <1>1, <1>5, <1>7, <1>8, <1>9, <1>10 DEF InOrder, InLine
  <1>12. HasResult(toPlugin, generation, web)
           => HasResult(toPlugin', generation, web) \/ HasResult(toChecker', generation, web)
    BY <1>1, <1>2, <1>3, HasResultTail, HasResultAppend
  <1>13. HasResult(toChecker, generation, web) => HasResult(toChecker', generation, web)
    BY <1>1, <1>2, <1>3, HasResultAppend
  <1>14. Promised => Promised'
    BY <1>1, <1>4, <1>12, <1>13 DEF Promised
  <1> QED
    BY <1>8, <1>11, <1>14

\* The checker reads the oldest result.  When that is the result of the newest probe,
\* no other probe is under way.
LEMMA ReadKeepsOrder ==
  ASSUME TypeOK, InOrder, OnProbeResult
  PROVE  /\ InOrder'
         /\ Promised \/ Settled => Promised' \/ Settled'
  <1> DEFINE m == Head(toChecker)
  <1>1. /\ toChecker # <<>> /\ toChecker' = Tail(toChecker)
        /\ UNCHANGED <<generation, web, devices, toProber>>
    BY DEF OnProbeResult, network
  <1>2. toPlugin \in Seq(PluginMessage) /\ toChecker \in Seq(Results)
    BY DEF TypeOK, Results
  <1>3. m \in Results /\ m.kind = "result" /\ m.gen \in GenerationIds /\ m.answer \in Answers
        /\ m = ProbeResult(m.gen, m.answer)
    <2>1. m \in Results
      BY <1>1, <1>2, HeadTailType
    <2> QED
      BY <2>1 DEF Results, ProbeResult
  <1>4. SameProbes(toPlugin, toPlugin')
    <2>1. CASE m.gen = generation /\ Decide(m.answer)
      BY <1>3, <2>1, DecisionsAreNoProbes
    <2>2. CASE m.gen # generation /\ UNCHANGED <<connectivity, portalUrl, toPlugin>>
      BY <2>2, SameProbesSelf
    <2> QED
      BY <2>1, <2>2 DEF OnProbeResult
  <1>5. /\ Gens(toPlugin', "probe") = Gens(toPlugin, "probe")
        /\ Gens(toPlugin', "result") = Gens(toPlugin, "result")
        /\ Falling(toPlugin', "probe", generation) /\ Falling(toPlugin', "result", generation)
    BY <1>4 DEF SameProbes, InOrder
  <1>6. Gens(toChecker, "result") = Gens(toChecker', "result") \cup {m.gen}
    <2>1. \A kind : Gens(toChecker, kind) = Gens(Tail(toChecker), kind)
                       \cup (IF m.kind = kind THEN {m.gen} ELSE {})
      BY <1>1, <1>2, GensTail
    <2> QED
      BY <1>1, <1>3, <2>1
  <1>7. /\ Falling(toChecker', "result", generation)
        /\ Over({m.gen}, Gens(toChecker', "result"), generation)
    BY <1>1, <1>2, <1>3, FallingTail DEF InOrder
  <1>8. UnderWay = UnderWay' \cup {m.gen}
    BY <1>1, <1>5, <1>6 DEF UnderWay
  <1>9. Over({m.gen}, UnderWay', generation)
    BY <1>1, <1>5, <1>6, <1>7 DEF UnderWay, InOrder, Over
  <1>10. \A g \in UnderWay : g \in GenerationIds /\ Age(g, generation) \in Nat
                             /\ (Age(g, generation) = 0 <=> g = generation)
    BY GensTypes, AgeIsZero DEF TypeOK
  <1>11. m.gen \notin UnderWay'
    BY <1>8, <1>9, <1>10 DEF Over
  <1>12. Outstanding' = Outstanding - 1 /\ Outstanding \in Nat
    <2>1. UnderWay' = UnderWay \ {m.gen} /\ m.gen \in UnderWay
      BY <1>8, <1>11
    <2> QED
      BY <2>1, GensTypes, FS_RemoveElement DEF Outstanding
  <1>13. \A g \in UnderWay' : Age(g, generation) < Outstanding'
    <2>1. ASSUME NEW g \in UnderWay'
          PROVE  Age(g, generation) < Outstanding'
      <3>1. Age(m.gen, generation) < Outstanding
        BY <1>8 DEF InOrder
      <3>2. Age(m.gen, generation) > Age(g, generation)
        BY <1>9 DEF Over
      <3> QED
        BY <1>8, <1>10, <1>12, <3>1, <3>2
    <2> QED
      BY <2>1
  <1>14. InLine(Gens(toPlugin', "probe"), Gens(toProber, "probe"),
                Gens(toPlugin', "result"), Gens(toChecker', "result"), generation)
    BY <1>5, <1>6, OrderOfProbes DEF InLine, Over
  <1>15. Outstanding' <= MaxProbes
    BY <1>12, CountsAssumption DEF InOrder
  <1>16. InOrder'
    BY <1>1, <1>5, <1>7, <1>13, <1>14, <1>15 DEF InOrder, InLine
  <1>17. CASE m.gen = generation
    <2>1. Decide(m.answer)
      BY <1>17 DEF OnProbeResult
    <2>2. connectivity' = Judged(m.answer, devices) /\ portalUrl' = UrlOf(m.answer)
      BY <1>3, <2>1, DecisionsAreNoProbes
    <2>3. generation \notin UnderWay'
      BY <1>11, <1>17
    <2>4. m.answer = web => Settled'
      BY <1>1, <2>2, <2>3 DEF Settled
    <2>5. ~Settled
      BY <1>8, <1>17 DEF Settled
    <2>6. ASSUME Promised
          PROVE  m.answer = web
      <3>1. generation \notin Gens(toPlugin, "probe") \cup Gens(toProber, "probe")
        BY <1>1, <1>5, <2>3 DEF UnderWay
      <3>2. ~HasResult(toPlugin, generation, web)
        <4>1. SUFFICES ASSUME HasResult(toPlugin, generation, web) PROVE FALSE
          OBVIOUS
        <4>2. PICK i \in 1..Len(toPlugin) : toPlugin[i] = ProbeResult(generation, web)
          BY <4>1 DEF HasResult
        <4>3. toPlugin[i].kind = "result" /\ toPlugin[i].gen = generation
          BY <4>2 DEF ProbeResult
        <4>4. generation \in Gens(toPlugin, "result")
          BY <4>3 DEF Gens
        <4> QED
          BY <1>1, <1>5, <2>3, <4>4 DEF UnderWay
      <3>3. ~HasResult(toChecker', generation, web)
        <4>1. SUFFICES ASSUME HasResult(toChecker', generation, web) PROVE FALSE
          OBVIOUS
        <4>2. PICK i \in 1..Len(toChecker') : toChecker'[i] = ProbeResult(generation, web)
          BY <4>1 DEF HasResult
        <4>3. toChecker'[i].kind = "result" /\ toChecker'[i].gen = generation
          BY <4>2 DEF ProbeResult
        <4>4. generation \in Gens(toChecker', "result")
          BY <4>3 DEF Gens
        <4> QED
          BY <2>3, <4>4 DEF UnderWay
      <3>4. HasResult(toChecker, generation, web)
        BY <2>6, <3>1, <3>2 DEF Promised
      <3>5. m = ProbeResult(generation, web)
        BY <1>1, <1>2, <3>3, <3>4, HasResultTail
      <3> QED
        BY <3>5 DEF ProbeResult
    <2> QED
      BY <1>16, <2>4, <2>5, <2>6
  <1>18. CASE m.gen # generation
    <2>1. UNCHANGED <<connectivity, portalUrl, toPlugin>>
      BY <1>18 DEF OnProbeResult
    <2>2. Settled => Settled'
      BY <1>1, <1>8, <2>1 DEF Settled
    <2>3. HasResult(toChecker, generation, web) => HasResult(toChecker', generation, web)
      <3>1. m # ProbeResult(generation, web)
        BY <1>18 DEF ProbeResult
      <3> QED
        BY <1>1, <1>2, <3>1, HasResultTail
    <2>4. Promised => Promised'
      BY <1>1, <2>1, <2>3 DEF Promised
    <2> QED
      BY <1>16, <2>2, <2>4
  <1> QED
    BY <1>17, <1>18

-----------------------------------------------------------------------------
(* Every change is followed by a probe *)

RInv == IInv /\ InOrder /\ WillBeRight

LEMMA InitRInv == Init => RInv
  <1> SUFFICES ASSUME Init PROVE RInv
    OBVIOUS
  <1>1. toPlugin = <<>> /\ toProber = <<>> /\ toChecker = <<>>
    BY DEF Init
  <1>2. \A kind : Gens(<<>>, kind) = {} /\ Falling(<<>>, kind, generation)
    BY DEF Gens, Falling
  <1>3. UnderWay = {}
    BY <1>1, <1>2 DEF UnderWay
  <1>4. Outstanding = 0
    BY <1>3, FS_EmptySet DEF Outstanding
  <1>5. InOrder
    BY <1>1, <1>2, <1>3, <1>4, CountsAssumption DEF InOrder, Over
  <1>6. WillBeRight
    BY DEF Init, WillBeRight
  <1> QED
    BY <1>5, <1>6, InitInvariant DEF RInv

\* A check is followed by a probe, at once or when the debounce timer fires.
LEMMA CheckIsKept ==
  ASSUME TypeOK, InOrder, NEW before \in Seq(PluginMessage), SameProbes(toPlugin, before),
         StartCheck(before), UNCHANGED <<toProber, toChecker>>
  PROVE  InOrder' /\ (pendingCheck' \/ Promised')
  <1>1. CASE StartProbeCheck(before)
    BY <1>1, StartKeepsOrder
  <1>2. CASE pendingCheck' = TRUE /\ toPlugin' = before /\ UNCHANGED generation
    BY <1>2, QuietKeepsOrder
  <1> QED
    BY <1>1, <1>2 DEF StartCheck

\* A step in which nothing counts changes.
LEMMA QuietKeepsPromise ==
  ASSUME InOrder, WillBeRight, SameProbes(toPlugin, toPlugin'),
         UNCHANGED <<toProber, toChecker, web, devices, unprobed, started, connectivity,
                     portalUrl, generation, polling, pendingCheck>>
  PROVE  InOrder' /\ WillBeRight'
  <1>1. InOrder' /\ UnderWay' = UnderWay
    BY QuietKeepsOrder
  <1>2. Settled => Settled'
    BY <1>1 DEF Settled
  <1>3. Promised => Promised'
    BY DEF Promised, SameProbes
  <1> QED
    BY <1>1, <1>2, <1>3 DEF WillBeRight

LEMMA NextRInv == RInv /\ [Next]_vars => RInv'
  <1> SUFFICES ASSUME RInv, [Next]_vars PROVE InOrder' /\ WillBeRight'
    BY NextInvariant DEF RInv
  <1>1. TypeOK /\ UrlWithPortal /\ CacheFollows /\ InOrder /\ WillBeRight
    BY DEF RInv, IInv
  <1>2. toPlugin \in Seq(PluginMessage) /\ SameProbes(toPlugin, toPlugin)
    BY <1>1, SameProbesSelf DEF TypeOK
  <1>3. DefaultNews \in Seq(PluginMessage) /\ SameProbes(toPlugin, DefaultNews)
    BY <1>1, DefaultStep, DefaultNewsAreNoProbes
  <1>4. CASE InitConnectivityChecker
    BY <1>1, <1>3, <1>4, CheckIsKept DEF InitConnectivityChecker, WillBeRight
  <1>5. CASE CheckConnectivity
    <2>1. CASE StartCheck(DefaultNews)
      BY <1>1, <1>3, <1>5, <2>1, CheckIsKept DEF CheckConnectivity, WillBeRight
    <2>2. CASE polling' = TRUE /\ toPlugin' = DefaultNews /\ UNCHANGED generation
      BY <1>1, <1>3, <1>5, <2>2, QuietKeepsOrder DEF CheckConnectivity, WillBeRight
    <2> QED
      BY <1>5, <2>1, <2>2 DEF CheckConnectivity
  <1>6. CASE PollTimerFires
    BY <1>1, <1>2, <1>6, CheckIsKept DEF PollTimerFires, WillBeRight
  <1>7. CASE DebounceTimerFires
    <2>1. CASE StartProbeCheck(toPlugin)
      BY <1>1, <1>2, <1>7, <2>1, StartKeepsOrder DEF DebounceTimerFires, WillBeRight
    <2>2. CASE ~pendingCheck /\ UNCHANGED <<toPlugin, generation, unprobed>>
      <3>1. UNCHANGED <<toProber, toChecker, web, devices, unprobed, started, connectivity,
                        portalUrl, generation, polling, toPlugin>>
        BY <1>7, <2>2 DEF DebounceTimerFires, network
      <3>2. pendingCheck' = FALSE
        BY <1>7 DEF DebounceTimerFires
      <3>3. InOrder' /\ UnderWay' = UnderWay
        BY <1>1, <1>2, <3>1, QuietKeepsOrder
      <3>4. (Settled => Settled') /\ (Promised => Promised')
        BY <3>1, <3>3 DEF Settled, Promised
      <3> QED
        BY <1>1, <2>2, <3>1, <3>3, <3>4 DEF WillBeRight
    <2> QED
      BY <1>7, <2>1, <2>2 DEF DebounceTimerFires
  <1>8. CASE CheckTimerFires \/ CheckTimerMeetsCheck
    BY <1>1, <1>2, <1>8, CheckIsKept DEF CheckTimerFires, CheckTimerMeetsCheck, WillBeRight
  <1>9. CASE OnProbeResult
    <2>1. InOrder' /\ (Promised \/ Settled => Promised' \/ Settled')
      BY <1>1, <1>9, ReadKeepsOrder
    <2>2. UNCHANGED <<started, unprobed, polling, pendingCheck>>
      BY <1>9 DEF OnProbeResult
    <2> QED
      BY <1>1, <2>1, <2>2 DEF WillBeRight
  <1>10. ASSUME Probe \/ StartProbe \/ OnProbeFinished
         PROVE  InOrder' /\ WillBeRight'
    <2>1. InOrder' /\ UnderWay' = UnderWay /\ (Promised => Promised')
      BY <1>1, <1>10, ProbeKeepsOrder, RequestKeepsOrder, ResultKeepsOrder
    <2>2. UNCHANGED <<web, devices, unprobed, started, connectivity, portalUrl, generation,
                      polling, pendingCheck>>
      BY <1>10 DEF Probe, StartProbe, OnProbeFinished, network, checkerVars
    <2>3. Settled => Settled'
      BY <2>1, <2>2 DEF Settled
    <2> QED
      BY <1>1, <2>1, <2>2, <2>3 DEF WillBeRight
  <1>11. ASSUME OnConnectivityChanged \/ OnPortalDetected
         PROVE  InOrder' /\ WillBeRight'
    <2>1. /\ toPlugin # <<>> /\ toPlugin' = Tail(toPlugin)
          /\ Head(toPlugin).kind # "probe" /\ Head(toPlugin).kind # "result"
      BY <1>11 DEF OnConnectivityChanged, OnPortalDetected, Receive
    <2>2. SameProbes(toPlugin, toPlugin')
      BY <1>2, <2>1, ReadNewsAreNoProbes
    <2>3. UNCHANGED <<toProber, toChecker, web, devices, unprobed, started, connectivity,
                      portalUrl, generation, polling, pendingCheck>>
      BY <1>11 DEF OnConnectivityChanged, OnPortalDetected, network, checkerVars
    <2> QED
      BY <1>1, <2>2, <2>3, QuietKeepsPromise
  <1>12. ASSUME NEW w \in Answers, WebChanges(w)
         PROVE  InOrder' /\ WillBeRight'
    <2>1. unprobed' = TRUE /\ UNCHANGED <<toPlugin, generation, toProber, toChecker>>
      BY <1>12 DEF WebChanges, checkerVars, queues
    <2> QED
      BY <1>1, <1>2, <2>1, QuietKeepsOrder DEF WillBeRight
  <1>13. ASSUME NEW w \in Answers, NEW d \in DeviceStates, OnDevicesChanged(d, w)
         PROVE  InOrder' /\ WillBeRight'
    <2>1. CASE started /\ StartCheck(toPlugin)
      BY <1>1, <1>2, <1>13, <2>1, CheckIsKept DEF OnDevicesChanged, WillBeRight
    <2>2. CASE ~started /\ UNCHANGED <<toPlugin, generation>>
      BY <1>1, <1>2, <1>13, <2>2, QuietKeepsOrder DEF OnDevicesChanged, WillBeRight
    <2> QED
      BY <1>13, <2>1, <2>2 DEF OnDevicesChanged
  <1>14. ASSUME NEW w \in Answers, NEW c \in Conns \cup {NoConn}, OnActiveConnectionsChanged(c, w)
         PROVE  InOrder' /\ WillBeRight'
    <2>1. CASE polling' = TRUE /\ toPlugin' = DefaultNews
      BY <1>1, <1>3, <1>14, <2>1, QuietKeepsOrder DEF OnActiveConnectionsChanged, WillBeRight
    <2>2. CASE ~started /\ UNCHANGED toPlugin
      BY <1>1, <1>2, <1>14, <2>2, QuietKeepsOrder DEF OnActiveConnectionsChanged, WillBeRight
    <2> QED
      BY <1>14, <2>1, <2>2 DEF OnActiveConnectionsChanged
  <1>15. CASE UNCHANGED vars
    BY <1>1, <1>2, <1>15, QuietKeepsPromise DEF vars, network, checkerVars, queues
  <1> QED
    BY <1>4, <1>5, <1>6, <1>7, <1>8, <1>9, <1>10, <1>11, <1>12, <1>13, <1>14, <1>15
    DEF Next, NetworkStep, PluginStep

\* What the service says at rest is the truth, however changes of the network, timers,
\* merged checks and late results interleave.
THEOREM RestTellsTheTruth == Spec => []RestedIsRight
  <1>1. RInv => RestedIsRight
    <2> SUFFICES ASSUME RInv, Rested, ~unprobed
                 PROVE  cached = Judged(web, devices) /\ cachedUrl = UrlOf(web)
      BY DEF RestedIsRight
    <2>1. toPlugin = <<>> /\ toProber = <<>> /\ toChecker = <<>>
      BY DEF Rested
    <2>2. \A kind : Gens(<<>>, kind) = {} /\ News(<<>>, kind) = {}
      BY DEF Gens, News
    <2>3. ~Promised
      BY <2>1, <2>2 DEF Promised, HasResult
    <2>4. Settled
      BY <2>3 DEF RInv, WillBeRight, Rested
    <2>5. cached = connectivity /\ cachedUrl = portalUrl
      BY <2>1, <2>2 DEF RInv, IInv, CacheFollows, Follows
    <2> QED
      BY <2>4, <2>5 DEF Settled
  <1> QED
    BY <1>1, InitRInv, NextRInv, PTL DEF Spec
=============================================================================
