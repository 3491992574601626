---------------------------- MODULE SyncClientProofs ----------------------------
(***************************************************************************)
(* The safety properties of the AnkiWeb client for any number of callers,  *)
(* calls, endpoints, collections and edits.                                *)
(***************************************************************************)
EXTENDS SyncClient, TLAPS

CallType ==
    [method : Methods \cup {"idle"}, endpoint : Endpoints,
     redirected : BOOLEAN, session : Sessions, hkey : Sessions,
     upload : Collections \cup {Nothing}, posts : Nat]

RequestType ==
    [from : Callers, method : Methods, to : Endpoints, redirected : BOOLEAN,
     session : Sessions, hkey : Sessions, body : Collections \cup {Nothing},
     post : Nat]

Types ==
    /\ call \in [Callers -> CallType]
    /\ number \in [Callers -> 0 .. MaxCalls]
    /\ reply = [c \in Callers |-> reply[c]]
    /\ result = [c \in Callers |-> result[c]]
    /\ held = [c \in Callers |-> held[c]]
    /\ requests \cup applied \cup sessions \subseteq RequestType
    /\ web \in Collections
    /\ keys \subseteq Sessions

\* The rest of sync_request's loop: where a caller is, its reply is of use.
Answered ==
    \A c \in Callers :
        /\ reply[c].status = "redirect" =>
              reply[c].location \in Endpoints \cup {Nothing}
        /\ Succeeds(c) /\ call[c].method = "hostKey" =>
              \/ Decode(reply[c].body) = Junk
              \/ Decode(reply[c].body).key \in Sessions

-----------------------------------------------------------------------------
\* The callers other than c are where they were.
OthersStay(c) ==
    \A d \in Callers : d # c => call'[d] = call[d] /\ reply'[d] = reply[d]

\* A step that sends a request.
Sends(c) ==
    /\ call' \in [Callers -> CallType]
    /\ call'[c].posts = call[c].posts + 1
    /\ call'[c].session = call[c].session
    /\ call'[c].upload = call[c].upload
    /\ reply' = [d \in Callers |-> reply'[d]]
    /\ requests' = requests \cup {Post(c, call'[c])}
    /\ reply'[c] = None
    /\ OthersStay(c)
    /\ UNCHANGED <<number, result, server>>

Redirects(c) ==
    /\ Sends(c)
    /\ reply[c].status = "redirect" /\ call[c].redirected = FALSE
    /\ call'[c].method = call[c].method /\ call'[c].redirected = TRUE

LogsIn(c) ==
    /\ Sends(c)
    /\ reply[c].status = "ok" /\ call[c].method = "hostKey"
    /\ call'[c].method = "meta" /\ call'[c].redirected = FALSE

Transfers(c) ==
    /\ Sends(c)
    /\ reply[c].status = "ok" /\ call[c].method = "meta"
    /\ call'[c].method = IF call[c].upload = Nothing THEN "download" ELSE "upload"
    /\ call'[c].endpoint = call[c].endpoint /\ call'[c].hkey = call[c].hkey
    /\ call'[c].redirected = FALSE

Starts(c) ==
    /\ ~Active(c) /\ number[c] < MaxCalls
    /\ call' \in [Callers -> CallType]
    /\ call'[c].method = "hostKey" /\ call'[c].redirected = FALSE
    /\ call'[c].posts = 1
    /\ call'[c].session = <<c, number[c] + 1>>
    /\ reply' = [d \in Callers |-> reply'[d]]
    /\ requests' = requests \cup {Post(c, call'[c])}
    /\ reply'[c] = None
    /\ OthersStay(c)
    /\ number' = [number EXCEPT ![c] = @ + 1]
    /\ held' = [held EXCEPT ![c] = {web}]
    /\ UNCHANGED <<result, web, keys, sessions, applied, pages, edits>>

Returns(c) ==
    /\ call' \in [Callers -> CallType]
    /\ call'[c] = Idle /\ reply'[c] = None
    /\ reply' = [d \in Callers |-> reply'[d]]
    /\ OthersStay(c)
    /\ UNCHANGED <<number, requests, server>>

-----------------------------------------------------------------------------
\* Records of calls, away from the state.
LEMMA Counted ==
    ASSUME NEW k \in CallType,
           NEW j, j = [k EXCEPT !.posts = @ + 1]
    PROVE  /\ j \in CallType
           /\ j.method = k.method /\ j.endpoint = k.endpoint
           /\ j.redirected = k.redirected
           /\ j.session = k.session /\ j.hkey = k.hkey
           /\ j.upload = k.upload /\ j.posts = k.posts + 1
BY DEF CallType

LEMMA IdleFields ==
    /\ Idle \in CallType
    /\ Idle.method = "idle" /\ Idle.redirected = FALSE
    /\ Idle.session = <<>> /\ Idle.posts = 0
BY ClientAssumption DEF CallType, Idle, Sessions

\* sync_request: what is sent, and what is left alone.
LEMMA SendFields ==
    ASSUME Types, NEW c \in Callers, NEW k \in CallType, Send(c, k)
    PROVE  /\ call' \in [Callers -> CallType]
           /\ call'[c].method = k.method /\ call'[c].endpoint = k.endpoint
           /\ call'[c].redirected = k.redirected
           /\ call'[c].session = k.session /\ call'[c].hkey = k.hkey
           /\ call'[c].upload = k.upload /\ call'[c].posts = k.posts + 1
           /\ reply' = [d \in Callers |-> reply'[d]]
           /\ requests' = requests \cup {Post(c, call'[c])}
           /\ reply'[c] = None
           /\ OthersStay(c)
<1> DEFINE j == [k EXCEPT !.posts = @ + 1]
<1>1. /\ call' = [call EXCEPT ![c] = j]
      /\ requests' = requests \cup {Post(c, j)}
      /\ reply' = [reply EXCEPT ![c] = None]
  BY Zenon DEF Send
<1>2. /\ j \in CallType
      /\ j.method = k.method /\ j.endpoint = k.endpoint
      /\ j.redirected = k.redirected
      /\ j.session = k.session /\ j.hkey = k.hkey
      /\ j.upload = k.upload /\ j.posts = k.posts + 1
  BY Counted, Zenon
<1> HIDE DEF j
<1>3. /\ call'[c] = j /\ reply'[c] = None /\ OthersStay(c)
      /\ call' \in [Callers -> CallType]
      /\ reply' = [d \in Callers |-> reply'[d]]
  BY <1>1, <1>2 DEF Types, OthersStay
<1> QED BY <1>1, <1>2, <1>3, Zenon

LEMMA ReturnFields ==
    ASSUME Types, NEW c \in Callers, NEW ok, NEW data, Return(c, ok, data)
    PROVE  /\ Returns(c)
           /\ result' = [d \in Callers |-> result'[d]]
           /\ result'[c] = [ok |-> ok, data |-> data]
           /\ \A d \in Callers : d # c => result'[d] = result[d]
<1>1. PICK i \in CallType : i = Idle
  BY IdleFields
<1>2. PICK x : x = [ok |-> ok, data |-> data]
  OBVIOUS
<1>3. /\ call' = [call EXCEPT ![c] = i] /\ reply' = [reply EXCEPT ![c] = None]
      /\ result' = [result EXCEPT ![c] = x]
      /\ UNCHANGED <<number, requests, server>>
  BY <1>1, <1>2, Zenon DEF Return
<1> QED BY <1>1, <1>2, <1>3 DEF Returns, Types, OthersStay

LEMMA FollowSends ==
    ASSUME Types, Answered, NEW c \in Callers, FollowRedirect(c)
    PROVE  Redirects(c)
<1>1. PICK e : e = reply[c].location
  OBVIOUS
<1>2. e \in Endpoints /\ call[c] \in CallType
  BY <1>1 DEF FollowRedirect, Answered, Types
<1>3. PICK k : k = [call[c] EXCEPT !.endpoint = e, !.redirected = TRUE]
  OBVIOUS
<1>4. /\ k \in CallType
      /\ k.method = call[c].method /\ k.redirected = TRUE
      /\ k.session = call[c].session
      /\ k.upload = call[c].upload /\ k.posts = call[c].posts
  BY <1>2, <1>3 DEF CallType
<1>5. /\ Send(c, k) /\ UNCHANGED <<number, result, server>>
      /\ reply[c].status = "redirect" /\ ~call[c].redirected
  BY <1>1, <1>3, Zenon DEF FollowRedirect
<1>6. call[c].redirected = FALSE
  BY <1>2, <1>5 DEF CallType
<1>7. /\ call' \in [Callers -> CallType]
      /\ call'[c].method = k.method /\ call'[c].redirected = k.redirected
      /\ call'[c].session = k.session
      /\ call'[c].upload = k.upload /\ call'[c].posts = k.posts + 1
      /\ reply' = [d \in Callers |-> reply'[d]]
      /\ requests' = requests \cup {Post(c, call'[c])}
      /\ reply'[c] = None
      /\ OthersStay(c)
  BY <1>4, <1>5, SendFields, Zenon
<1> QED BY <1>4, <1>5, <1>6, <1>7, Zenon DEF Redirects, Sends

LEMMA LoginSends ==
    ASSUME Types, Answered, NEW c \in Callers, LoggedIn(c)
    PROVE  LogsIn(c)
<1>1. PICK h : h = Decode(reply[c].body).key
  OBVIOUS
<1>2. h \in Sessions /\ call[c] \in CallType /\ Default \in Endpoints
  BY <1>1, ClientAssumption, Zenon DEF LoggedIn, Answered, Types
<1>3. PICK k : k = [call[c] EXCEPT !.method = "meta", !.endpoint = Default,
                                   !.redirected = FALSE, !.hkey = h]
  OBVIOUS
<1>4. /\ k \in CallType
      /\ k.method = "meta" /\ k.redirected = FALSE
      /\ k.session = call[c].session
      /\ k.upload = call[c].upload /\ k.posts = call[c].posts
  <2>1. "meta" \in Methods
    BY DEF Methods
  <2> QED BY <1>2, <1>3, <2>1 DEF CallType
<1>5. /\ Send(c, k) /\ UNCHANGED <<number, result, server>>
      /\ reply[c].status = "ok" /\ call[c].method = "hostKey"
  BY <1>1, <1>3, Zenon DEF LoggedIn, Succeeds
<1> QED BY <1>4, <1>5, SendFields, Zenon DEF LogsIn, Sends

LEMMA MetaSends ==
    ASSUME Types, NEW c \in Callers, MetaAnswered(c)
    PROVE  Transfers(c)
<1>1. PICK m : m = IF call[c].upload = Nothing THEN "download" ELSE "upload"
  OBVIOUS
<1>2. m \in Methods /\ call[c] \in CallType
  BY <1>1 DEF Methods, Types
<1>3. PICK k : k = [call[c] EXCEPT !.method = m, !.redirected = FALSE]
  OBVIOUS
<1>4. /\ k \in CallType
      /\ k.method = m /\ k.endpoint = call[c].endpoint /\ k.redirected = FALSE
      /\ k.session = call[c].session /\ k.hkey = call[c].hkey
      /\ k.upload = call[c].upload /\ k.posts = call[c].posts
  BY <1>2, <1>3 DEF CallType
<1>5. /\ Send(c, k) /\ UNCHANGED <<number, result, server>>
      /\ reply[c].status = "ok" /\ call[c].method = "meta"
  BY <1>1, <1>3, Zenon DEF MetaAnswered, Transfer, Succeeds
<1>6. /\ call' \in [Callers -> CallType]
      /\ call'[c].method = k.method /\ call'[c].endpoint = k.endpoint
      /\ call'[c].redirected = k.redirected
      /\ call'[c].session = k.session /\ call'[c].hkey = k.hkey
      /\ call'[c].upload = k.upload /\ call'[c].posts = k.posts + 1
      /\ reply' = [d \in Callers |-> reply'[d]]
      /\ requests' = requests \cup {Post(c, call'[c])}
      /\ reply'[c] = None
      /\ OthersStay(c)
  BY <1>4, <1>5, SendFields, Zenon
<1> QED BY <1>1, <1>4, <1>5, <1>6, Zenon DEF Transfers, Sends

LEMMA StartSends ==
    ASSUME Types, NEW c \in Callers, Start(c)
    PROVE  Starts(c)
<1>1. PICK s : s = <<c, number[c] + 1>>
  OBVIOUS
<1>2. ~Active(c) /\ number[c] < MaxCalls /\ number[c] \in 0 .. MaxCalls
  BY DEF Start, Types
<1>3. s \in Sessions
  BY <1>1, <1>2, ClientAssumption DEF Sessions
<1>4. PICK u \in Collections \cup {Nothing} :
         Send(c, [Idle EXCEPT !.method = "hostKey", !.upload = u, !.session = s])
  BY <1>1, Zenon DEF Start
<1>5. PICK k : k = [Idle EXCEPT !.method = "hostKey", !.upload = u, !.session = s]
  OBVIOUS
<1>6. /\ k \in CallType
      /\ k.method = "hostKey" /\ k.redirected = FALSE
      /\ k.session = s /\ k.posts = 0
  <2>1. "hostKey" \in Methods
    BY DEF Methods
  <2>2. PICK i : i = Idle
    OBVIOUS
  <2>3. i \in CallType /\ i.redirected = FALSE /\ i.posts = 0
    BY <2>2, IdleFields, Zenon
  <2>4. k = [i EXCEPT !.method = "hostKey", !.upload = u, !.session = s]
    BY <1>5, <2>2, Zenon
  <2> QED BY <1>3, <1>4, <2>1, <2>3, <2>4 DEF CallType
<1>7. Send(c, k)
  BY <1>4, <1>5, Zenon
<1>8. /\ number' = [number EXCEPT ![c] = @ + 1]
      /\ held' = [held EXCEPT ![c] = {web}]
      /\ UNCHANGED <<result, web, keys, sessions, applied, pages, edits>>
  BY Zenon DEF Start
<1>9. 0 + 1 = 1
  OBVIOUS
<1> QED BY <1>1, <1>2, <1>6, <1>7, <1>8, <1>9, SendFields, Zenon DEF Starts

-----------------------------------------------------------------------------
\* AnkiWeb serves request r with answer a.
Serves(r, a) ==
    /\ r \in requests /\ requests' = requests \ {r}
    /\ a.status \in {"error", "redirect", "ok"}
    /\ a.status = "redirect" => a.location \in Endpoints \cup {Nothing}
    /\ a.status = "ok" => a.body \in OkBodies(r)
    /\ \/ Awaited(r) /\ reply' = [reply EXCEPT ![r.from] = a]
       \/ UNCHANGED reply
    /\ keys' = IF a.status = "ok" /\ r.method = "hostKey"
               THEN keys \cup {r.session} ELSE keys
    /\ sessions' = IF a.status = "ok" /\ r.method = "meta"
                   THEN sessions \cup {r} ELSE sessions
    /\ applied' = IF a.status = "ok" /\ r.method = "upload"
                  THEN applied \cup {r} ELSE applied
    /\ Hold(IF a.status = "ok" /\ r.method = "upload" THEN r.body ELSE web)
    /\ pages \subseteq pages'
    /\ a.status = "ok" /\ r.method = "download" /\ a.body = Junk =>
          UNCHANGED reply \/ r.session \in pages'
    /\ UNCHANGED <<call, number, result, edits>>

LEMMA AnswerFields ==
    ASSUME NEW r, NEW a \in Answers(r)
    PROVE  /\ a.status \in {"error", "redirect", "ok"}
           /\ a.status = "redirect" => a.location \in Endpoints \cup {Nothing}
           /\ a.status = "ok" => a.body \in OkBodies(r)
BY DEF Answers

LEMMA ServeFields ==
    ASSUME Serve
    PROVE  \E r, a : Serves(r, a)
<1>1. PICK r, a :
          LET served(method) == a.status = "ok" /\ r.method = method IN
          /\ r \in requests /\ a \in Answers(r)
          /\ requests' = requests \ {r}
          /\ \/ /\ Awaited(r) /\ reply' = [reply EXCEPT ![r.from] = a]
                /\ pages' = IF served("download") /\ a.body = Junk
                            THEN pages \cup {r.session} ELSE pages
             \/ UNCHANGED <<reply, pages>>
          /\ keys' = IF served("hostKey") THEN keys \cup {r.session} ELSE keys
          /\ sessions' = IF served("meta") THEN sessions \cup {r} ELSE sessions
          /\ applied' = IF served("upload") THEN applied \cup {r} ELSE applied
          /\ Hold(IF served("upload") THEN r.body ELSE web)
  BY Zenon DEF Serve
<1>2. UNCHANGED <<call, number, result, edits>>
  BY DEF Serve
<1>3. /\ pages \subseteq pages'
      /\ a.status = "ok" /\ r.method = "download" /\ a.body = Junk =>
            UNCHANGED reply \/ r.session \in pages'
  BY <1>1
<1>4. \/ Awaited(r) /\ reply' = [reply EXCEPT ![r.from] = a]
      \/ UNCHANGED reply
  BY <1>1, Zenon
<1> QED BY <1>1, <1>2, <1>3, <1>4, AnswerFields, Zenon DEF Serves

-----------------------------------------------------------------------------
\* A call has a session of its own, which it gives to its requests.
Numbered ==
    /\ \A c \in Callers :
          /\ Active(c) => number[c] >= 1 /\ call[c].session = <<c, number[c]>>
          /\ ~Active(c) => call[c].session = <<>> /\ reply[c] = None
    /\ \A r \in requests \cup applied :
          \E n \in 1 .. number[r.from] : r.session = <<r.from, n>>

\* The requests that each method of a call may have taken, one redirect each.
Allowed(k) ==
    (IF k.method = "hostKey" THEN 1 ELSE IF k.method = "meta" THEN 3 ELSE 5)
        + (IF k.redirected THEN 1 ELSE 0)

Budget == \A c \in Callers : call[c].posts <= Allowed(call[c])

\* Of the requests of a call in progress, only the last one is awaited.
LastAwaited ==
    \A r \in requests :
        r.session = call[r.from].session =>
            /\ r.post <= call[r.from].posts
            /\ r.post = call[r.from].posts => r = Post(r.from, call[r.from])

IsUpload(r) == r.method = "upload"

\* At most one upload of a session is under way or has been applied, and none
\* while its call is about to send one.
OneUpload ==
    /\ \A r \in applied : IsUpload(r) /\ r \notin requests
    /\ \A r, q \in requests \cup applied :
          IsUpload(r) /\ IsUpload(q) /\ r.session = q.session => r = q
    /\ \A r \in requests \cup applied :
          IsUpload(r) /\ r.session = call[r.from].session =>
              /\ call[r.from].method = "upload"
              /\ reply[r.from].status # "redirect"

\* What an answer with status 2xx means for the call that has it.
MetaServed ==
    \A c \in Callers :
        Succeeds(c) /\ call[c].method = "meta" =>
            \E s \in sessions : /\ s.to = call[c].endpoint
                                /\ s.session = call[c].session
                                /\ s.hkey = call[c].hkey

\* Bytes of a download: a collection of the time of the call, damaged ones, or a
\* page that was sent for it.
GoodBytes(c, x) ==
    \/ x \in held[c] \cap Collections
    \/ \E y \in held[c] \cap Collections : x = Compressed(y)
    \/ x = Compressed(Junk)
    \/ x = Junk /\ call[c].session \in pages

Bodies ==
    /\ \A r \in requests : IsUpload(r) => r.body # Nothing
    /\ \A c \in Callers : call[c].method = "upload" => call[c].upload # Nothing

HeldInv ==
    \A c \in Callers :
        /\ Active(c) => web \in held[c]
        /\ Succeeds(c) /\ call[c].method = "download" => GoodBytes(c, reply[c].body)
        /\ Succeeds(c) /\ call[c].method = "upload" => call[c].upload \in held[c]

Inv ==
    /\ Types /\ Answered /\ Numbered /\ Budget /\ LastAwaited /\ OneUpload
    /\ MetaServed /\ UploadApplied /\ TransferInSession
    /\ Bodies /\ HeldInv /\ DownloadGenuine

LEMMA Pairs ==
    ASSUME NEW a, NEW b, NEW c, NEW d
    PROVE  /\ <<a, b>> = <<c, d>> => a = c /\ b = d
           /\ <<a, b>> # <<>>
OBVIOUS

\* The session of a request names its caller and is none of the future.
LEMMA SessionOf ==
    ASSUME Types, Numbered, NEW r \in requests \cup applied
    PROVE  /\ r.from \in Callers /\ r.session # <<>>
           /\ r.session # <<r.from, number[r.from] + 1>>
           /\ \A c \in Callers : Active(c) /\ r.session = call[c].session => r.from = c
<1>1. r.from \in Callers
  BY DEF Types, RequestType
<1>2. PICK n \in 1 .. number[r.from] : r.session = <<r.from, n>>
  BY DEF Numbered
<1>3. n # number[r.from] + 1
  BY <1>1, <1>2 DEF Types
<1>4. \A c \in Callers : Active(c) => call[c].session = <<c, number[c]>>
  BY DEF Numbered
<1>5. r.session # <<>>
  BY <1>2, Pairs
<1>6. ASSUME r.session = <<r.from, number[r.from] + 1>> PROVE FALSE
  <2>1. <<r.from, n>> = <<r.from, number[r.from] + 1>>
    BY <1>2, <1>6, Zenon
  <2>2. n = number[r.from] + 1
    BY <2>1, Pairs, Zenon
  <2> QED BY <1>3, <2>2, Zenon
<1>7. ASSUME NEW c \in Callers, Active(c), r.session = call[c].session
      PROVE  r.from = c
  <2>1. <<r.from, n>> = <<c, number[c]>>
    BY <1>2, <1>4, <1>7, Zenon
  <2> QED BY <2>1, Pairs, Zenon
<1> QED BY <1>1, <1>5, <1>6, <1>7

\* The answer that AnkiWeb gives to an awaited request is one to the last.
LEMMA AwaitedIsLast ==
    ASSUME Types, Numbered, LastAwaited, NEW r \in requests, Awaited(r)
    PROVE  /\ r.from \in Callers /\ Active(r.from)
           /\ r = Post(r.from, call[r.from])
<1>1. r.from \in Callers
  BY DEF Types, RequestType
<1>2. r = Post(r.from, call[r.from])
  BY DEF Awaited, LastAwaited
<1>3. r.session # <<>>
  BY SessionOf
<1> QED BY <1>1, <1>2, <1>3 DEF Awaited, Numbered

LEMMA PostFields ==
    ASSUME NEW c \in Callers, NEW k \in CallType
    PROVE  LET r == Post(c, k) IN
           /\ r.from = c /\ r.method = k.method /\ r.to = k.endpoint
           /\ r.redirected = k.redirected /\ r.session = k.session
           /\ r.hkey = k.hkey /\ r.body = k.upload /\ r.post = k.posts
           /\ k.method # "idle" => r \in RequestType
BY DEF Post, CallType, RequestType

-----------------------------------------------------------------------------
SendStep(c) == Redirects(c) \/ LogsIn(c) \/ Transfers(c)

\* Every step of the client, by what it does.
LEMMA ClientSteps ==
    ASSUME Types, Answered, NEW c \in Callers, Client(c)
    PROVE  SendStep(c) \/ Returns(c)
<1>1. CASE FollowRedirect(c)
  BY <1>1, FollowSends DEF SendStep
<1>2. CASE LoggedIn(c)
  BY <1>2, LoginSends DEF SendStep
<1>3. CASE MetaAnswered(c)
  BY <1>3, MetaSends DEF SendStep
<1>4. CASE NotSuccess(c)
  BY <1>4, ReturnFields DEF NotSuccess
<1>5. CASE BadAnswer(c)
  BY <1>5, ReturnFields DEF BadAnswer
<1>6. CASE Downloaded(c)
  BY <1>6, ReturnFields DEF Downloaded
<1>7. CASE Uploaded(c)
  BY <1>7, ReturnFields DEF Uploaded
<1>8. CASE GiveUp(c)
  BY <1>8, ReturnFields DEF GiveUp
<1> QED BY <1>1, <1>2, <1>3, <1>4, <1>5, <1>6, <1>7, <1>8 DEF Client

\* A caller that has an answer is in a call.
LEMMA SendIsActive ==
    ASSUME Types, Numbered, NEW c \in Callers, SendStep(c)
    PROVE  Active(c) /\ Active(c)' /\ Sends(c)
<1>1. Sends(c) /\ reply[c].status # "none"
  BY DEF SendStep, Redirects, LogsIn, Transfers
<1>2. None.status = "none"
  BY DEF None
<1>3. Active(c)
  BY <1>1, <1>2 DEF Numbered
<1>4. Active(c)'
  BY <1>3 DEF SendStep, Redirects, LogsIn, Transfers, Active
<1> QED BY <1>1, <1>3, <1>4

-----------------------------------------------------------------------------
LEMMA TypesNext ==
    ASSUME Inv, Next
    PROVE  Types'
<1> USE DEF Inv
<1>1. ASSUME NEW c \in Callers, SendStep(c) PROVE Types'
  <2>1. Active(c)' /\ Sends(c)
    BY <1>1, SendIsActive
  <2>2. call'[c] \in CallType
    BY <2>1 DEF Sends
  <2>3. Post(c, call'[c]) \in RequestType
    BY <2>1, <2>2, PostFields DEF Active
  <2> QED BY <2>1, <2>3 DEF Types, Sends, server
<1>2. ASSUME NEW c \in Callers, Starts(c) PROVE Types'
  <2>1. call'[c] \in CallType /\ call'[c].method # "idle"
    BY <1>2 DEF Starts
  <2>2. Post(c, call'[c]) \in RequestType
    BY <2>1, PostFields
  <2>3. number' \in [Callers -> 0 .. MaxCalls]
    BY <1>2, ClientAssumption DEF Starts, Types
  <2> QED BY <1>2, <2>2, <2>3 DEF Types, Starts
<1>3. ASSUME NEW c \in Callers, Client(c), Returns(c) PROVE Types'
  <2>1. result' = [d \in Callers |-> result'[d]]
    <3>1. ASSUME NEW ok, NEW data, Return(c, ok, data)
          PROVE  result' = [d \in Callers |-> result'[d]]
      BY <3>1, ReturnFields
    <3>2. CASE \E ok, data : Return(c, ok, data)
      BY <3>1, <3>2
    <3>3. CASE UNCHANGED result
      BY <3>3 DEF Types
    <3> QED
      BY <1>3, <3>2, <3>3
      DEF Client, FollowRedirect, LoggedIn, MetaAnswered, Transfer, NotSuccess,
          BadAnswer, Downloaded, Uploaded, GiveUp
  <2> QED BY <1>3, <2>1 DEF Types, Returns, server
<1>4. ASSUME NEW c \in Callers, MissingCredentials(c) PROVE Types'
  <2>1. number' \in [Callers -> 0 .. MaxCalls]
    BY <1>4, ClientAssumption DEF MissingCredentials, Types
  <2>2. PICK x : x = [ok |-> FALSE, data |-> Junk]
    OBVIOUS
  <2>3. result' = [result EXCEPT ![c] = x]
    BY <1>4, <2>2 DEF MissingCredentials
  <2>4. result' = [d \in Callers |-> result'[d]]
    BY <2>3 DEF Types
  <2> QED BY <1>4, <2>1, <2>4 DEF MissingCredentials, Types, server
<1>5. ASSUME NEW r, NEW a, Serves(r, a) PROVE Types'
  <2>1. r \in RequestType
    BY <1>5 DEF Serves, Types
  <2>2. r.session \in Sessions
    BY <2>1 DEF RequestType
  <2>3. IsUpload(r) /\ a.status = "ok" => r.body \in Collections
    <3>1. r.body \in Collections \cup {Nothing}
      BY <2>1 DEF RequestType
    <3> QED BY <1>5, <3>1 DEF Serves, Bodies
  <2>4. reply' = [d \in Callers |-> reply'[d]]
    BY <1>5 DEF Serves, Types
  <2>5. web' \in Collections /\ held' = [d \in Callers |-> held'[d]]
    BY <1>5, <2>3 DEF Serves, Hold, Types, IsUpload
  <2>6. /\ requests' \cup applied' \cup sessions' \subseteq RequestType
        /\ keys' \subseteq Sessions
    BY <1>5, <2>1, <2>2 DEF Serves, Types
  <2> QED BY <1>5, <2>4, <2>5, <2>6 DEF Serves, Types
<1>6. ASSUME Edit PROVE Types'
  BY <1>6 DEF Edit, Hold, Types
<1> QED
  BY <1>1, <1>2, <1>3, <1>4, <1>5, <1>6, ClientSteps, StartSends, ServeFields
  DEF Next

LEMMA NumberedNext ==
    ASSUME Inv, Next
    PROVE  Numbered'
<1> USE DEF Inv
<1>0. ASSUME NEW c \in Callers PROVE number[c] \in 0 .. MaxCalls
  BY DEF Types
<1>1. ASSUME NEW c \in Callers, SendStep(c) PROVE Numbered'
  <2>1. Active(c) /\ Active(c)' /\ Sends(c)
    BY <1>1, SendIsActive
  <2>2. call'[c].session = <<c, number[c]>> /\ reply'[c] = None
    BY <2>1 DEF Sends, Numbered
  <2>3. ASSUME NEW d \in Callers, d # c
        PROVE  call'[d] = call[d] /\ reply'[d] = reply[d]
    BY <2>1, <2>3 DEF Sends, OthersStay
  <2>4. PICK q : q = Post(c, call'[c])
    OBVIOUS
  <2>5. q.from = c /\ q.session = <<c, number[c]>>
    BY <2>1, <2>2, <2>4, PostFields DEF Sends
  <2>6. number[c] \in 1 .. number[c]
    BY <1>0, <2>1 DEF Numbered
  <2>7. requests' = requests \cup {q} /\ applied' = applied /\ number' = number
    BY <2>1, <2>4 DEF Sends, server
  <2> QED BY <2>1, <2>2, <2>3, <2>5, <2>6, <2>7 DEF Numbered, Active
<1>2. ASSUME NEW c \in Callers, Starts(c) PROVE Numbered'
  <2>1. /\ number' = [number EXCEPT ![c] = @ + 1] /\ number'[c] = number[c] + 1
        /\ \A d \in Callers : d # c => number'[d] = number[d]
    BY <1>2 DEF Starts, Types
  <2>2. Active(c)' /\ call'[c].session = <<c, number'[c]>> /\ number'[c] >= 1
    BY <1>0, <1>2, <2>1 DEF Starts, Active
  <2>3. ASSUME NEW d \in Callers, d # c
        PROVE  call'[d] = call[d] /\ reply'[d] = reply[d]
    BY <1>2, <2>3 DEF Starts, OthersStay
  <2>4. PICK q : q = Post(c, call'[c])
    OBVIOUS
  <2>5. q.from = c /\ q.session = <<c, number'[c]>>
    BY <1>2, <2>2, <2>4, PostFields DEF Starts
  <2>6. number'[c] \in 1 .. number'[c]
    BY <1>0, <2>1
  <2>7. requests' = requests \cup {q} /\ applied' = applied
    BY <1>2, <2>4 DEF Starts
  <2>8. ASSUME NEW r \in requests \cup applied
        PROVE  \E n \in 1 .. number'[r.from] : r.session = <<r.from, n>>
    <3>1. r.from \in Callers
      BY DEF Types, RequestType
    <3>2. PICK n \in 1 .. number[r.from] : r.session = <<r.from, n>>
      BY DEF Numbered
    <3>3. n \in 1 .. number'[r.from]
      BY <1>0, <2>1, <3>1
    <3> QED BY <3>2, <3>3
  <2> QED BY <2>1, <2>2, <2>3, <2>5, <2>6, <2>7, <2>8 DEF Numbered, Active
<1>3. ASSUME NEW c \in Callers, Returns(c) PROVE Numbered'
  <2>1. call'[c].session = <<>> /\ reply'[c] = None /\ call'[c].method = "idle"
    BY <1>3, IdleFields DEF Returns
  <2>2. ASSUME NEW d \in Callers, d # c
        PROVE  call'[d] = call[d] /\ reply'[d] = reply[d]
    BY <1>3, <2>2 DEF Returns, OthersStay
  <2>3. requests' = requests /\ applied' = applied /\ number' = number
    BY <1>3 DEF Returns, server
  <2> QED BY <2>1, <2>2, <2>3 DEF Numbered, Active
<1>4. ASSUME NEW c \in Callers, MissingCredentials(c) PROVE Numbered'
  <2>1. /\ ~Active(c) /\ number'[c] = number[c] + 1
        /\ \A d \in Callers : d # c => number'[d] = number[d]
        /\ UNCHANGED <<call, reply, requests, applied>>
    BY <1>4 DEF MissingCredentials, Types, server
  <2>2. ASSUME NEW r \in requests \cup applied
        PROVE  \E n \in 1 .. number'[r.from] : r.session = <<r.from, n>>
    <3>1. r.from \in Callers
      BY DEF Types, RequestType
    <3>2. PICK n \in 1 .. number[r.from] : r.session = <<r.from, n>>
      BY DEF Numbered
    <3>3. n \in 1 .. number'[r.from]
      BY <1>0, <2>1, <3>1
    <3> QED BY <3>2, <3>3
  <2> QED BY <2>1, <2>2 DEF Numbered, Active
<1>5. ASSUME NEW r, NEW a, Serves(r, a) PROVE Numbered'
  <2>1. /\ UNCHANGED <<call, number>>
        /\ requests' \cup applied' \subseteq requests \cup applied
    BY <1>5 DEF Serves
  <2>2. ASSUME NEW c \in Callers, ~Active(c) PROVE reply'[c] = reply[c]
    <3>1. CASE Awaited(r) /\ reply' = [reply EXCEPT ![r.from] = a]
      <4>1. Active(r.from) /\ r.from # c
        BY <1>5, <2>2, <3>1, AwaitedIsLast DEF Serves
      <4> QED BY <3>1, <4>1 DEF Types
    <3>2. CASE UNCHANGED reply
      BY <3>2
    <3> QED BY <1>5, <3>1, <3>2 DEF Serves
  <2> QED BY <2>1, <2>2 DEF Numbered, Active
<1>6. ASSUME Edit PROVE Numbered'
  BY <1>6 DEF Edit, Numbered, Active
<1> QED
  BY <1>1, <1>2, <1>3, <1>4, <1>5, <1>6, ClientSteps, StartSends, ServeFields
  DEF Next

\* Every method of a call sends its request and follows one redirect.
LEMMA BudgetNext ==
    ASSUME Inv, Next
    PROVE  Budget'
<1> USE DEF Inv
<1>0. ASSUME NEW c \in Callers
      PROVE  call[c].posts \in Nat /\ call[c].posts <= Allowed(call[c])
  BY DEF Types, CallType, Budget
<1>1. ASSUME NEW c \in Callers, SendStep(c) PROVE Budget'
  <2>1. Sends(c)
    BY <1>1, SendIsActive
  <2>2. call'[c].posts = call[c].posts + 1
    BY <2>1 DEF Sends
  <2>3. CASE Redirects(c)
    BY <1>0, <2>1, <2>2, <2>3 DEF Redirects, Budget, Allowed, OthersStay, Sends
  <2>4. CASE LogsIn(c)
    <3>1. call[c].posts <= 2
      BY <1>0, <2>4 DEF LogsIn, Allowed
    <3>2. Allowed(call'[c]) = 3
      BY <2>4 DEF LogsIn, Allowed
    <3> QED BY <1>0, <2>1, <2>2, <3>1, <3>2 DEF Budget, OthersStay, Sends
  <2>5. CASE Transfers(c)
    <3>1. call[c].posts <= 4
      BY <1>0, <2>5 DEF Transfers, Allowed
    <3>2. Allowed(call'[c]) = 5
      BY <2>5 DEF Transfers, Allowed
    <3> QED BY <1>0, <2>1, <2>2, <3>1, <3>2 DEF Budget, OthersStay, Sends
  <2> QED BY <1>1, <2>3, <2>4, <2>5 DEF SendStep
<1>2. ASSUME NEW c \in Callers, Starts(c) PROVE Budget'
  <2>1. call'[c].posts = 1 /\ Allowed(call'[c]) = 1
    BY <1>2 DEF Starts, Allowed
  <2> QED BY <1>0, <1>2, <2>1 DEF Budget, OthersStay, Starts
<1>3. ASSUME NEW c \in Callers, Returns(c) PROVE Budget'
  <2>1. call'[c].posts = 0 /\ Allowed(call'[c]) = 5
    BY <1>3, IdleFields DEF Returns, Allowed
  <2> QED BY <1>0, <1>3, <2>1 DEF Budget, OthersStay, Returns
<1>4. CASE UNCHANGED call
  BY <1>4 DEF Budget
<1> QED
  BY <1>1, <1>2, <1>3, <1>4, ClientSteps, StartSends
  DEF Next, MissingCredentials, Serve, Edit

LEMMA LastAwaitedNext ==
    ASSUME Inv, Next
    PROVE  LastAwaited'
<1> USE DEF Inv
<1>0. /\ \A r \in requests : r.from \in Callers /\ r.post \in Nat
      /\ \A c \in Callers : call[c].posts \in Nat /\ number[c] \in Nat
  BY DEF Types, RequestType, CallType
<1>1. ASSUME NEW c \in Callers, SendStep(c) PROVE LastAwaited'
  <2>1. Sends(c)
    BY <1>1, SendIsActive
  <2>2. PICK q : q = Post(c, call'[c])
    OBVIOUS
  <2>3. q.from = c /\ q.post = call'[c].posts
    BY <2>1, <2>2, PostFields DEF Sends
  <2>4. /\ requests' = requests \cup {q}
        /\ call'[c].posts = call[c].posts + 1 /\ call'[c].session = call[c].session
        /\ \A d \in Callers : d # c => call'[d] = call[d]
    BY <2>1, <2>2 DEF Sends, OthersStay
  <2>5. ASSUME NEW r \in requests, r.session = call'[r.from].session
        PROVE  /\ r.post <= call'[r.from].posts
               /\ r.post = call'[r.from].posts => r = Post(r.from, call'[r.from])
    <3>1. CASE r.from = c
      BY <1>0, <2>4, <2>5, <3>1 DEF LastAwaited
    <3>2. CASE r.from # c
      BY <1>0, <2>4, <2>5, <3>2 DEF LastAwaited
    <3> QED BY <3>1, <3>2
  <2>6. q.post <= call'[q.from].posts /\ q = Post(q.from, call'[q.from])
    BY <1>0, <2>2, <2>3, <2>4
  <2> QED BY <2>4, <2>5, <2>6 DEF LastAwaited
<1>2. ASSUME NEW c \in Callers, Starts(c) PROVE LastAwaited'
  <2>1. PICK q : q = Post(c, call'[c])
    OBVIOUS
  <2>2. q.from = c /\ q.post = call'[c].posts
    BY <1>2, <2>1, PostFields DEF Starts
  <2>3. /\ requests' = requests \cup {q}
        /\ call'[c].session = <<c, number[c] + 1>> /\ call'[c].posts = 1
        /\ \A d \in Callers : d # c => call'[d] = call[d]
    BY <1>2, <2>1 DEF Starts, OthersStay
  <2>4. ASSUME NEW r \in requests, r.session = call'[r.from].session
        PROVE  /\ r.from # c
               /\ r.post <= call'[r.from].posts
               /\ r.post = call'[r.from].posts => r = Post(r.from, call'[r.from])
    <3>2. r.from # c
      BY <2>3, <2>4, SessionOf
    <3> QED BY <1>0, <2>3, <2>4, <3>2 DEF LastAwaited
  <2>5. q.post <= call'[q.from].posts /\ q = Post(q.from, call'[q.from])
    BY <2>1, <2>2, <2>3
  <2> QED BY <2>3, <2>4, <2>5 DEF LastAwaited
<1>3. ASSUME NEW c \in Callers, Returns(c) PROVE LastAwaited'
  <2>1. /\ requests' = requests /\ call'[c].session = <<>>
        /\ \A d \in Callers : d # c => call'[d] = call[d]
    BY <1>3, IdleFields DEF Returns, OthersStay
  <2>2. ASSUME NEW r \in requests PROVE r.session # <<>>
    BY SessionOf
  <2> QED BY <1>0, <2>1, <2>2 DEF LastAwaited
<1>4. CASE UNCHANGED call /\ requests' \subseteq requests
  BY <1>4 DEF LastAwaited
<1>5. ASSUME NEW r, NEW a, Serves(r, a) PROVE LastAwaited'
  BY <1>4, <1>5 DEF Serves
<1> QED
  BY <1>1, <1>2, <1>3, <1>4, <1>5, ClientSteps, StartSends, ServeFields
  DEF Next, MissingCredentials, Edit

\* An upload is sent again only after a redirect, which says that AnkiWeb has
\* not served it.
LEMMA OneUploadNext ==
    ASSUME Inv, Next
    PROVE  OneUpload'
<1> USE DEF Inv
<1>0. /\ \A r \in requests \cup applied : r.from \in Callers
      /\ \A c \in Callers : number[c] \in Nat
      /\ None.status # "redirect"
  BY DEF Types, RequestType, None
<1>1. ASSUME NEW c \in Callers, SendStep(c) PROVE OneUpload'
  <2>1. Active(c) /\ Sends(c)
    BY <1>1, SendIsActive
  <2>2. PICK q : q = Post(c, call'[c])
    OBVIOUS
  <2>3. q.from = c /\ q.method = call'[c].method /\ q.session = call[c].session
    BY <2>1, <2>2, PostFields DEF Sends
  <2>4. /\ requests' = requests \cup {q} /\ applied' = applied
        /\ call'[c].session = call[c].session /\ reply'[c] = None
        /\ \A d \in Callers : d # c => call'[d] = call[d] /\ reply'[d] = reply[d]
    BY <2>1, <2>2 DEF Sends, OthersStay, server
  <2>5. ASSUME NEW r \in requests \cup applied, IsUpload(r)
        PROVE  r.session # call[c].session
    <3>1. SUFFICES ASSUME r.session = call[c].session PROVE FALSE
      OBVIOUS
    <3>3. r.from = c
      BY <2>1, <3>1, SessionOf
    <3>4. call[c].method = "upload" /\ reply[c].status # "redirect"
      BY <2>5, <3>1, <3>3 DEF OneUpload
    <3> QED BY <1>1, <3>4 DEF SendStep, Redirects, LogsIn, Transfers
  <2>6. q \notin applied
    BY <2>3, <2>5 DEF OneUpload
  <2>7. ASSUME NEW r \in requests \cup applied \cup {q}, IsUpload(r),
               r.session = call'[r.from].session
        PROVE  call'[r.from].method = "upload" /\ reply'[r.from].status # "redirect"
    <3>1. CASE r = q
      BY <1>0, <2>3, <2>4, <2>7, <3>1 DEF IsUpload
    <3>2. CASE r # q
      BY <1>0, <2>4, <2>5, <2>7, <3>2 DEF OneUpload
    <3> QED BY <3>1, <3>2
  <2>8. ASSUME NEW r \in requests \cup applied \cup {q},
               NEW s \in requests \cup applied \cup {q},
               IsUpload(r), IsUpload(s), r.session = s.session
        PROVE  r = s
    BY <2>3, <2>5, <2>8 DEF OneUpload
  <2> QED BY <2>4, <2>6, <2>7, <2>8 DEF OneUpload
<1>2. ASSUME NEW c \in Callers, Starts(c) PROVE OneUpload'
  <2>1. PICK q : q = Post(c, call'[c])
    OBVIOUS
  <2>2. q.from = c /\ q.method = "hostKey" /\ ~IsUpload(q)
    BY <1>2, <2>1, PostFields DEF Starts, IsUpload
  <2>3. /\ requests' = requests \cup {q} /\ applied' = applied
        /\ call'[c].session = <<c, number[c] + 1>>
        /\ \A d \in Callers : d # c => call'[d] = call[d] /\ reply'[d] = reply[d]
    BY <1>2, <2>1 DEF Starts, OthersStay
  <2>4. ASSUME NEW r \in requests \cup applied, r.session = call'[r.from].session
        PROVE  r.from # c
    <3>1. Types /\ Numbered
      OBVIOUS
    <3> HIDE DEF Inv
    <3>2. r.session # <<r.from, number[r.from] + 1>>
      BY <3>1, SessionOf
    <3> QED BY <2>3, <2>4, <3>2
  <2> QED BY <1>0, <2>2, <2>3, <2>4 DEF OneUpload
<1>3. ASSUME NEW c \in Callers, Returns(c) PROVE OneUpload'
  <2>1. /\ requests' = requests /\ applied' = applied /\ call'[c].session = <<>>
        /\ \A d \in Callers : d # c => call'[d] = call[d] /\ reply'[d] = reply[d]
    BY <1>3, IdleFields DEF Returns, OthersStay, server
  <2>2. ASSUME NEW r \in requests \cup applied PROVE r.session # <<>>
    BY SessionOf
  <2> QED BY <1>0, <2>1, <2>2 DEF OneUpload
<1>4. ASSUME NEW r, NEW a, Serves(r, a) PROVE OneUpload'
  <2>1. /\ r \in requests /\ requests' = requests \ {r} /\ call' = call
        /\ applied' = applied \/ (applied' = applied \cup {r} /\ IsUpload(r))
        /\ a.status = "redirect" => applied' = applied
    BY <1>4 DEF Serves, IsUpload
  <2>2. ASSUME NEW q \in requests' \cup applied', IsUpload(q),
               q.session = call[q.from].session
        PROVE  call[q.from].method = "upload" /\ reply'[q.from].status # "redirect"
    <3>1. call[q.from].method = "upload" /\ reply[q.from].status # "redirect"
      BY <2>1, <2>2 DEF OneUpload
    <3>2. CASE UNCHANGED reply
      BY <3>1, <3>2
    <3>3. CASE Awaited(r) /\ reply' = [reply EXCEPT ![r.from] = a] /\ r.from # q.from
      BY <3>1, <3>3 DEF Types
    <3>4. CASE Awaited(r) /\ reply' = [reply EXCEPT ![r.from] = a] /\ r.from = q.from
      <4>1. r.from \in Callers /\ r = Post(r.from, call[r.from])
        BY <2>1, <3>4, AwaitedIsLast
      <4>2. r.method = "upload" /\ r.session = q.session
        BY <2>2, <3>1, <3>4, <4>1, PostFields DEF Types
      <4>3. r = q
        BY <2>1, <2>2, <4>2 DEF OneUpload, IsUpload
      <4>4. a.status # "redirect"
        BY <2>1, <2>2, <4>3 DEF OneUpload
      <4>5. reply'[q.from] = a
        BY <3>4, <4>1 DEF Types
      <4> QED BY <3>1, <4>4, <4>5
    <3> QED BY <1>4, <3>2, <3>3, <3>4 DEF Serves
  <2>3. \A q \in applied' : IsUpload(q) /\ q \notin requests'
    BY <2>1 DEF OneUpload
  <2>4. requests' \cup applied' \subseteq requests \cup applied
    BY <2>1
  <2>5. \A p, q \in requests' \cup applied' :
           IsUpload(p) /\ IsUpload(q) /\ p.session = q.session => p = q
    BY <2>4 DEF OneUpload
  <2> QED BY <2>1, <2>2, <2>3, <2>5 DEF OneUpload
<1>5. CASE UNCHANGED <<call, reply, requests, applied>>
  BY <1>5 DEF OneUpload
<1> QED
  BY <1>1, <1>2, <1>3, <1>4, <1>5, ClientSteps, StartSends, ServeFields
  DEF Next, MissingCredentials, Edit, server

-----------------------------------------------------------------------------
\* A successful answer, method by method.
LEMMA OkBody ==
    ASSUME NEW r, NEW x \in OkBodies(r)
    PROVE  /\ r.method = "hostKey" => x = Junk \/ x = [key |-> r.session]
           /\ r.method = "download" =>
                 x \in {web, Compressed(web), Compressed(Junk), Junk}
BY DEF OkBodies

\* Only bytes with the magic number are decompressed.
LEMMA Decoded ==
    /\ \A x \in Collections \cup {Junk} : Decode(x) = x
    /\ \A x \in Collections : Decode(Compressed(x)) = x
    /\ \A s : Decode([key |-> s]) = [key |-> s]
<1>1. ASSUME NEW x \in Collections \cup {Junk} PROVE Decode(x) = x
  BY <1>1, MagicAssumption, Zenon DEF Decode
<1>2. ASSUME NEW x \in Collections PROVE Decode(Compressed(x)) = x
  <2>1. Decode(Compressed(x)) = Compressed(x).zstd
    BY <1>2, Zenon DEF Decode
  <2> QED BY <2>1 DEF Compressed
<1>3. ASSUME NEW s PROVE Decode([key |-> s]) = [key |-> s]
  <2>1. ASSUME NEW x PROVE [key |-> s] # Compressed(x)
    <3>1. DOMAIN [key |-> s] # DOMAIN [zstd |-> x]
      OBVIOUS
    <3> QED BY <3>1, Zenon DEF Compressed
  <2>2. PICK k : k = [key |-> s]
    OBVIOUS
  <2>3. Decode(k) = k
    BY <2>1, <2>2, Zenon DEF Decode
  <2> QED BY <2>2, <2>3, Zenon
<1> QED BY <1>1, <1>2, <1>3, Zenon

\* The answer that reaches a caller.
LEMMA Reached ==
    ASSUME Types, Numbered, LastAwaited, NEW r, NEW a, Serves(r, a),
           NEW c \in Callers
    PROVE  \/ reply'[c] = reply[c]
           \/ /\ reply'[c] = a /\ r.from = c /\ Active(c)
              /\ r.method = call[c].method /\ r.to = call[c].endpoint
              /\ r.session = call[c].session /\ r.hkey = call[c].hkey
              /\ r.body = call[c].upload
<1>1. CASE UNCHANGED reply
  BY <1>1
<1>2. CASE Awaited(r) /\ reply' = [reply EXCEPT ![r.from] = a] /\ r.from # c
  BY <1>2 DEF Types
<1>3. CASE Awaited(r) /\ reply' = [reply EXCEPT ![r.from] = a] /\ r.from = c
  <2>1. Active(c) /\ r = Post(c, call[c])
    BY <1>3, AwaitedIsLast DEF Serves
  <2>2. reply'[c] = a
    BY <1>3 DEF Types
  <2>3. call[c] \in CallType
    BY DEF Types
  <2>4. /\ r.method = call[c].method /\ r.to = call[c].endpoint
        /\ r.session = call[c].session /\ r.hkey = call[c].hkey
        /\ r.body = call[c].upload
    BY <2>1, <2>3, PostFields
  <2> QED BY <1>3, <2>1, <2>2, <2>4
<1> QED BY <1>1, <1>2, <1>3 DEF Serves

\* The steps that leave a caller without an answer.
Quiet(c) == reply'[c] = None /\ OthersStay(c)

LEMMA QuietSteps ==
    ASSUME NEW c \in Callers, SendStep(c) \/ Starts(c) \/ Returns(c)
    PROVE  Quiet(c)
BY DEF SendStep, Redirects, LogsIn, Transfers, Sends, Starts, Returns, Quiet

\* A caller that has just sent a request, or returned, has no answer.
LEMMA QuietIsNoSuccess ==
    ASSUME NEW c \in Callers, Quiet(c)
    PROVE  reply'[c].status # "ok"
<1>1. reply'[c] = None
  BY DEF Quiet
<1>2. None.status = "none"
  BY DEF None
<1> QED BY <1>1, <1>2

LEMMA AnsweredNext ==
    ASSUME Inv, Next
    PROVE  Answered'
<1> USE DEF Inv
<1>1. ASSUME NEW c \in Callers, Quiet(c) PROVE Answered'
  <2>1. reply'[c].status \notin {"redirect", "ok"}
    BY <1>1 DEF Quiet, None
  <2> QED BY <1>1, <2>1 DEF Quiet, OthersStay, Answered, Succeeds
<1>2. ASSUME NEW r, NEW a, Serves(r, a) PROVE Answered'
  <2>1. call' = call
    BY <1>2 DEF Serves
  <2>2. ASSUME NEW c \in Callers, reply'[c] = a, r.method = call[c].method,
               r.session = call[c].session
        PROVE  /\ a.status = "redirect" => a.location \in Endpoints \cup {Nothing}
               /\ a.status = "ok" /\ call[c].method = "hostKey" =>
                     Decode(a.body) = Junk \/ Decode(a.body).key \in Sessions
    <3>1. a.status = "redirect" => a.location \in Endpoints \cup {Nothing}
      BY <1>2 DEF Serves
    <3>2. ASSUME a.status = "ok", call[c].method = "hostKey"
          PROVE  Decode(a.body) = Junk \/ Decode(a.body).key \in Sessions
      <4>1. a.body = Junk \/ a.body = [key |-> r.session]
        BY <1>2, <2>2, <3>2, OkBody DEF Serves
      <4>2. r.session \in Sessions
        BY <2>2 DEF Types, CallType
      <4>3. [key |-> r.session].key = r.session
        OBVIOUS
      <4> QED BY <4>1, <4>2, <4>3, Decoded, Zenon
    <3> QED BY <3>1, <3>2
  <2>3. Types /\ Numbered /\ LastAwaited /\ Answered
    OBVIOUS
  <2> HIDE DEF Inv
  <2>4. ASSUME NEW c \in Callers
        PROVE  \/ reply'[c] = reply[c]
               \/ /\ reply'[c] = a /\ r.method = call[c].method
                  /\ r.session = call[c].session
    BY <1>2, <2>3, Reached
  <2>5. ASSUME NEW c \in Callers
        PROVE  /\ reply'[c].status = "redirect" =>
                     reply'[c].location \in Endpoints \cup {Nothing}
               /\ reply'[c].status = "ok" /\ call[c].method = "hostKey" =>
                     \/ Decode(reply'[c].body) = Junk
                     \/ Decode(reply'[c].body).key \in Sessions
    BY <2>2, <2>3, <2>4, Zenon DEF Answered, Succeeds
  <2> QED BY <2>1, <2>5, Zenon DEF Answered, Succeeds, Decode
<1>3. CASE UNCHANGED <<call, reply>>
  BY <1>3 DEF Answered, Succeeds
<1> QED
  BY <1>1, <1>2, <1>3, QuietSteps, ClientSteps, StartSends, ServeFields
  DEF Next, MissingCredentials, Edit

LEMMA MetaServedNext ==
    ASSUME Inv, Next
    PROVE  MetaServed'
<1> USE DEF Inv
<1>1. ASSUME NEW c \in Callers, Quiet(c), sessions' = sessions PROVE MetaServed'
  <2>1. MetaServed
    OBVIOUS
  <2> HIDE DEF Inv
  <2>2. reply'[c].status # "ok"
    BY <1>1, QuietIsNoSuccess
  <2>3. ASSUME NEW d \in Callers, d # c
        PROVE  call'[d] = call[d] /\ reply'[d] = reply[d]
    BY <1>1, <2>3 DEF Quiet, OthersStay
  <2> QED BY <1>1, <2>1, <2>2, <2>3 DEF MetaServed, Succeeds
<1>2. ASSUME NEW r, NEW a, Serves(r, a) PROVE MetaServed'
  <2>1. /\ call' = call /\ sessions \subseteq sessions'
        /\ a.status = "ok" /\ r.method = "meta" => r \in sessions'
    BY <1>2 DEF Serves
  <2>2. Types /\ Numbered /\ LastAwaited /\ MetaServed
    OBVIOUS
  <2> HIDE DEF Inv
  <2>3. ASSUME NEW c \in Callers
        PROVE  \/ reply'[c] = reply[c]
               \/ /\ reply'[c] = a /\ r.method = call[c].method
                  /\ r.to = call[c].endpoint /\ r.session = call[c].session
                  /\ r.hkey = call[c].hkey
    BY <1>2, <2>2, Reached
  <2> QED BY <2>1, <2>2, <2>3 DEF MetaServed, Succeeds
<1>3. CASE UNCHANGED <<call, reply, sessions>>
  BY <1>3 DEF MetaServed, Succeeds
<1>4. ASSUME NEW c \in Callers, SendStep(c) \/ Starts(c) \/ Returns(c)
      PROVE  sessions' = sessions
  BY <1>4 DEF SendStep, Redirects, LogsIn, Transfers, Sends, Starts, Returns, server
<1> QED
  BY <1>1, <1>2, <1>3, <1>4, QuietSteps, ClientSteps, StartSends, ServeFields
  DEF Next, MissingCredentials, Edit, server

LEMMA UploadAppliedNext ==
    ASSUME Inv, Next
    PROVE  UploadApplied'
<1> USE DEF Inv
<1>1. ASSUME NEW c \in Callers, Quiet(c), applied' = applied PROVE UploadApplied'
  <2>1. reply'[c].status # "ok"
    BY <1>1 DEF Quiet, None
  <2> QED BY <1>1, <2>1 DEF Quiet, OthersStay, UploadApplied, Succeeds
<1>2. ASSUME NEW r, NEW a, Serves(r, a) PROVE UploadApplied'
  <2>1. /\ call' = call /\ applied \subseteq applied'
        /\ a.status = "ok" /\ r.method = "upload" => r \in applied'
    BY <1>2 DEF Serves
  <2> QED BY <1>2, <2>1, Reached DEF UploadApplied, Succeeds
<1>3. CASE UNCHANGED <<call, reply, applied>>
  BY <1>3 DEF UploadApplied, Succeeds
<1>4. ASSUME NEW c \in Callers, SendStep(c) \/ Starts(c) \/ Returns(c)
      PROVE  applied' = applied
  BY <1>4 DEF SendStep, Redirects, LogsIn, Transfers, Sends, Starts, Returns, server
<1> QED
  BY <1>1, <1>2, <1>3, <1>4, QuietSteps, ClientSteps, StartSends, ServeFields
  DEF Next, MissingCredentials, Edit, server

\* Only Transfer sends a first download or upload, to the endpoint and with the
\* keys of the meta request that was answered.
LEMMA TransferNext ==
    ASSUME Inv, Next
    PROVE  TransferInSession'
<1> USE DEF Inv
<1>1. ASSUME NEW c \in Callers, SendStep(c) PROVE TransferInSession'
  <2>1. Sends(c)
    BY <1>1, SendIsActive
  <2>2. PICK q : q = Post(c, call'[c])
    OBVIOUS
  <2>3. call'[c] \in CallType
    BY <2>1 DEF Sends
  <2>4. /\ q.method = call'[c].method /\ q.to = call'[c].endpoint
        /\ q.redirected = call'[c].redirected /\ q.session = call'[c].session
        /\ q.hkey = call'[c].hkey
    BY <2>2, <2>3, PostFields
  <2>5. /\ requests' = requests \cup {q} /\ sessions' = sessions
        /\ call'[c].session = call[c].session
    BY <2>1, <2>2 DEF Sends, server
  <2>6. ASSUME q.method \in {"download", "upload"}, ~q.redirected
        PROVE  \E s \in sessions : /\ s.to = q.to
                                   /\ s.session = q.session /\ s.hkey = q.hkey
    <3>1. Transfers(c)
      BY <1>1, <2>4, <2>6 DEF SendStep, Redirects, LogsIn
    <3> QED BY <2>4, <2>5, <3>1 DEF Transfers, MetaServed, Succeeds
  <2> QED BY <2>5, <2>6 DEF TransferInSession
<1>2. ASSUME NEW c \in Callers, Starts(c) PROVE TransferInSession'
  <2>1. PICK q : q = Post(c, call'[c])
    OBVIOUS
  <2>2. q.method = "hostKey"
    BY <1>2, <2>1, PostFields DEF Starts
  <2>3. requests' = requests \cup {q} /\ sessions' = sessions
    BY <1>2, <2>1 DEF Starts
  <2> QED BY <2>2, <2>3 DEF TransferInSession
<1>3. CASE requests' \subseteq requests /\ sessions \subseteq sessions'
  BY <1>3 DEF TransferInSession
<1>4. ASSUME NEW c \in Callers, Returns(c) PROVE TransferInSession'
  BY <1>3, <1>4 DEF Returns, server
<1>5. ASSUME NEW r, NEW a, Serves(r, a) PROVE TransferInSession'
  BY <1>3, <1>5 DEF Serves
<1> QED
  BY <1>1, <1>2, <1>3, <1>4, <1>5, ClientSteps, StartSends, ServeFields
  DEF Next, MissingCredentials, Edit, server

LEMMA BodiesNext ==
    ASSUME Inv, Next
    PROVE  Bodies'
<1> USE DEF Inv
<1>1. ASSUME NEW c \in Callers, SendStep(c) PROVE Bodies'
  <2>1. Sends(c)
    BY <1>1, SendIsActive
  <2>2. PICK q : q = Post(c, call'[c])
    OBVIOUS
  <2>3. q.method = call'[c].method /\ q.body = call'[c].upload
    BY <2>1, <2>2, PostFields DEF Sends
  <2>4. requests' = requests \cup {q} /\ call'[c].upload = call[c].upload
    BY <2>1, <2>2 DEF Sends
  <2>5. call'[c].method = "upload" => call'[c].upload # Nothing
    BY <1>1, <2>4 DEF SendStep, Redirects, LogsIn, Transfers, Bodies
  <2> QED BY <2>1, <2>3, <2>4, <2>5 DEF Bodies, IsUpload, Sends, OthersStay
<1>2. ASSUME NEW c \in Callers, Starts(c) PROVE Bodies'
  <2>1. PICK q : q = Post(c, call'[c])
    OBVIOUS
  <2>2. q.method = "hostKey" /\ call'[c].method = "hostKey"
    BY <1>2, <2>1, PostFields DEF Starts
  <2>3. requests' = requests \cup {q}
    BY <1>2, <2>1 DEF Starts
  <2> QED BY <1>2, <2>2, <2>3 DEF Bodies, IsUpload, Starts, OthersStay
<1>3. ASSUME NEW c \in Callers, Returns(c) PROVE Bodies'
  <2>1. call'[c].method = "idle"
    BY <1>3, IdleFields DEF Returns
  <2> QED BY <1>3, <2>1 DEF Bodies, Returns, OthersStay
<1>4. CASE UNCHANGED call /\ requests' \subseteq requests
  BY <1>4 DEF Bodies
<1>5. ASSUME NEW r, NEW a, Serves(r, a) PROVE Bodies'
  BY <1>4, <1>5 DEF Serves
<1> QED
  BY <1>1, <1>2, <1>3, <1>4, <1>5, ClientSteps, StartSends, ServeFields
  DEF Next, MissingCredentials, Edit

\* While a call runs, held gains what AnkiWeb has and loses nothing.
LEMMA HoldGrows ==
    ASSUME Types, NEW x, Hold(x), UNCHANGED call, NEW c \in Callers
    PROVE  /\ held[c] \subseteq held'[c]
           /\ Active(c) => x \in held'[c] /\ web' \in held'[c]
           /\ ~Active(c) => held'[c] = held[c]
BY DEF Types, Hold

LEMMA HeldNext ==
    ASSUME Inv, Next
    PROVE  HeldInv'
<1> USE DEF Inv
<1>1. ASSUME NEW c \in Callers, SendStep(c) \/ Returns(c) PROVE HeldInv'
  <2>1. Quiet(c) /\ held' = held /\ web' = web /\ pages' = pages
    BY <1>1, QuietSteps
    DEF SendStep, Redirects, LogsIn, Transfers, Sends, Returns, server
  <2>2. reply'[c].status # "ok"
    <3> HIDE DEF Inv
    <3> QED BY <2>1, QuietIsNoSuccess
  <2>3. Active(c)' => web' \in held'[c]
    <3>1. CASE SendStep(c)
      BY <2>1, <3>1, SendIsActive DEF HeldInv
    <3>2. CASE Returns(c)
      BY <3>2, IdleFields DEF Returns, Active
    <3> QED BY <1>1, <3>1, <3>2
  <2>4. ASSUME NEW d \in Callers, d # c
        PROVE  call'[d] = call[d] /\ reply'[d] = reply[d]
    BY <2>1, <2>4 DEF Quiet, OthersStay
  <2> QED
    BY <2>1, <2>2, <2>3, <2>4 DEF HeldInv, Succeeds, Active, GoodBytes
<1>2. ASSUME NEW c \in Callers, Starts(c) PROVE HeldInv'
  <2>1. /\ Quiet(c) /\ web' = web /\ pages' = pages /\ held'[c] = {web}
        /\ \A d \in Callers : d # c => held'[d] = held[d]
    BY <1>2, QuietSteps DEF Starts, Types
  <2>2. reply'[c].status # "ok"
    <3> HIDE DEF Inv
    <3> QED BY <2>1, QuietIsNoSuccess
  <2>3. ASSUME NEW d \in Callers, d # c
        PROVE  call'[d] = call[d] /\ reply'[d] = reply[d] /\ held'[d] = held[d]
    BY <2>1, <2>3 DEF Quiet, OthersStay
  <2>4. HeldInv
    OBVIOUS
  <2> HIDE DEF Inv
  <2> QED
    BY <2>1, <2>2, <2>3, <2>4 DEF HeldInv, Succeeds, Active, GoodBytes
<1>3. ASSUME NEW r, NEW a, Serves(r, a), NEW c \in Callers
      PROVE  /\ Active(c)' => web' \in held'[c]
             /\ Succeeds(c)' /\ call'[c].method = "download" =>
                   GoodBytes(c, reply[c].body)'
             /\ Succeeds(c)' /\ call'[c].method = "upload" =>
                   call'[c].upload \in held'[c]
  <2>1. PICK x : /\ x = IF a.status = "ok" /\ r.method = "upload"
                        THEN r.body ELSE web
                 /\ Hold(x) /\ UNCHANGED call
    BY <1>3 DEF Serves
  <2>2. /\ held[c] \subseteq held'[c]
        /\ Active(c) => x \in held'[c] /\ web' \in held'[c]
    BY <2>1, HoldGrows
  <2>3. Active(c)' => web' \in held'[c]
    BY <2>1, <2>2 DEF Active
  <2> pages \subseteq pages'
    BY <1>3 DEF Serves
  <2>4. CASE reply'[c] = reply[c]
    BY <2>1, <2>2, <2>3, <2>4 DEF HeldInv, Succeeds, GoodBytes
  <2>5. CASE /\ reply'[c] # reply[c]
             /\ reply'[c] = a /\ Active(c) /\ r.session = call[c].session
             /\ r.method = call[c].method /\ r.body = call[c].upload
    <3>1. web \in held'[c] \cap Collections
      BY <2>2, <2>5 DEF HeldInv, Types
    <3>2. ASSUME a.status = "ok", call[c].method = "download"
          PROVE  GoodBytes(c, reply[c].body)'
      <4>1. a.body \in {web, Compressed(web), Compressed(Junk), Junk}
        BY <1>3, <2>5, <3>2, OkBody DEF Serves
      <4>2. a.body = Junk => call'[c].session \in pages'
        BY <1>3, <2>1, <2>5, <3>2 DEF Serves
      <4> QED BY <2>5, <3>1, <4>1, <4>2, Zenon DEF GoodBytes
    <3>3. ASSUME a.status = "ok", call[c].method = "upload"
          PROVE  call[c].upload \in held'[c]
      BY <2>1, <2>2, <2>5, <3>3
    <3> QED BY <2>1, <2>3, <2>5, <3>2, <3>3 DEF Succeeds
  <2>6. Types /\ Numbered /\ LastAwaited
    OBVIOUS
  <2> HIDE DEF Inv
  <2>7. \/ reply'[c] = reply[c]
        \/ /\ reply'[c] = a /\ Active(c) /\ r.session = call[c].session
           /\ r.method = call[c].method /\ r.body = call[c].upload
    BY <1>3, <2>6, Reached
  <2> QED BY <2>4, <2>5, <2>7, Zenon
<1>4. ASSUME Edit PROVE HeldInv'
  <2>1. UNCHANGED <<call, reply, pages>> /\ \E x : Hold(x)
    BY <1>4 DEF Edit
  <2>2. ASSUME NEW c \in Callers
        PROVE  /\ held[c] \subseteq held'[c]
               /\ Active(c) => web' \in held'[c]
    BY <2>1, HoldGrows
  <2> QED BY <2>1, <2>2 DEF HeldInv, Succeeds, Active, GoodBytes
<1>5. CASE UNCHANGED <<call, reply, held, pages, web>>
  BY <1>5 DEF HeldInv, Succeeds, Active, GoodBytes
<1>6. ASSUME Serve PROVE HeldInv'
  BY <1>3, <1>6, ServeFields DEF HeldInv
<1> QED
  BY <1>1, <1>2, <1>4, <1>5, <1>6, ClientSteps, StartSends
  DEF Next, MissingCredentials, server

\* What a call returns, and to whom.
LEMMA ReturnedData ==
    ASSUME Types, NEW c \in Callers, NEW ok, NEW data, Return(c, ok, data)
    PROVE  /\ result'[c].ok = ok /\ result'[c].data = data
           /\ \A d \in Callers : d # c => result'[d] = result[d]
           /\ result' = [d \in Callers |-> result'[d]]
           /\ held' = held
<1>1. result' = [result EXCEPT ![c] = [ok |-> ok, data |-> data]] /\ held' = held
  BY DEF Return, server
<1>2. PICK v : v = [ok |-> ok, data |-> data]
  OBVIOUS
<1>3. v.ok = ok /\ v.data = data
  BY <1>2
<1>4. result' = [result EXCEPT ![c] = v]
  BY <1>1, <1>2, Zenon
<1> QED BY <1>1, <1>3, <1>4 DEF Types

\* What DownloadGenuine says of the data that a call of c returns.
Genuine(c, x) == x \in held[c] \/ (x = Junk /\ <<c, number[c]>> \in pages)

\* sync_collection and upload_collection return Ok with a collection that was on
\* AnkiWeb or a page that was sent for it, and everything else is an error.
LEMMA GenuineReturn ==
    ASSUME Types, Answered, Numbered, HeldInv,
           NEW c \in Callers, Client(c), ~SendStep(c)
    PROVE  \E ok, data : Return(c, ok, data) /\ (ok => Genuine(c, data))
<1>1. CASE Downloaded(c)
  <2>1. GoodBytes(c, reply[c].body) /\ reply[c].body # Compressed(Junk)
    BY <1>1 DEF Downloaded, HeldInv
  <2>2. call[c].session = <<c, number[c]>>
    BY <1>1 DEF Downloaded, Numbered, Active
  <2>3. Genuine(c, Decode(reply[c].body))
    BY <2>1, <2>2, Decoded, Zenon DEF GoodBytes, Genuine
  <2> QED BY <1>1, <2>3, Zenon DEF Downloaded
<1>2. CASE Uploaded(c)
  BY <1>2, Zenon DEF Uploaded, HeldInv, Genuine
<1>3. CASE NotSuccess(c) \/ BadAnswer(c) \/ GiveUp(c)
  <2>1. Return(c, FALSE, Junk)
    BY <1>3, Zenon DEF NotSuccess, BadAnswer, GiveUp
  <2> QED BY <2>1, Zenon
<1> QED
  BY <1>1, <1>2, <1>3, FollowSends, LoginSends, MetaSends DEF Client, SendStep

LEMMA GenuineNext ==
    ASSUME Inv, Next
    PROVE  DownloadGenuine'
<1> USE DEF Inv
<1>1. ASSUME NEW c \in Callers, SendStep(c) PROVE DownloadGenuine'
  <2>1. /\ Active(c)' /\ result' = result /\ held' = held
        /\ number' = number /\ pages' = pages
        /\ \A d \in Callers : d # c => call'[d] = call[d]
    BY <1>1, SendIsActive DEF Sends, OthersStay, server
  <2> QED BY <2>1 DEF DownloadGenuine, Active
<1>2. ASSUME NEW c \in Callers, Starts(c) PROVE DownloadGenuine'
  <2>1. Active(c)' /\ result' = result /\ pages' = pages
    BY <1>2 DEF Starts, Active
  <2>2. ASSUME NEW d \in Callers, d # c
        PROVE  call'[d] = call[d] /\ held'[d] = held[d] /\ number'[d] = number[d]
    BY <1>2, <2>2 DEF Starts, OthersStay, Types
  <2> QED BY <2>1, <2>2 DEF DownloadGenuine, Active
<1>3. ASSUME NEW c \in Callers, Client(c), ~SendStep(c) PROVE DownloadGenuine'
  <2>1. PICK ok, data : Return(c, ok, data) /\ (ok => Genuine(c, data))
    BY <1>3, GenuineReturn
  <2>2. /\ result'[c].ok = ok /\ result'[c].data = data /\ held' = held
        /\ \A d \in Callers : d # c => result'[d] = result[d]
    BY <2>1, ReturnedData
  <2>3. /\ number' = number /\ pages' = pages
        /\ \A d \in Callers : d # c => call'[d] = call[d]
    BY <1>3, ClientSteps DEF Returns, OthersStay, server
  <2> QED BY <2>1, <2>2, <2>3 DEF DownloadGenuine, Active, Genuine
<1>4. ASSUME NEW c \in Callers, MissingCredentials(c) PROVE DownloadGenuine'
  <2>1. PICK v : v = [ok |-> FALSE, data |-> Junk]
    OBVIOUS
  <2>2. v.ok = FALSE
    BY <2>1
  <2>3. /\ result' = [result EXCEPT ![c] = v] /\ call' = call /\ held' = held
        /\ number' = [number EXCEPT ![c] = @ + 1] /\ pages' = pages
    BY <1>4, <2>1, Zenon DEF MissingCredentials, server
  <2>4. /\ result'[c] = v
        /\ \A d \in Callers :
              d # c => result'[d] = result[d] /\ number'[d] = number[d]
    BY <2>3 DEF Types
  <2> QED BY <2>2, <2>3, <2>4 DEF DownloadGenuine, Active
<1>5. ASSUME NEW x, Hold(x), UNCHANGED <<call, number, result>>,
             pages \subseteq pages'
      PROVE  DownloadGenuine'
  <2>1. ASSUME NEW c \in Callers, ~Active(c) PROVE held'[c] = held[c]
    BY <1>5, <2>1, HoldGrows
  <2> QED BY <1>5, <2>1 DEF DownloadGenuine, Active
<1>6. ASSUME Serve \/ Edit PROVE DownloadGenuine'
  <2>1. UNCHANGED <<call, number, result>>
    BY <1>6 DEF Serve, Edit
  <2>2. ASSUME Serve PROVE pages \subseteq pages' /\ \E x : Hold(x)
    BY <2>2, ServeFields DEF Serves
  <2>3. ASSUME Edit PROVE pages \subseteq pages' /\ \E x : Hold(x)
    BY <2>3 DEF Edit
  <2> QED BY <1>5, <1>6, <2>1, <2>2, <2>3
<1> QED
  BY <1>1, <1>2, <1>3, <1>4, <1>6, StartSends DEF Next

-----------------------------------------------------------------------------
LEMMA InvInit ==
    ASSUME Init
    PROVE  Inv
<1>1. /\ requests = {} /\ applied = {} /\ sessions = {} /\ keys = {}
      /\ web \in Collections
      /\ reply = [c \in Callers |-> None] /\ number = [c \in Callers |-> 0]
      /\ call = [c \in Callers |-> Idle] /\ held = [c \in Callers |-> {}]
  BY DEF Init
<1>2. PICK v : v = [ok |-> FALSE, data |-> Junk]
  OBVIOUS
<1>3. result = [c \in Callers |-> v] /\ v.ok = FALSE
  BY <1>2 DEF Init
<1>4. ASSUME NEW c \in Callers
      PROVE  /\ call[c] = Idle /\ reply[c] = None /\ result[c].ok = FALSE
             /\ call[c].method = "idle" /\ call[c].session = <<>>
             /\ call[c].posts = 0 /\ reply[c].status = "none"
  BY <1>1, <1>3, IdleFields DEF None
<1>5. Types
  <2>1. call \in [Callers -> CallType] /\ number \in [Callers -> 0 .. MaxCalls]
    BY <1>1, IdleFields, ClientAssumption
  <2>2. /\ reply = [c \in Callers |-> reply[c]]
        /\ result = [c \in Callers |-> result[c]]
        /\ held = [c \in Callers |-> held[c]]
    BY <1>1, <1>3
  <2> QED BY <1>1, <2>1, <2>2 DEF Types
<1>6. Answered /\ MetaServed /\ UploadApplied /\ HeldInv /\ DownloadGenuine
  BY <1>4
  DEF Answered, MetaServed, UploadApplied, HeldInv, DownloadGenuine, Succeeds, Active
<1>7. Numbered /\ LastAwaited /\ OneUpload /\ TransferInSession /\ Bodies
  BY <1>1, <1>4
  DEF Numbered, LastAwaited, OneUpload, TransferInSession, Bodies, Active
<1>8. Budget
  <2>1. ASSUME NEW c \in Callers PROVE call[c].posts <= Allowed(call[c])
    <3>1. /\ call[c].posts = 0 /\ call[c].method = "idle"
          /\ call[c].redirected = FALSE
      BY <1>4, IdleFields
    <3> QED BY <3>1 DEF Allowed
  <2> QED BY <2>1 DEF Budget
<1> QED BY <1>5, <1>6, <1>7, <1>8 DEF Inv

LEMMA InvStutters ==
    ASSUME Inv, UNCHANGED vars
    PROVE  Inv'
<1>1. UNCHANGED <<call, number, requests, reply, result>>
  BY DEF vars
<1>2. UNCHANGED <<web, keys, sessions, applied, held, pages, edits>>
  BY DEF vars, server
<1> USE DEF Inv
<1>3. Types' /\ Numbered'
  BY <1>1, <1>2 DEF Types, Numbered, Active
<1>4. Budget' /\ LastAwaited'
  BY <1>1, <1>2 DEF Budget, LastAwaited
<1>5. Answered' /\ OneUpload' /\ MetaServed' /\ UploadApplied'
  BY <1>1, <1>2 DEF Answered, OneUpload, MetaServed, UploadApplied, Succeeds
<1>6. TransferInSession' /\ Bodies' /\ HeldInv' /\ DownloadGenuine'
  BY <1>1, <1>2
  DEF TransferInSession, Bodies, HeldInv, DownloadGenuine, Succeeds, Active, GoodBytes
<1> QED BY <1>3, <1>4, <1>5, <1>6

LEMMA InvNext ==
    ASSUME Inv, Next
    PROVE  Inv'
<1>1. Types' /\ Answered' /\ Numbered' /\ Budget' /\ LastAwaited' /\ OneUpload'
  BY TypesNext, AnsweredNext, NumberedNext, BudgetNext, LastAwaitedNext,
     OneUploadNext
<1>2. MetaServed' /\ UploadApplied' /\ TransferInSession' /\ Bodies' /\ HeldInv'
      /\ DownloadGenuine'
  BY MetaServedNext, UploadAppliedNext, TransferNext, BodiesNext, HeldNext,
     GenuineNext
<1> QED BY <1>1, <1>2 DEF Inv

LEMMA Invariance == Spec => []Inv
<1>1. Init => Inv
  BY InvInit
<1>2. Inv /\ [Next]_vars => Inv'
  BY InvNext, InvStutters
<1> QED BY <1>1, <1>2, PTL DEF Spec

-----------------------------------------------------------------------------
\* The calls, requests and keys of the client keep their types, and an answer is
\* there only for a caller that is in a call.
THEOREM TypeCorrect == Spec => []TypeOK
<1>1. Inv => TypeOK
  BY DEF Inv, Types, Numbered, TypeOK, CallType, RequestType
<1> QED BY <1>1, Invariance, PTL

\* What sync_collection or upload_collection returns as Ok was on AnkiWeb while
\* the call was running, or is a page that was sent with 2xx for the download of
\* this call, however many calls overlap and are given up.
THEOREM ReturnsAreGenuine == Spec => []DownloadGenuine
<1>1. Inv => DownloadGenuine
  BY DEF Inv
<1> QED BY <1>1, Invariance, PTL

\* When upload_collection is told of success its upload has been applied.
THEOREM UploadsAreApplied == Spec => []UploadApplied
<1>1. Inv => UploadApplied
  BY DEF Inv
<1> QED BY <1>1, Invariance, PTL

\* An upload is applied at most once, because sync_request sends it again only
\* after a redirect, which stands for a request that was not served.
THEOREM UploadsAreAppliedOnce == Spec => []AppliedOnce
<1>1. Inv => AppliedOnce
  BY DEF Inv, OneUpload, AppliedOnce
<1> QED BY <1>1, Invariance, PTL

\* A transfer starts at the endpoint that has answered the meta request, with
\* the session and the key of that request.
THEOREM TransfersAreInSession == Spec => []TransferInSession
<1>1. Inv => TransferInSession
  BY DEF Inv
<1> QED BY <1>1, Invariance, PTL

\* A call makes at most six requests: three methods, with one redirect each.
THEOREM AtMostSixPosts == Spec => []SixPosts
<1>1. Inv => SixPosts
  <2>1. ASSUME Inv, NEW c \in Callers PROVE call[c].posts <= 6
    <3>1. call[c].posts \in Nat /\ call[c].posts <= Allowed(call[c])
      BY <2>1 DEF Inv, Types, Budget, CallType
    <3> QED BY <3>1 DEF Allowed
  <2> QED BY <2>1 DEF SixPosts
<1> QED BY <1>1, Invariance, PTL
=============================================================================
