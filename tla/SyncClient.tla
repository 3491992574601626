------------------------------- MODULE SyncClient -------------------------------
(***************************************************************************)
(* The AnkiWeb client (crates/sync/src/lib.rs): sync_collection and        *)
(* upload_collection, each a login, a meta request and a transfer, all of  *)
(* them through sync_request, which follows one redirect by hand.  Callers *)
(* are the tasks of a daemon that may call it at the same time.            *)
(*                                                                         *)
(* AnkiWeb is the environment: each endpoint answers, redirects, refuses   *)
(* or stays silent as it likes, and may serve a request whose client has   *)
(* given up.  An endpoint that serves an upload replaces the collection;   *)
(* one that redirects or refuses it does not.                              *)
(***************************************************************************)
EXTENDS Integers, FiniteSets

CONSTANTS
    Callers,       \* tasks that use the client
    Endpoints,     \* AnkiWeb's servers
    Default,       \* config.endpoint, or DEFAULT_ENDPOINT
    Collections,   \* collections that AnkiWeb may hold
    Junk,          \* bytes that are no answer to the request
    Nothing,       \* a missing Location header, or no bytes to upload
    MaxCalls,      \* bound on the calls of each caller
    MaxEdits       \* bound on the changes made by other Anki clients

ASSUME ClientAssumption ==
    /\ Default \in Endpoints /\ Nothing \notin Endpoints
    /\ Collections \cap {Junk, Nothing} = {}
    /\ MaxCalls \in Nat /\ MaxEdits \in Nat

VARIABLES
    call,     \* what each caller is doing
    number,   \* calls made by each caller
    requests, \* requests that AnkiWeb has not served
    reply,    \* the answer that has reached each caller, or None
    result,   \* what the caller's last call returned
    web,      \* the collection on AnkiWeb
    keys,     \* sessions of the logins that AnkiWeb has accepted
    sessions, \* meta requests that AnkiWeb has answered
    applied,  \* history: uploads that AnkiWeb has served
    held,     \* history: collections AnkiWeb held during each caller's call
    pages,    \* history: sessions whose download was answered 2xx with a page
    edits     \* number of changes made by other clients

server == <<web, keys, sessions, applied, held, pages, edits>>
vars == <<call, number, requests, reply, result, server>>

-----------------------------------------------------------------------------
\* A call: its method, the endpoint of its POST and whether that is the one of
\* a redirect, session and host key, the bytes to upload, the POSTs so far.
Idle == [method |-> "idle", endpoint |-> Default, redirected |-> FALSE,
         session |-> <<>>, hkey |-> <<>>, upload |-> Nothing, posts |-> 0]

Active(c) == call[c].method # "idle"

None == [status |-> "none", location |-> Nothing, body |-> Junk]

\* What sync_request sends for call k: both keys in the header, and a body.
Post(c, k) == [from |-> c, method |-> k.method, to |-> k.endpoint,
               redirected |-> k.redirected, session |-> k.session,
               hkey |-> k.hkey, body |-> k.upload, post |-> k.posts]

\* zstd_compress, and what sync_request makes of the bytes of an answer: those
\* that start with the magic number are decompressed, others taken as they are.
Compressed(x) == [zstd |-> x]

\* A collection is an SQLite file and does not start with the magic number; for
\* what is no answer it does not matter.
ASSUME MagicAssumption ==
    \A x, y \in Collections \cup {Junk} : x # Compressed(y)

DecodeNot(bytes) == bytes

Decode(bytes) == IF \E x \in Collections \cup {Junk} : bytes = Compressed(x)
                 THEN bytes.zstd ELSE bytes

Init ==
    /\ call = [c \in Callers |-> Idle]
    /\ number = [c \in Callers |-> 0]
    /\ requests = {}
    /\ reply = [c \in Callers |-> None]
    /\ result = [c \in Callers |-> [ok |-> FALSE, data |-> Junk]]
    /\ web \in Collections
    /\ keys = {} /\ sessions = {}
    /\ applied = {}
    /\ held = [c \in Callers |-> {}]
    /\ pages = {}
    /\ edits = 0

-----------------------------------------------------------------------------
\* The caller sends the request of k and waits for its answer.
Send(c, k) ==
    LET sent == [k EXCEPT !.posts = @ + 1] IN
    /\ call' = [call EXCEPT ![c] = sent]
    /\ requests' = requests \cup {Post(c, sent)}
    /\ reply' = [reply EXCEPT ![c] = None]

Return(c, ok, data) ==
    /\ call' = [call EXCEPT ![c] = Idle]
    /\ reply' = [reply EXCEPT ![c] = None]
    /\ result' = [result EXCEPT ![c] = [ok |-> ok, data |-> data]]
    /\ UNCHANGED <<number, requests, server>>

\* login: a new session and no host key yet; then as upload_collection, if there
\* are bytes to upload, or as sync_collection.  Both calls start alike.
Start(c) ==
    /\ ~Active(c) /\ number[c] < MaxCalls
    /\ number' = [number EXCEPT ![c] = @ + 1]
    /\ \E bytes \in Collections \cup {Nothing} :
          Send(c, [Idle EXCEPT !.method = "hostKey", !.upload = bytes,
                               !.session = <<c, number[c] + 1>>])
    /\ held' = [held EXCEPT ![c] = {web}]
    /\ UNCHANGED <<result, web, keys, sessions, applied, pages, edits>>

\* Without credentials both calls fail before their first request.
MissingCredentials(c) ==
    /\ ~Active(c) /\ number[c] < MaxCalls
    /\ number' = [number EXCEPT ![c] = @ + 1]
    /\ result' = [result EXCEPT ![c] = [ok |-> FALSE, data |-> Junk]]
    /\ UNCHANGED <<call, requests, reply, server>>

\* A redirect with a Location is followed once: the same header and body.
FollowAlways(c) ==
    /\ reply[c].status = "redirect" /\ reply[c].location # Nothing
    /\ Send(c, [call[c] EXCEPT !.endpoint = reply[c].location,
                               !.redirected = TRUE])
    /\ UNCHANGED <<number, result, server>>

FollowNowhere(c) ==
    /\ reply[c].status = "redirect" /\ ~call[c].redirected
    /\ Send(c, [call[c] EXCEPT !.endpoint = reply[c].location,
                               !.redirected = TRUE])
    /\ UNCHANGED <<number, result, server>>

FollowRedirect(c) ==
    /\ reply[c].status = "redirect" /\ reply[c].location # Nothing
    /\ ~call[c].redirected
    /\ Send(c, [call[c] EXCEPT !.endpoint = reply[c].location,
                               !.redirected = TRUE])
    /\ UNCHANGED <<number, result, server>>

\* Any other answer than 2xx is an error, a second redirect included.
NotSuccess(c) ==
    /\ \/ reply[c].status = "error"
       \/ /\ reply[c].status = "redirect"
          /\ call[c].redirected \/ reply[c].location = Nothing
    /\ Return(c, FALSE, Junk)

SucceedsAnyway(c) == reply[c].status \in {"ok", "error"}

Succeeds(c) == reply[c].status = "ok"

\* login returns its key.  The endpoint it was redirected to is forgotten.
LoggedIn(c) ==
    /\ Succeeds(c) /\ call[c].method = "hostKey"
    /\ Decode(reply[c].body) # Junk
    /\ Send(c, [call[c] EXCEPT !.method = "meta", !.endpoint = Default,
                               !.redirected = FALSE,
                               !.hkey = Decode(reply[c].body).key])
    /\ UNCHANGED <<number, result, server>>

TransferFromDefault(c) ==
    /\ Send(c, [call[c] EXCEPT
                  !.method = IF call[c].upload = Nothing THEN "download" ELSE "upload",
                  !.endpoint = Default,
                  !.redirected = FALSE])
    /\ UNCHANGED <<number, result, server>>

\* The transfer goes to the endpoint that has answered the meta request.
Transfer(c) ==
    /\ Send(c, [call[c] EXCEPT
                  !.method = IF call[c].upload = Nothing THEN "download" ELSE "upload",
                  !.redirected = FALSE])
    /\ UNCHANGED <<number, result, server>>

\* sync_collection reads the meta response, of which only `empty' matters to it;
\* upload_collection does not.
MetaAnswered(c) ==
    /\ Succeeds(c) /\ call[c].method = "meta"
    /\ call[c].upload = Nothing =>
          Decode(reply[c].body) # Junk /\ ~Decode(reply[c].body).empty
    /\ Transfer(c)

\* Answers that end the call although their status is 2xx: no key, no meta
\* response, an empty collection, bytes that do not decompress.
BadAnswer(c) ==
    /\ Succeeds(c)
    /\ LET body == Decode(reply[c].body) IN
       \/ call[c].method = "hostKey" /\ body = Junk
       \/ /\ call[c].method = "meta" /\ call[c].upload = Nothing
          /\ IF body = Junk THEN TRUE ELSE body.empty
       \/ call[c].method = "download" /\ reply[c].body = Compressed(Junk)
    /\ Return(c, FALSE, Junk)

\* Whatever else comes with 2xx is the collection.
Downloaded(c) ==
    /\ Succeeds(c) /\ call[c].method = "download"
    /\ reply[c].body # Compressed(Junk)
    /\ Return(c, TRUE, Decode(reply[c].body))

Uploaded(c) ==
    /\ Succeeds(c) /\ call[c].method = "upload"
    /\ Return(c, TRUE, call[c].upload)

RetryUpload(c) ==
    /\ Active(c) /\ reply[c] = None
    /\ IF call[c].method = "upload" /\ call[c].posts < 6
       THEN Send(c, call[c]) /\ UNCHANGED <<number, result, server>>
       ELSE Return(c, FALSE, Junk)

\* A timeout of 300 s for every request, or a connection that fails.
NeverGiveUp(c) == Active(c) /\ UNCHANGED vars

GiveUp(c) ==
    /\ Active(c) /\ reply[c] = None
    /\ Return(c, FALSE, Junk)

-----------------------------------------------------------------------------
\* The caller still waits for the answer to r on its connection.
Awaited(r) ==
    /\ call[r.from].session = r.session
    /\ call[r.from].posts = r.post

\* Bodies of a successful answer, compressed or not: the host key, the meta
\* response, the collection; a page in place of these; for a download also bytes
\* with the magic number that do not decompress.
OkBodies(r) ==
    CASE r.method = "hostKey" -> {[key |-> r.session], Junk}
      [] r.method = "meta" -> [empty : BOOLEAN] \cup {Junk}
      [] r.method = "download" -> {web, Compressed(web), Compressed(Junk), Junk}
      [] OTHER -> {Junk}

Answers(r) ==
    [status : {"error"}, location : {Nothing}, body : {Junk}]
        \cup [status : {"redirect"}, location : Endpoints \cup {Nothing},
              body : {Junk}]
        \cup [status : {"ok"}, location : {Nothing}, body : OkBodies(r)]

\* web is now c, which every call in progress may have seen.
Hold(c) ==
    /\ web' = c
    /\ held' = [a \in Callers |-> IF Active(a) THEN held[a] \cup {c} ELSE held[a]]

\* AnkiWeb serves a request, early or late; the answer may be lost.
Serve ==
    /\ \E r \in requests : \E a \in Answers(r) :
          LET served(method) == a.status = "ok" /\ r.method = method IN
          /\ a.status = "ok" => r.method = "hostKey" \/ r.hkey \in keys
          /\ requests' = requests \ {r}
          /\ \/ /\ Awaited(r) /\ reply' = [reply EXCEPT ![r.from] = a]
                /\ pages' = IF served("download") /\ a.body = Junk
                            THEN pages \cup {r.session} ELSE pages
             \/ UNCHANGED <<reply, pages>>
          /\ keys' = IF served("hostKey") THEN keys \cup {r.session} ELSE keys
          /\ sessions' = IF served("meta") THEN sessions \cup {r} ELSE sessions
          /\ applied' = IF served("upload") THEN applied \cup {r} ELSE applied
          /\ Hold(IF served("upload") THEN r.body ELSE web)
    /\ UNCHANGED <<call, number, result, edits>>

Edit ==
    /\ edits < MaxEdits
    /\ edits' = edits + 1
    /\ \E c \in Collections \ {web} : Hold(c)
    /\ UNCHANGED <<call, number, requests, reply, result, keys, sessions, applied,
                   pages>>

Client(c) ==
    \/ FollowRedirect(c) \/ NotSuccess(c) \/ LoggedIn(c) \/ MetaAnswered(c)
    \/ BadAnswer(c) \/ Downloaded(c) \/ Uploaded(c) \/ GiveUp(c)

Next ==
    \/ \E c \in Callers : Start(c) \/ MissingCredentials(c) \/ Client(c)
    \/ Serve
    \/ Edit

Spec == Init /\ [][Next]_vars

\* The client goes on when it has an answer, and its timer ends the wait for one
\* that does not come.  Nothing is assumed of AnkiWeb.
FairSpec == Spec /\ \A c \in Callers : WF_vars(Client(c))

-----------------------------------------------------------------------------
Methods == {"hostKey", "meta", "download", "upload"}
Sessions == {<<>>} \cup (Callers \X (1 .. MaxCalls))

TypeOK ==
    /\ call \in [Callers ->
         [method : Methods \cup {"idle"}, endpoint : Endpoints,
          redirected : BOOLEAN, session : Sessions, hkey : Sessions,
          upload : Collections \cup {Nothing}, posts : Nat]]
    /\ number \in [Callers -> 0 .. MaxCalls]
    /\ \A r \in requests \cup applied \cup sessions :
          r.from \in Callers /\ r.method \in Methods /\ r.to \in Endpoints
    /\ \A c \in Callers : reply[c] = None \/ Active(c)
    /\ web \in Collections
    /\ keys \subseteq Sessions

\* A sync that succeeds returns a collection that AnkiWeb held while the call
\* was running, or a page that an endpoint has sent with 2xx in answer to the
\* download of this very call (sync_request looks at the status and the magic
\* number only): never a compressed or damaged file, what came with another
\* status, or the answer to a request of an earlier call that was given up.
DownloadGenuine ==
    \A c \in Callers :
        result[c].ok /\ ~Active(c) =>
            \/ result[c].data \in held[c]
            \/ result[c].data = Junk /\ <<c, number[c]>> \in pages

\* An upload that succeeds has replaced the collection on AnkiWeb.
UploadApplied ==
    \A c \in Callers :
        call[c].method = "upload" /\ Succeeds(c) =>
            \E r \in applied : r.session = call[c].session

\* An upload replaces the collection at most once, although it may be sent to
\* two endpoints, its answer may be lost and it may be served late: the client
\* repeats a request only when it was told that it has not been served.
AppliedOnce ==
    \A r, s \in applied : r.session = s.session => r = s

\* A download or upload is first sent to an endpoint that has answered a meta
\* request with the same session and host key (`required before download to
\* establish sync session'), wherever login and meta were redirected to.
TransferInSession ==
    \A r \in requests :
        r.method \in {"download", "upload"} /\ ~r.redirected =>
            \E s \in sessions : /\ s.to = r.to
                                /\ s.session = r.session /\ s.hkey = r.hkey

\* A call makes at most six requests.  With a timeout of 300 s each it is over
\* after half an hour, before the next tick of the scheduler that waits for it.
SixPosts == \A c \in Callers : call[c].posts <= 6

\* Every call returns, whatever AnkiWeb does.
CallsReturn == \A c \in Callers : Active(c) ~> ~Active(c)
=============================================================================
