----------------------------- MODULE MinioBridge -----------------------------
(***************************************************************************)
(* The minio-cpp bridge (integrations/minio-cpp): Client::PutObject() and  *)
(* Client::GetObject(), which move an object by RDMA when they can and by  *)
(* HTTP when they cannot.  Every call shares, with the calls of the other  *)
(* threads and of the clients of other endpoints, the process's one        *)
(* hipObject instance (HipObjRuntime), its buffer registrations, and the   *)
(* transfer counters.                                                      *)
(*                                                                         *)
(* A call names itself what it makes: the instance its hipObjInit() makes  *)
(* and the registration its hipObjBufRegister() makes are named by the     *)
(* call, which makes each at most once.  hipObject itself is as in         *)
(* Lifecycle, BufferMap and Staging, which model it in detail; here a call *)
(* into it is one step, except a staging copy, which other calls overlap.  *)
(* The S3 server and minio-cpp's HTTP client are external.                 *)
(***************************************************************************)
EXTENDS Integers, FiniteSets

CONSTANTS Calls,        \* The calls of PutObject() and GetObject()
          Ops,          \* The operations called: of {"put", "get"}
          Endpoints,    \* The keys of EnsureInit(): a host and a region
          Plain,        \* The endpoints whose server does not do RDMA
          Buffers,      \* The buffers passed as args.buf
          Device,       \* The ones in device memory
          Staged,       \* The ones registered through a staging buffer
          Shared,       \* The ones that calls that only read may share
          MaxTimeouts,  \* Staging copies that time out, at most
          None          \* No call

ASSUME OpsAssumption == Ops \subseteq {"put", "get"}

ASSUME KindsAssumption ==
    /\ Plain \subseteq Endpoints
    /\ Device \subseteq Buffers
    /\ Staged \subseteq Buffers
    /\ Shared \subseteq Buffers

ASSUME NoneAssumption == None \notin Calls

ASSUME MaxTimeoutsAssumption == MaxTimeouts \in Nat

VARIABLES
    pc,           \* [Calls -> PC]: the next step of each call
    args,         \* [Calls -> Args]: what it was called with
    mutex_,       \* HipObjRuntime::mutex_: the call in EnsureInit(), or None
    initialized_, \* HipObjRuntime::initialized_
    active_key_,  \* HipObjRuntime::active_key_
    instance,     \* hipObject's current instance, or None
    home,         \* [Calls -> Calls \cup {None}]: the instance that holds the
                  \* registration the call made, until it is deregistered
    registration, \* The calls whose guard will deregister their buffer
    attempt,      \* [Calls -> Nat]: rdma...WithRetry()'s attempts so far
    token,        \* [Calls -> Calls \cup {None}]: the registration named by
                  \* the token of the attempt
    using,        \* [Calls -> Calls \cup {None}]: the registration a
                  \* hipObjBufSync() in progress copies through
    abandoned,    \* The copies that timed out and still run
    timeouts,     \* How many have timed out
    requests,     \* The requests the server may still act on
    response,     \* [Calls -> a response]: the answer to the call's request
    result,       \* [Calls -> RdmaResult's]: what the attempts came to
    stats,        \* The process-wide counters
    content,      \* [Buffers -> Calls \cup {None}]: the call whose data a
                  \* buffer holds
    staging,      \* [Calls -> Calls \cup {None}]: as content, for the
                  \* staging buffer of a registration
    stored,       \* [Calls -> ...]: as content, for a PUT's object; "empty"
                  \* is an object of no bytes
    via           \* [Calls -> ...]: how the call returned

runtime == <<mutex_, initialized_, active_key_, instance>>
registrations == <<home, registration>>
transfer == <<attempt, token, result>>
copies == <<using, abandoned, timeouts>>
server == <<requests, response>>
memory == <<content, staging, stored>>
vars == <<pc, args, runtime, registrations, transfer, copies, server, memory, stats, via>>

kRdmaMaxAttempts == 2

(***************************************************************************)
(* Sizes, and the numbers in a response                                    *)
(***************************************************************************)
\* Every buffer has this many bytes, or units of bytes
Size == 1

Absent == -1
Malformed == -2

\* A response to a request with a token: whether the HTTP exchange failed,
\* the HTTP status, whether there is an etag, and the x-amz-rdma-reply and
\* x-amz-rdma-bytes-transferred headers
Response(error, status, etag, reply, bytes) ==
    [error |-> error, status |-> status, etag |-> etag, reply |-> reply, bytes |-> bytes]

NoResponse == Response(FALSE, 0, FALSE, Absent, Absent)

RdmaResult(status, bytes) == [status |-> status, bytes |-> bytes]
Failed == RdmaResult("Failed", 0)
NotSupported == RdmaResult("NotSupported", 0)
Ok(bytes) == RdmaResult("Ok", bytes)
Moved(r) == r.status = "Ok" /\ r.bytes > 0

\* The status in a reply: a missing header counts as 501; a malformed one
\* has none
parseRdmaReply(reply) == IF reply = Absent THEN 501 ELSE reply

parseBytesTransferred(bytes, ifAbsent) == IF bytes = Absent THEN ifAbsent ELSE bytes

rdmaPut(r) ==
    LET code == parseRdmaReply(r.reply) IN
    IF r.error THEN Failed
    ELSE IF r.status = 200 /\ r.etag THEN Ok(Size)
    ELSE IF code = 501 THEN NotSupported
    ELSE IF code \in {200, 204} THEN Ok(Size)
    ELSE Failed

rdmaGet(r) ==
    LET code == parseRdmaReply(r.reply)
        bytes == parseBytesTransferred(r.bytes, Size)
    IN  IF r.error THEN Failed
        ELSE IF code = 501 THEN NotSupported
        ELSE IF code \in {200, 206} /\ bytes \in 0 .. Size THEN Ok(bytes)
        ELSE Failed

(***************************************************************************)
(* The server (external)                                                   *)
(***************************************************************************)
\* What the server answers when it moved the bytes: with an etag, or with a
\* reply that says it did
AnswersMoved(op) ==
    IF op = "put"
    THEN {Response(FALSE, 200, TRUE, 200, Absent), Response(FALSE, 204, FALSE, 204, Absent)}
    ELSE {Response(FALSE, 200, TRUE, 200, Size), Response(FALSE, 206, TRUE, 206, Absent)}

\* What it answers when it could not, or declined to: a failed exchange, an
\* error, 501, or a GET's reply whose count of bytes makes no sense
AnswersNot(op) ==
    {Response(TRUE, 500, FALSE, Absent, Absent), Response(FALSE, 503, FALSE, 503, Absent),
     Response(FALSE, 501, FALSE, 501, Absent), Response(FALSE, 200, FALSE, Malformed, Absent)}
    \cup (IF op = "get" THEN {Response(FALSE, 200, TRUE, 200, n) : n \in {0, Size + 1, Malformed}}
                         ELSE {})

\* A server that does not do RDMA takes the request for an ordinary one,
\* whose body has no bytes
AnswerPlain == Response(FALSE, 200, TRUE, Absent, Absent)

(***************************************************************************)
(* The state                                                               *)
(***************************************************************************)
Args == [op : Ops, at : Endpoints, buf : Buffers]
NoArgs == [op |-> "none"]

PC == {"idle", "ensure", "init", "register", "region", "token", "sync", "copy",
       "send", "await", "returned", "http", "httpOnly", "leave", "done"}

Counters == {"rdmaPuts", "rdmaGets", "httpPuts", "httpGets", "rdmaBytes", "httpBytes"}

Init ==
    /\ pc = [c \in Calls |-> "idle"]
    /\ args = [c \in Calls |-> NoArgs]
    /\ mutex_ = None /\ initialized_ = FALSE /\ active_key_ = None /\ instance = None
    /\ home = [c \in Calls |-> None] /\ registration = {}
    /\ attempt = [c \in Calls |-> 0] /\ token = [c \in Calls |-> None]
    /\ result = [c \in Calls |-> Failed]
    /\ using = [c \in Calls |-> None] /\ abandoned = {} /\ timeouts = 0
    /\ requests = {} /\ response = [c \in Calls |-> NoResponse]
    /\ content = [b \in Buffers |-> None]
    /\ staging = [c \in Calls |-> None] /\ stored = [c \in Calls |-> None]
    /\ stats = [n \in Counters |-> 0]
    /\ via = [c \in Calls |-> "none"]

InProgress(c) == pc[c] \notin {"idle", "done"}

\* BufferMap::find(): the registration of b in the current instance
Registered(b) ==
    {r \in Calls : instance # None /\ home[r] = instance /\ args[r].buf = b}

\* AbandonedCopies::running()
CopyRuns(r) == \E a \in abandoned : a.reg = r

\* An instance lives while it is current or a call in progress uses it, and
\* its registrations live with it
Alive(r) ==
    /\ home[r] # None
    /\ home[r] = instance \/ \E d \in Calls : using[d] # None /\ home[using[d]] = home[r]

Goto(c, to) == pc' = [pc EXCEPT ![c] = to]

Return(c, how) == via' = [via EXCEPT ![c] = how]

(***************************************************************************)
(* PutObject() and GetObject(), up to the registration                     *)
(***************************************************************************)
\* The application calls with a buffer no other call uses, or one that all
\* of the calls in progress only read, and that no copy that timed out may
\* still write (hipobj.h says it may).  The buffer of a PUT holds new data
\* unless other calls are reading it.  A call without a buffer goes straight
\* to minio-cpp and changes nothing here.
Call(c) ==
    /\ pc[c] = "idle"
    /\ \E a \in Args :
        LET sharers == {d \in Calls : InProgress(d) /\ args[d].buf = a.buf} IN
        /\ sharers # {} => /\ a.buf \in Shared
                           /\ \A d \in sharers \cup {c} : (IF d = c THEN a ELSE args[d]).op = "put"
        /\ \A x \in abandoned : args[x.by].buf # a.buf
        /\ args' = [args EXCEPT ![c] = a]
        /\ content' = IF a.op = "put" /\ sharers = {} THEN [content EXCEPT ![a.buf] = c] ELSE content
    /\ \/ Goto(c, "ensure") /\ UNCHANGED via
       \/ Goto(c, "done") /\ Return(c, "error")  \* Validate(), no size, or one too large
    /\ UNCHANGED <<runtime, registrations, transfer, copies, server, staging, stored, stats>>

\* Takes the lock.  An instance for another key is shut down first.
EnsureInit(c) ==
    /\ pc[c] = "ensure"
    /\ mutex_ = None
    /\ IF initialized_ /\ active_key_ = args[c].at
       THEN Goto(c, "register") /\ UNCHANGED runtime
       ELSE /\ Goto(c, "init")
            /\ mutex_' = c
            /\ instance' = IF initialized_ THEN None ELSE instance
            /\ initialized_' = FALSE
            /\ UNCHANGED active_key_
    /\ UNCHANGED <<args, registrations, transfer, copies, server, memory, stats, via>>

\* The rest of EnsureInit(): hipObjInit(), with or without a NIC
hipObjInit(c) ==
    /\ pc[c] = "init"
    /\ mutex_' = None
    /\ \/ /\ Goto(c, "register")
          /\ instance' = c /\ initialized_' = TRUE /\ active_key_' = args[c].at
       \/ /\ Goto(c, "httpOnly")
          /\ UNCHANGED <<instance, initialized_, active_key_>>
    /\ UNCHANGED <<args, registrations, transfer, copies, server, memory, stats, via>>

\* Mutant of hipObjBufRegister: no guard
hipObjBufRegisterUnguarded(c) ==
    /\ pc[c] = "register"
    /\ instance # None
    /\ Goto(c, "region")
    /\ home' = [home EXCEPT ![c] = IF Registered(args[c].buf) = {} THEN instance ELSE @]
    /\ UNCHANGED <<registration, via, args, runtime, transfer, copies, server, memory, stats>>

\* A buffer that is registered already is used as it is; only one registered
\* here gets a guard
hipObjBufRegister(c) ==
    /\ pc[c] = "register"
    /\ \/ /\ Registered(args[c].buf) # {}
          /\ Goto(c, "region")
          /\ UNCHANGED <<registrations, via>>
       \/ /\ Registered(args[c].buf) = {} /\ instance # None
          /\ Goto(c, "region")
          /\ home' = [home EXCEPT ![c] = instance]
          /\ registration' = registration \cup {c}
          /\ UNCHANGED via
       \/ /\ Registered(args[c].buf) = {}  \* Refused, or not initialized
          /\ Goto(c, "done") /\ Return(c, "error")
          /\ UNCHANGED registrations
    /\ UNCHANGED <<args, runtime, transfer, copies, server, memory, stats>>

\* Mutant of GetRegion: an error return that skips the guard
GetRegionUnguarded(c) ==
    /\ pc[c] = "region"
    /\ \/ Goto(c, "token") /\ UNCHANGED via
       \/ Goto(c, "done") /\ Return(c, "error")
    /\ UNCHANGED <<args, runtime, registrations, transfer, copies, server, memory, stats>>

GetRegion(c) ==
    /\ pc[c] = "region"
    /\ \/ Goto(c, "token") /\ UNCHANGED via
       \/ Goto(c, "leave") /\ Return(c, "error")
    /\ UNCHANGED <<args, runtime, registrations, transfer, copies, server, memory, stats>>

(***************************************************************************)
(* rdmaPutWithRetry() and rdmaGetWithRetry()                               *)
(***************************************************************************)
\* The loop ends with r
LoopReturns(c, r) ==
    /\ Goto(c, "returned")
    /\ result' = [result EXCEPT ![c] = r]
    /\ token' = [token EXCEPT ![c] = None]
    /\ UNCHANGED attempt


\* An attempt ends with r: the loop ends, a GET copies what arrived to the
\* device first, or the next attempt follows while there is one
AttemptEnds(c, r) ==
    IF Moved(r) /\ args[c].op = "get"
    THEN /\ Goto(c, "sync")
         /\ result' = [result EXCEPT ![c] = r]
         /\ UNCHANGED <<token, attempt>>
    ELSE IF Moved(r) \/ r = NotSupported \/ attempt[c] + 1 = kRdmaMaxAttempts
    THEN LoopReturns(c, r)
    ELSE /\ Goto(c, "token")
         /\ result' = [result EXCEPT ![c] = r]
         /\ token' = [token EXCEPT ![c] = None]
         /\ attempt' = [attempt EXCEPT ![c] = @ + 1]

\* The registration hipObject finds for the call's buffer, when no copy of
\* it that timed out still runs
Usable(c) == {r \in Registered(args[c].buf) : ~CopyRuns(r)}

hipObjGetRdmaToken(c) ==
    /\ pc[c] = "token"
    /\ \/ \E r \in Usable(c) :
            /\ token' = [token EXCEPT ![c] = r]
            /\ Goto(c, IF args[c].op = "put" THEN "sync" ELSE "send")
            /\ UNCHANGED <<attempt, result>>
       \/ Usable(c) = {} /\ LoopReturns(c, Failed)
    /\ UNCHANGED <<args, runtime, registrations, copies, server, memory, stats, via>>

\* After a hipObjBufSync() that succeeded, a PUT sends its request, and a
\* GET is over
Synced(c) ==
    IF args[c].op = "put"
    THEN Goto(c, "send") /\ UNCHANGED transfer
    ELSE LoopReturns(c, result[c])

\* hipObjBufSync() looks the buffer up again, in whichever instance is
\* current now.  Only a staging buffer takes a copy.
hipObjBufSync(c) ==
    /\ pc[c] = "sync"
    /\ \/ \E r \in Usable(c) :
            IF args[c].buf \in Staged
            THEN /\ using' = [using EXCEPT ![c] = r]
                 /\ Goto(c, "copy")
                 /\ UNCHANGED transfer
            ELSE Synced(c) /\ UNCHANGED using
       \/ Usable(c) = {} /\ LoopReturns(c, Failed) /\ UNCHANGED using
    /\ UNCHANGED <<args, runtime, registrations, abandoned, timeouts, server, memory, stats, via>>

\* What call c's copy through registration r does to memory
Copy(c, r) ==
    LET b == args[c].buf IN
    IF args[c].op = "put"
    THEN staging' = [staging EXCEPT ![r] = content[b]] /\ UNCHANGED <<content, stored>>
    ELSE content' = [content EXCEPT ![b] = staging[r]] /\ UNCHANGED <<staging, stored>>

\* The copy ends, fails, or times out and is abandoned
CopyEnds(c) ==
    /\ pc[c] = "copy"
    /\ using' = [using EXCEPT ![c] = None]
    /\ \/ Copy(c, using[c]) /\ Synced(c) /\ UNCHANGED <<abandoned, timeouts>>
       \/ LoopReturns(c, Failed) /\ UNCHANGED <<memory, abandoned, timeouts>>
       \/ /\ timeouts < MaxTimeouts
          /\ timeouts' = timeouts + 1
          /\ abandoned' = abandoned \cup {[reg |-> using[c], by |-> c]}
          /\ LoopReturns(c, Failed)
          /\ UNCHANGED memory
    /\ UNCHANGED <<args, runtime, registrations, server, stats, via>>

\* A copy that timed out finishes after all
AbandonedCopyEnds(a) ==
    /\ abandoned' = abandoned \ {a}
    /\ Copy(a.by, a.reg)
    /\ UNCHANGED <<pc, args, runtime, registrations, transfer, using, timeouts, server, stats, via>>

\* rdmaPut() and rdmaGet(), up to Execute(): sends the request, unless it
\* cannot be built
Send(c) ==
    /\ pc[c] = "send"
    /\ \/ /\ Goto(c, "await")
          /\ requests' = requests \cup {[call |-> c, try |-> attempt[c], token |-> token[c]]}
          /\ UNCHANGED <<response, transfer>>
       \/ AttemptEnds(c, Failed) /\ UNCHANGED server
    /\ UNCHANGED <<args, runtime, registrations, copies, memory, stats, via>>

\* Their rest, with the response
Receive(c) ==
    /\ pc[c] = "await"
    /\ response[c] # NoResponse
    /\ AttemptEnds(c, IF args[c].op = "put" THEN rdmaPut(response[c]) ELSE rdmaGet(response[c]))
    /\ response' = [response EXCEPT ![c] = NoResponse]
    /\ UNCHANGED <<args, runtime, registrations, copies, requests, memory, stats, via>>

\* Or with none, after kRdmaTimeoutSecs or a broken connection.  The server
\* may have acted, and may still act.
TimeOut(c) ==
    /\ pc[c] = "await"
    /\ AttemptEnds(c, Failed)
    /\ response' = [response EXCEPT ![c] = NoResponse]
    /\ UNCHANGED <<args, runtime, registrations, copies, requests, memory, stats, via>>

(***************************************************************************)
(* The server's side of a request (external)                               *)
(***************************************************************************)
\* Reads a PUT's bytes from the memory its token names, or writes a GET's
Move(q) ==
    LET c == q.call
        b == args[c].buf
    IN  IF args[c].op = "put"
        THEN /\ stored' = [stored EXCEPT ![c] = IF b \in Staged THEN staging[q.token] ELSE content[b]]
             /\ UNCHANGED <<content, staging>>
        ELSE /\ staging' = IF b \in Staged THEN [staging EXCEPT ![q.token] = c] ELSE staging
             /\ content' = IF b \in Staged THEN content ELSE [content EXCEPT ![b] = c]
             /\ UNCHANGED stored

Answer(q, r) ==
    response' = IF pc[q.call] = "await" /\ attempt[q.call] = q.try
                THEN [response EXCEPT ![q.call] = r]
                ELSE response

Serve(q) ==
    LET c == q.call IN
    /\ requests' = requests \ {q}
    /\ IF args[c].at \in Plain
       THEN /\ stored' = IF args[c].op = "put" THEN [stored EXCEPT ![c] = "empty"] ELSE stored
            /\ Answer(q, AnswerPlain)
            /\ UNCHANGED <<content, staging>>
       ELSE \/ /\ Alive(q.token)
               /\ \E r \in AnswersMoved(args[c].op) : Answer(q, r)
               /\ Move(q)
            \/ /\ \E r \in AnswersNot(args[c].op) : Answer(q, r)
               /\ UNCHANGED memory
    /\ UNCHANGED <<pc, args, runtime, registrations, transfer, copies, stats, via>>

(***************************************************************************)
(* PutObject() and GetObject(), once the attempts are over                 *)
(***************************************************************************)
Count(c, puts, gets, bytes, n) ==
    stats' = [stats EXCEPT ![IF args[c].op = "put" THEN puts ELSE gets] = @ + 1, ![bytes] = @ + n]

\* Counts the transfer, or gives up, or turns to HTTP
Returned(c) ==
    /\ pc[c] = "returned"
    /\ IF Moved(result[c])
       THEN /\ Goto(c, "leave") /\ Return(c, "rdma")
            /\ Count(c, "rdmaPuts", "rdmaGets", "rdmaBytes", result[c].bytes)
       ELSE /\ UNCHANGED stats
            /\ IF args[c].buf \in Device
               THEN Goto(c, "leave") /\ Return(c, "error")
               ELSE Goto(c, "http") /\ UNCHANGED via
    /\ UNCHANGED <<args, runtime, registrations, transfer, copies, server, memory>>

\* minio-cpp's own PutObject() streams the buffer, and its GetObject() fills it
HttpPut(c) == stored' = [stored EXCEPT ![c] = content[args[c].buf]] /\ UNCHANGED content
HttpGet(c) == content' = [content EXCEPT ![args[c].buf] = c] /\ UNCHANGED stored

\* A GET that fails may have filled part of the buffer, unless RDMA was never
\* tried: HttpGetIntoBuffer() copies the object there only when it succeeds
HttpFails(c) ==
    /\ \/ UNCHANGED content
       \/ /\ pc[c] = "http" /\ args[c].op = "get"
          /\ content' = [content EXCEPT ![args[c].buf] = None]
    /\ UNCHANGED stored

\* Falls back to HTTP, after RDMA failed or because there is none
Http(c) ==
    /\ pc[c] \in {"http", "httpOnly"}
    /\ Count(c, "httpPuts", "httpGets", "httpBytes", Size)
    /\ Goto(c, "leave")
    /\ \/ Return(c, "http") /\ (IF args[c].op = "put" THEN HttpPut(c) ELSE HttpGet(c))
       \/ Return(c, "error") /\ HttpFails(c)
    /\ UNCHANGED <<args, runtime, registrations, transfer, copies, server, staging>>

\* BufDeregisterer, on the way out: deregisters the buffer, if it has a
\* registration in the instance that is current now and nothing uses it
Leave(c) ==
    LET gone == {r \in Registered(args[c].buf) :
                    c \in registration /\ ~CopyRuns(r) /\ \A d \in Calls : using[d] # r}
    IN  /\ pc[c] = "leave"
        /\ Goto(c, "done")
        /\ home' = [r \in Calls |-> IF r \in gone THEN None ELSE home[r]]
        /\ registration' = registration \ {c}
        /\ UNCHANGED <<args, runtime, transfer, copies, server, memory, stats, via>>

(***************************************************************************)
(* The specification                                                       *)
(***************************************************************************)
Step(c) ==
    \/ EnsureInit(c) \/ hipObjInit(c) \/ hipObjBufRegister(c) \/ GetRegion(c)
    \/ hipObjGetRdmaToken(c) \/ hipObjBufSync(c) \/ CopyEnds(c)
    \/ Send(c) \/ Receive(c) \/ TimeOut(c)
    \/ Returned(c) \/ Http(c) \/ Leave(c)

Next ==
    \/ \E c \in Calls : Call(c) \/ Step(c)
    \/ \E a \in abandoned : AbandonedCopyEnds(a)
    \/ \E q \in requests : Serve(q)
    \/ (\A c \in Calls : pc[c] = "done") /\ UNCHANGED vars

Spec == Init /\ [][Next]_vars


\* Once the calls that use a buffer have returned, no server request can
\* still reach it: an answer may have been lost or late, but the registration
\* the token names is gone (BufDeregisterer), unless a staging copy timed out.
NoLateAccess ==
    \A q \in requests :
        (\A c \in Calls : InProgress(c) => args[c].buf # args[q.call].buf) /\ timeouts = 0
            => ~Alive(q.token)

\* The bridge leaves no registration behind when no call is in progress: the
\* guard "releases it on every path" (BufDeregisterer), except the path on
\* which a staging copy timed out and the buffer is still in use.
RegistrationsAreReleased ==
    (\A c \in Calls : ~InProgress(c)) /\ timeouts = 0 => \A r \in Calls : ~Alive(r)

=============================================================================
