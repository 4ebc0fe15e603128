---------------------------- MODULE Commissioner ----------------------------
(***************************************************************************)
(* The join job of the UI worker: meshcop.c fetches a network's dataset    *)
(* from a border router with the code that was scanned or typed, and the   *)
(* job hands it to OpenThread.  It shares the worker, its busy flag and the*)
(* screen with the camera jobs of Camera.                                  *)
(*                                                                         *)
(* External: the router, which acknowledges a request at once and answers  *)
(* it separately, or answers with the acknowledgement; the network, which  *)
(* may lose datagrams and change their order; DTLS and its handshake, which*)
(* has its own timeouts.  After the handshake mbedtls_ssl_read waits for   *)
(* ever, as no read timeout is set.                                        *)
(***************************************************************************)
EXTENDS Camera

CONSTANT Repeats  \* the router sends an answer again until it is acknowledged

ASSUME CommissionerAssumption == Repeats \in BOOLEAN

VARIABLES
  request,   \* external: the request on its way to the router
  granted,   \* external: the router has accepted the petition
  air,       \* external: datagrams on their way to the device
  sent,      \* history: answers the router sent in this session
  tries,     \* messages read_real_response has skipped
  lastError, \* s_last_error
  dataset,   \* the answer whose payload is in the worker's dataset buffer
  broken,    \* history: a read of this session failed
  lost       \* history: a request or an answer of this session was lost

session == <<request, granted, air, sent, tries, lastError, dataset, broken, lost>>
allVars == <<vars, session>>

Acks == {"petition_ack", "get_ack"}
PetitionAnswers == {"accept", "decline", "reject"}
\* The dataset, one larger than the buffer, or none.
GetAnswers == {"dataset", "large", "empty", "reject"}
Datagrams == Acks \cup PetitionAnswers \cup GetAnswers

Errors == {"", "unreachable", "handshake", "send", "no reply", "rejected", "declined",
           "no dataset", "too large"}

\* meshcop_coap_is_success, meshcop_petition_was_accepted and the payload.
IsSuccess(m) == m \notin Acks \cup {"reject"}
WasAccepted(m) == m = "accept"
HasPayload(m) == m # "empty"

JoinTypeOK ==
  /\ request \in {"none", "petition", "get"} /\ granted \in BOOLEAN
  /\ air \subseteq Datagrams /\ sent \subseteq Datagrams
  /\ tries \in 0..3 /\ broken \in BOOLEAN /\ lost \in BOOLEAN
  /\ lastError \in Errors /\ dataset \in Datagrams \cup {"none"}

CommissionerInit ==
  /\ Init
  /\ request = "none" /\ granted = FALSE /\ air = {} /\ sent = {} /\ tries = 0
  /\ lastError = "" /\ dataset = "none" /\ broken = FALSE /\ lost = FALSE

-----------------------------------------------------------------------------
(* The touch callback and the start of the job. *)

\* on_keypad, OK: the code is copied into the job.
TapOk ==
  /\ Reachable /\ panel = "keypad" /\ coded
  /\ \/ /\ ~Refuses /\ Len(queue) < Depth
        /\ queue' = Append(queue, "join")
        /\ busy' = TRUE /\ panel' = "result"
        /\ cancelled' = FALSE
     \/ UNCHANGED <<queue, busy, panel, cancelled>>
  /\ UNCHANGED <<at, scanner, jobVars, abort, canvas, coded, session>>

\* worker, and meshcop_fetch_dataset up to the connection.
FetchBegins ==
  /\ queue # <<>> /\ Head(queue) = "join"
  /\ Goes("worker", "idle", "connect")
  /\ job' = "join" /\ queue' = Tail(queue)
  /\ UNCHANGED <<scanner, frames, got, screenVars, coded, session>>

OnWorker == UNCHANGED <<scanner, queue, jobVars, screenVars, coded>>
Fetching == OnWorker /\ UNCHANGED lost

\* done: with an error.
GivesUp(from, error) ==
  /\ Goes("worker", from, "failed") /\ lastError' = error

\* Seeding, the socket, the DTLS configuration: some failures say nothing.
Connects ==
  /\ \/ Goes("worker", "connect", "handshake") /\ UNCHANGED lastError
     \/ \E e \in {"", "unreachable"} : GivesUp("connect", e)
  /\ UNCHANGED <<request, granted, air, sent, tries, dataset, broken>> /\ Fetching

\* The EC-JPAKE handshake retransmits and times out by itself.
Handshakes ==
  /\ \/ Goes("worker", "handshake", "petition") /\ UNCHANGED lastError
     \/ GivesUp("handshake", "handshake")
  /\ UNCHANGED <<request, granted, air, sent, tries, dataset, broken>> /\ Fetching

-----------------------------------------------------------------------------
(* Requests and answers. *)

\* coap_post and mbedtls_ssl_write; then read_real_response.
Posts(from, uri, to) ==
  /\ \/ /\ Goes("worker", from, to) /\ UNCHANGED lastError
        /\ request' = uri /\ tries' = 0
     \/ /\ GivesUp(from, "send") /\ UNCHANGED <<request, tries>>
  /\ UNCHANGED <<granted, air, sent, broken, dataset>> /\ Fetching

\* Fault: the dataset is asked for without waiting for the petition's answer.
PetitionDoesNotWait == Posts("petition", "petition", "get")

Petition == Posts("petition", "petition", "petition_read")
ActiveGet == Posts("get", "get", "get_read")

\* Messages read_real_response looks at.
Attempts == 4

\* An empty ACK is skipped; the last one it may skip ends the wait.
Skips(place) ==
  /\ at["worker"] = place
  /\ \E m \in air \cap Acks :
       /\ air' = air \ {m}
       /\ tries' = tries + 1
       /\ IF tries + 1 < Attempts
            THEN UNCHANGED <<at, lastError>>
            ELSE GivesUp(place, "no reply")
  /\ UNCHANGED <<request, granted, sent, broken, dataset>> /\ Fetching

\* The connection fails.
ReadFails(place) ==
  /\ GivesUp(place, "no reply") /\ broken' = TRUE
  /\ UNCHANGED <<request, granted, air, sent, tries, dataset>> /\ Fetching

Takes(m) == air' \in {air \ {m}} \cup IF Repeats THEN {air} ELSE {}

\* The answer to the petition, in the order of the code's tests.
ReadPetition ==
  /\ at["worker"] = "petition_read"
  /\ \E m \in air \ Acks :
       /\ Takes(m)
       /\ CASE ~IsSuccess(m)   -> GivesUp("petition_read", "rejected")
            [] IsSuccess(m) /\ ~WasAccepted(m) -> GivesUp("petition_read", "declined")
            [] OTHER -> Goes("worker", "petition_read", "get") /\ UNCHANGED lastError
  /\ UNCHANGED <<request, granted, sent, tries, broken, dataset>> /\ Fetching

\* The answer to the request for the dataset: any success with a payload.
ReadDataset ==
  /\ at["worker"] = "get_read"
  /\ \E m \in air \ Acks :
       /\ Takes(m)
       /\ CASE ~IsSuccess(m) -> GivesUp("get_read", "rejected") /\ UNCHANGED dataset
            [] IsSuccess(m) /\ ~HasPayload(m) ->
                 GivesUp("get_read", "no dataset") /\ UNCHANGED dataset
            [] m = "large" -> GivesUp("get_read", "too large") /\ UNCHANGED dataset
            [] OTHER -> /\ dataset' = m
                        /\ Goes("worker", "get_read", "fetched") /\ UNCHANGED lastError
  /\ UNCHANGED <<request, granted, sent, tries, broken>> /\ Fetching

\* The router hears the request: the answer, with or after an acknowledgement.
RouterAnswers ==
  /\ request # "none" /\ request' = "none"
  /\ \E m \in IF request = "petition" THEN PetitionAnswers
              ELSE IF granted THEN GetAnswers ELSE {"reject"} :
       /\ granted' = (granted \/ m = "accept")
       /\ sent' = sent \cup {m}
       /\ \E ack \in SUBSET {IF request = "petition" THEN "petition_ack" ELSE "get_ack"} :
            air' = air \cup {m} \cup ack
  /\ UNCHANGED <<vars, tries, broken, lost, lastError, dataset>>

NetworkLoses ==
  /\ \/ request # "none" /\ request' = "none" /\ UNCHANGED air /\ lost' = TRUE
     \/ \E m \in air :
          air' = air \ {m} /\ UNCHANGED request /\ lost' = (lost \/ m \notin Acks)
  /\ UNCHANGED <<vars, granted, sent, tries, broken, lastError, dataset>>

-----------------------------------------------------------------------------
(* The rest of the job. *)

\* What a session leaves is not looked at again: the socket is closed, and the next
\* fetch begins with an empty error and no dataset.
Closes ==
  /\ request' = "none" /\ granted' = FALSE /\ air' = {} /\ sent' = {} /\ tries' = 0
  /\ lastError' = "" /\ dataset' = "none" /\ broken' = FALSE /\ lost' = FALSE
  /\ OnWorker

\* finish_join, for a failure.
FetchFailed == Goes("worker", "failed", "end") /\ Closes

\* thread_join, and up to a minute of waiting for the mesh.
Applies ==
  \/ Goes("worker", "fetched", "attach") /\ UNCHANGED session /\ OnWorker
  \/ Goes("worker", "fetched", "end") /\ Closes
Attaches == Goes("worker", "attach", "end") /\ Closes

Reads == {"petition_read", "get_read"}
JoinWorker ==
  \/ FetchBegins \/ Connects \/ Handshakes \/ Petition \/ ActiveGet
  \/ \E place \in Reads : Skips(place)
  \/ ReadPetition \/ ReadDataset \/ FetchFailed \/ Applies \/ Attaches

CommissionerNext ==
  \/ Next /\ UNCHANGED session
  \/ TapOk \/ JoinWorker \/ RouterAnswers \/ NetworkLoses
  \/ \E place \in Reads : ReadFails(place)

CommissionerSpec == CommissionerInit /\ [][CommissionerNext]_allVars

\* The worker runs, the camera driver's calls return, and the router answers what it
\* hears.  A connection need not ever fail.
FairSpec ==
  /\ CommissionerSpec
  /\ WF_allVars((Scanner("worker") \/ CameraWorker) /\ UNCHANGED session)
  /\ WF_allVars(JoinWorker)
  /\ WF_allVars(RouterAnswers)

-----------------------------------------------------------------------------
(* Properties. *)

\* Whatever acknowledgements come, late or before their answer: what is handed to
\* OpenThread as a dataset is the router's answer to that request, never a late one to
\* the petition; the router is said to have rejected or declined only if it did, and
\* to be silent only if the connection broke.
OutcomeIsTrue ==
  /\ dataset # "none" => dataset = "dataset"
  /\ lastError = "rejected" => "reject" \in sent
  /\ lastError = "declined" => "decline" \in sent
  /\ lastError = "no reply" => broken

\* Whatever fails or is cancelled, the device does not stay busy -- unless a
\* request or an answer is lost after the handshake: nobody sends it again, and
\* nothing ends the wait for it.
DeviceComesFree == busy ~> (~busy \/ lost)
=============================================================================
