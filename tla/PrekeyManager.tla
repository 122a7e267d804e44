--------------------------- MODULE PrekeyManager ---------------------------
(***************************************************************************)
(* The client of the prekey server (src/src/prekey_manager.c) and what it  *)
(* publishes of an account: client profile, prekey profile and prekey      *)
(* messages.  A request is a DAKE with the server whose third message      *)
(* carries the publication or the question for the storage status; there   *)
(* is one slot for it, which the answer, an error or ten minutes empty.    *)
(*                                                                         *)
(* The server and the application, whose callbacks mark what is being      *)
(* published and what was, are external: they do what the headers          *)
(* prekey_manager.h and client.h ask for.  The network loses, reorders and *)
(* repeats.  The keys of a request are its number.                         *)
(***************************************************************************)
EXTENDS Account

CONSTANTS
  RequestExpiry,  \* ACCOUNT_REQUEST_EXPIRY
  NetworkFaults,  \* a subset of {"repeat", "refuse", "other_instance"}
  MaxRequests     \* bound: requests

ASSUME RequestAssumption ==
  /\ RequestExpiry \in Nat \ {0}
  /\ MaxRequests \in Nat
  /\ NetworkFaults \subseteq {"repeat", "refuse", "other_instance"}

VARIABLES
  request,    \* manager->request_for_account
  requests,   \* how many requests there were
  wire,       \* the messages on their way
  server,     \* what the prekey server holds, and the open DAKEs
  accepted    \* all that the server has ever accepted (history)

managerVars == <<request, requests, wire, server, accepted>>
vars == <<client, disk, stage, now, made, faults, used, happened,
          request, requests, wire, server, accepted>>

\* ephemeral_ecdh is NULL after the DAKE, when the MAC key is there.
Request ==
  [n : 0 .. MaxRequests, ephemeral_ecdh : BOOLEAN, mac_key : BOOLEAN,
   after_dake : {"none", "publication", "storage"}, at : 0 .. MaxTime]

NoRequest ==
  [n |-> 0, ephemeral_ecdh |-> FALSE, mac_key |-> FALSE, after_dake |-> "none", at |-> 0]

\* A profile or a prekey message is sent without its metadata.
Sent(p) == [id |-> p.id, expires |-> p.expires]
NothingSent == [id |-> 0, expires |-> 0]

NoPublication ==
  [profile |-> [k \in Kinds |-> NothingSent], prekeys |-> {}, question |-> FALSE]

MessageTypes ==
  {"dake1", "dake2", "dake3", "success", "failure", "storage_status"}

\* n is the request whose keys the message was made with; profile is the client
\* profile that dake1 carries and the signature in dake2 covers; body is what a dake3
\* carries, stored the number in a storage status.
Msg(type, n) ==
  [type |-> type, n |-> n, profile |-> 0, body |-> NoPublication, stored |-> 0,
   ours |-> TRUE, copy |-> FALSE]

Init ==
  /\ AccountInit
  /\ request = NoRequest
  /\ requests = 0
  /\ wire = {}
  /\ server = [profile |-> [k \in Kinds |-> NothingSent], prekeys |-> {}, dakes |-> {}]
  /\ accepted = {}

\* The application talks to the server when its account is in order.
Ready == stage = "idle" /\ \A kind \in Kinds : client.profile[kind].id # 0

-----------------------------------------------------------------------------
(* What the application does with the account's flags: client.c *)

\* otrng_client_should_publish
ShouldPublish == client.should_publish /\ ~client.is_publishing

\* otrng_client_published
Published(c) ==
  [c EXCEPT
    !.profile = [k \in Kinds |->
       IF @[k].is_publishing
         THEN [@[k] EXCEPT !.should_publish = FALSE, !.is_publishing = FALSE] ELSE @[k]],
    !.our_prekeys = {IF m.is_publishing
                       THEN [m EXCEPT !.should_publish = FALSE, !.is_publishing = FALSE]
                       ELSE m : m \in @},
    !.should_publish = @ /\ ~c.is_publishing,
    !.is_publishing = FALSE]

\* Variant: the prekey messages that were published leave the file.
StorePublishedPrunes(d, c) ==
  StorePrekeyMessages(d, {m \in c.our_prekeys : ~m.is_publishing})

\* It stores each thing it has marked.
StorePublished(d, c) ==
  LET StoreIf(e, kind) == IF c.profile[kind].is_publishing
                            THEN StoreProfile(e, kind, Published(c).profile[kind]) ELSE e
      withProfiles == StoreIf(StoreIf(d, "client"), "prekey")
  IN  IF \E m \in c.our_prekeys : m.is_publishing
        THEN StorePrekeyMessages(withProfiles, Published(c).our_prekeys)
        ELSE withProfiles

\* otrng_client_failed_published
FailedPublished(c) ==
  [c EXCEPT
    !.profile = [k \in Kinds |-> [@[k] EXCEPT !.is_publishing = FALSE]],
    !.our_prekeys = {[m EXCEPT !.is_publishing = FALSE] : m \in @},
    !.is_publishing = FALSE]

\* notify_error: the application takes any error for the end of the publication.
NotifyError == client' = FailedPublished(client) /\ UNCHANGED disk

-----------------------------------------------------------------------------
(* Requests *)

\* create_prekey_request and prekey_manager_register_account_request
NewRequest(n, after) ==
  [n |-> n, ephemeral_ecdh |-> TRUE, mac_key |-> FALSE, after_dake |-> after, at |-> now]

\* create_dake1
Dake1(n) == [Msg("dake1", n) EXCEPT !.profile = client.profile["client"].id]

\* start_dake1 fails if there is a request.
StartDake1(after) ==
  /\ request = NoRequest
  /\ requests < MaxRequests /\ now + RequestExpiry <= MaxTime
  /\ requests' = requests + 1
  /\ request' = NewRequest(requests', after)
  /\ wire' = wire \cup {Dake1(requests')}

\* otrng_prekey_publish, and otrng_client_start_publishing when it succeeds
Publish ==
  /\ Ready
  /\ ShouldPublish
  /\ StartDake1("publication")
  /\ client' = [client EXCEPT !.is_publishing = TRUE]
  /\ UNCHANGED <<disk, stage, now, made, faults, used, happened, server, accepted>>

\* otrng_prekey_request_storage_information
RequestStorageInformation ==
  /\ Ready
  /\ StartDake1("storage")
  /\ UNCHANGED <<accountVars, server, accepted>>

\* otrng_prekey_check_account_request, from otrng_poll
CheckAccountRequest ==
  /\ stage = "idle"
  /\ request # NoRequest
  /\ request.at + RequestExpiry <= now
  /\ request' = NoRequest
  /\ UNCHANGED <<accountVars, requests, wire, server, accepted>>

\* What the application builds in build_prekey_publication_message: the profiles, and
\* with otrng_prekey_add_prekey_messages_for_publication the prekey messages, that
\* are to be published and are not yet being published.
ProfilesToPublish(c) ==
  [k \in Kinds |-> IF c.profile[k].should_publish /\ ~c.profile[k].is_publishing
                     THEN Sent(c.profile[k]) ELSE NothingSent]
PrekeysToPublish(c) ==
  {m.id : m \in {x \in c.our_prekeys : x.should_publish /\ ~x.is_publishing}}

MarkPublishing(c) ==
  [c EXCEPT
    !.profile = [k \in Kinds |->
       [c.profile[k] EXCEPT !.is_publishing = @ \/ c.profile[k].should_publish]],
    !.our_prekeys = {[m EXCEPT !.is_publishing = @ \/ m.should_publish] : m \in @}]

\* The ring signature of the server is over the client profile and the ephemeral key.
\* The profile is the one of now, not the one that was sent.
ValidDake2(m) ==
  /\ m.n = request.n
  /\ m.profile = client.profile["client"].id
  /\ client.profile["client"].keypair = client.key["keypair"]

\* create_mac_keys
WithMacKeys(r) == [r EXCEPT !.ephemeral_ecdh = FALSE, !.mac_key = TRUE]

\* publication_after_dake: the MAC and the proofs of possession are made with the keys
\* of the request.
PublicationMessage(n) ==
  [Msg("dake3", n) EXCEPT !.body = [NoPublication EXCEPT
     !.profile = ProfilesToPublish(client), !.prekeys = PrekeysToPublish(client)]]

\* storage_request_after_dake
StorageInformationRequest(n) ==
  [Msg("dake3", n) EXCEPT !.body = [NoPublication EXCEPT !.question = TRUE]]

\* send_dake3
SendDake3(m) ==
  /\ request' = WithMacKeys(request)
  /\ IF request.after_dake = "publication"
       THEN /\ wire' = (wire \ {m}) \cup {PublicationMessage(m.n)}
            /\ client' = MarkPublishing(client)
       ELSE /\ wire' = (wire \ {m}) \cup {StorageInformationRequest(m.n)}
            /\ UNCHANGED client

\* process_received_dake2
ReceiveDake2(m) ==
  /\ m.type = "dake2" /\ m.ours
  /\ request.ephemeral_ecdh
  /\ ValidDake2(m)
  /\ SendDake3(m)
  /\ UNCHANGED <<disk, stage, now, made, faults, used, happened, requests, server, accepted>>

\* clean_request_for_account, after the message m
CleanRequest(m) ==
  /\ request' = NoRequest
  /\ wire' = wire \ {m}
  /\ UNCHANGED <<stage, now, made, faults, used, happened, requests, server, accepted>>

\* The signature does not verify: it is an answer to an older request, or the client
\* profile was renewed meanwhile.
RejectDake2(m) ==
  /\ m.type = "dake2" /\ m.ours
  /\ request.ephemeral_ecdh
  /\ ~ValidDake2(m)
  /\ NotifyError
  /\ CleanRequest(m)

\* validate_dake2 reads the ephemeral key, which was freed when dake3 was sent: the
\* application crashes.
CrashOnDake2(m) ==
  /\ m.type = "dake2" /\ m.ours
  /\ request # NoRequest /\ ~request.ephemeral_ecdh
  /\ client' = NewClient
  /\ UNCHANGED disk
  /\ CleanRequest(m)

\* Variant: the MAC of the answer is not checked.
ValidMacAny(m) == request.mac_key

\* The MAC of the answer verifies.
ValidMac(m) == request.mac_key /\ m.n = request.n

\* receive_success
ReceiveSuccess(m) ==
  /\ m.type = "success" /\ m.ours
  /\ request # NoRequest
  /\ ValidMac(m)
  /\ client' = Published(client)
  /\ disk' = StorePublished(disk, client)
  /\ CleanRequest(m)

\* receive_failure, and any answer whose MAC does not verify
ReceiveFailure(m) ==
  /\ m.type \in {"success", "failure", "storage_status"} /\ m.ours
  /\ request # NoRequest
  /\ m.type = "failure" \/ ~ValidMac(m)
  /\ NotifyError
  /\ CleanRequest(m)

\* process_received_storage_status
ReceiveStorageStatus(m) ==
  /\ m.type = "storage_status" /\ m.ours
  /\ request # NoRequest
  /\ ValidMac(m)
  /\ client' = IF m.stored < MinStored
                 THEN [client EXCEPT !.should_publish = TRUE,
                         !.prekey_msgs_num_to_publish = MaxPublished - m.stored]
                 ELSE client
  /\ UNCHANGED disk
  /\ CleanRequest(m)

\* There is no request: receive_decoded_message reports a malformed message.
ReceiveUnexpected(m) ==
  /\ m.type \in {"dake2", "success", "failure", "storage_status"}
  /\ request = NoRequest
  /\ NotifyError
  /\ CleanRequest(m)

\* The message is for another client of the same account; it ends the request
\* without a word.
ReceiveForOther(m) ==
  /\ ~m.ours
  /\ request # NoRequest
  /\ UNCHANGED <<client, disk>>
  /\ CleanRequest(m)

\* otrng_prekey_receive
Receive(m) ==
  /\ Ready
  /\ \/ ReceiveDake2(m)
     \/ RejectDake2(m)
     \/ CrashOnDake2(m)
     \/ ReceiveSuccess(m)
     \/ ReceiveFailure(m)
     \/ ReceiveStorageStatus(m)
     \/ ReceiveUnexpected(m)
     \/ ReceiveForOther(m)

-----------------------------------------------------------------------------
(* The network and the server, external *)

\* Messages wait in wire, or for ever, and are taken in any order.
Repeat(m) ==
  /\ "repeat" \in NetworkFaults
  /\ faults < MaxFaults
  /\ faults' = faults + 1
  /\ m.type # "dake1" /\ ~m.copy
  /\ wire' = wire \cup {[m EXCEPT !.copy = TRUE]}
  /\ UNCHANGED <<client, disk, stage, now, made, used, happened,
                 request, requests, server, accepted>>

ServerReceiveDake1(m) ==
  /\ m.type = "dake1"
  /\ server' = [server EXCEPT !.dakes = @ \cup {m.n}]
  /\ wire' = (wire \ {m}) \cup {[Msg("dake2", m.n) EXCEPT !.profile = m.profile]}
  /\ UNCHANGED <<accountVars, request, requests, accepted>>

\* A publication replaces the profiles it has and adds its prekey messages.
ServerAccept(m) ==
  /\ m.type = "dake3" /\ m.n \in server.dakes /\ ~m.body.question
  /\ server' = [profile |-> [k \in Kinds |->
                   IF m.body.profile[k].id # 0 THEN m.body.profile[k] ELSE server.profile[k]],
                prekeys |-> server.prekeys \cup m.body.prekeys,
                dakes |-> server.dakes \ {m.n}]
  /\ accepted' = accepted \cup m.body.prekeys \cup
                   ({m.body.profile[k].id : k \in Kinds} \ {0})
  /\ wire' = (wire \ {m}) \cup {Msg("success", m.n)}
  /\ UNCHANGED <<accountVars, request, requests>>

ServerRefuse(m) ==
  /\ "refuse" \in NetworkFaults
  /\ faults < MaxFaults
  /\ faults' = faults + 1
  /\ m.type = "dake3" /\ m.n \in server.dakes /\ ~m.body.question
  /\ server' = [server EXCEPT !.dakes = @ \ {m.n}]
  /\ wire' = (wire \ {m}) \cup {Msg("failure", m.n)}
  /\ UNCHANGED <<client, disk, stage, now, made, used, happened,
                 request, requests, accepted>>

ServerReportStorage(m) ==
  /\ m.type = "dake3" /\ m.n \in server.dakes /\ m.body.question
  /\ server' = [server EXCEPT !.dakes = @ \ {m.n}]
  /\ wire' = (wire \ {m}) \cup
       {[Msg("storage_status", m.n) EXCEPT !.stored = Cardinality(server.prekeys)]}
  /\ UNCHANGED <<accountVars, request, requests, accepted>>

\* The server answers another client of the account.
ServerAnswerOther(type) ==
  /\ "other_instance" \in NetworkFaults
  /\ faults < MaxFaults
  /\ faults' = faults + 1
  /\ wire' = wire \cup {[Msg(type, 0) EXCEPT !.ours = FALSE]}
  /\ UNCHANGED <<client, disk, stage, now, made, used, happened,
                 request, requests, server, accepted>>

-----------------------------------------------------------------------------
(* A peer, which runs the same code, starts a conversation *)

\* otrng_prekey_ensemble_validate, for what the peer is given
ValidEnsemble ==
  \A k \in Kinds : server.profile[k].id # 0 /\ ~IsExpired(server.profile[k])

\* verify_non_interactive_auth_message: what the peer signed has to name the present
\* profiles.  If it does not and there are expired ones, the signature is checked with
\* them, and the message is refused whether it verifies or not; if there are none, the
\* MAC over the same text does not verify.
VerifyNonInteractiveAuth ==
  \A k \in Kinds : server.profile[k].id = client.profile[k].id

\* The peer retrieves an ensemble with prekey message id, and its message arrives.
PeerUsesPrekey(id) ==
  /\ Ready
  /\ ValidEnsemble
  /\ server' = [server EXCEPT !.prekeys = @ \ {id}]
  /\ VerifyNonInteractiveAuth
  /\ UsePrekey(id)
  /\ UNCHANGED <<request, requests, wire, accepted>>

PeerIsRefused(id) ==
  /\ "use" \in Events
  /\ Ready
  /\ ValidEnsemble
  /\ server' = [server EXCEPT !.prekeys = @ \ {id}]
  /\ ~VerifyNonInteractiveAuth
  /\ UNCHANGED <<accountVars, request, requests, wire, accepted>>

-----------------------------------------------------------------------------
\* These steps and the steps of otrng_client_ensure_correct_state have no variable
\* in common but the bound on faults, so a call of it need not be interleaved with
\* them: a state between two of its steps differs from one before or after it only
\* in what neither reads.
Environment ==
  \/ \E m \in wire :
       \/ Repeat(m)
       \/ ServerReceiveDake1(m)
       \/ ServerAccept(m)
       \/ ServerRefuse(m)
       \/ ServerReportStorage(m)
  \/ \E type \in {"dake2", "success"} : ServerAnswerOther(type)
  \/ \E id \in server.prekeys : PeerUsesPrekey(id) \/ PeerIsRefused(id)

\* A restart also loses the manager.
RestartManager ==
  /\ Restart
  /\ request' = NoRequest
  /\ UNCHANGED <<requests, wire, server, accepted>>

Next ==
  \/ Ensure /\ UNCHANGED managerVars
  \/ ImportIdentity /\ UNCHANGED managerVars
  \/ Tick /\ UNCHANGED managerVars
  \/ RestartManager
  \/ Publish
  \/ RequestStorageInformation
  \/ CheckAccountRequest
  \/ \E m \in wire : Receive(m)
  \/ stage = "idle" /\ Environment

Spec == Init /\ [][Next]_vars

-----------------------------------------------------------------------------
(* Properties *)

TypeOK ==
  /\ client \in
       [key : [KeyNames -> 0 .. MaxMade], profile : [Kinds -> Profile],
        expired : [Kinds -> Profile], our_prekeys : SUBSET PrekeyMessage,
        should_publish : BOOLEAN, is_publishing : BOOLEAN,
        prekey_msgs_num_to_publish : 0 .. MaxPublished, fingerprints : BOOLEAN]
  /\ disk \in Files
  /\ stage \in Stages
  /\ request \in Request
  /\ \A m \in wire : m.type \in MessageTypes /\ m.n \in 0 .. MaxRequests
  /\ server.prekeys \cup accepted \subseteq 1 .. made

Ids(things) == {t.id : t \in things}

\* What is marked as published, in memory or in the files, the server has accepted
\* (otrng_client_published), whatever answers are lost, late, repeated or for
\* another client, and whenever the account is renewed, restarted or reloaded.
Truthful ==
  \A a \in {client, disk} :
    /\ \A k \in Kinds :
         a.profile[k].id # 0 /\ ~a.profile[k].should_publish
           => a.profile[k].id \in accepted
    /\ Ids({m \in a.our_prekeys : ~m.should_publish}) \subseteq accepted

\* The private part of a prekey message that has left the account is in its file
\* until a peer has used it: the store in ensure_enough_prekey_messages comes
\* before any publication, and no later load, store or crash loses it.  Only a
\* file that could not be read is replaced.
PrekeysKept ==
  "load" \notin happened =>
    server.prekeys \cup UNION {m.body.prekeys : m \in wire}
      \subseteq Ids(disk.our_prekeys) \cup used

\* A profile that the server still gives to peers is in the account's files until
\* it expires, as the current or as the expired one, and a prekey profile with its
\* private part: profiles are renewed, moved and stored in several steps, and
\* publications may arrive late.  That is all the code does for it: the load of an
\* expired prekey profile leaves the private part in the file
\* (LoadExpiredPrekeyProfile), so after a restart the account does not have it.
ServedProfilesKept ==
  happened \subseteq {"create", "crash"} =>
    \A k \in Kinds :
      server.profile[k].id # 0 /\ ~IsExpired(server.profile[k]) =>
        \E f \in {disk.profile[k], disk.expired[k]} :
          f.id = server.profile[k].id /\ (k = "prekey" => f.keys)

\* A call of otrng_client_ensure_correct_state that runs to its end leaves an
\* account with profiles for its present keys, far enough from their end, and
\* enough prekey messages; and a restart would find the same account, with at most
\* more prekey messages if a read of them has failed half way.
InOrder ==
  /\ \A k \in Kinds :
       LET p == client.profile[k] IN
       /\ IsValid(k, p) /\ ~IsCloseToExpiry(p)
       /\ p.keypair = client.key["keypair"]
       /\ StoreProfile(disk, k, p) = disk
  /\ Enough(client.our_prekeys)
  /\ \/ StorePrekeyMessages(disk, client.our_prekeys) = disk
     \/ /\ "load" \in happened
        /\ {PrekeyMessageToFile(m) : m \in client.our_prekeys} \subseteq disk.our_prekeys
  /\ client.key = disk.key

EnsureRepairs ==
  [][stage = "fingerprints" /\ stage' = "idle" /\ client' # NewClient
       /\ "import" \notin happened => InOrder']_vars
=============================================================================
