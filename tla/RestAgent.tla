----------------------------- MODULE RestAgent -----------------------------
(***************************************************************************)
(* The RESTful application agent (pkg/agent/rest_agent.go): HTTP requests  *)
(* of its clients and the goroutine that receives bundles work on two      *)
(* concurrent maps, clients and mailbox.  Each access to a map is atomic,  *)
(* a load and the store or delete after it are not.                        *)
(*                                                                         *)
(* The callbacks given to Range return false, which ends the iteration     *)
(* after the first entry, whichever that is.                               *)
(***************************************************************************)
EXTENDS Naturals, Sequences, FiniteSets, SequencesExt

CONSTANTS Uuids,        \* the UUIDs that randomUuid returns, one per client
          Endpoints,    \* the endpoints clients may register for
          RBundles,     \* the bundles that arrive
          Requests,     \* bound: /fetch requests at a time, each a goroutine
          To,           \* bundle -> its destination
          MaxBuild      \* bound: bundles the clients build

VARIABLES clients,      \* uuid -> endpoint
          mailbox,      \* uuid -> sequence of bundles
          inbox,        \* handler: the bundle it receives, and its place
          fetch,        \* request -> its place, its client, what it loaded
          leaving,      \* uuids whose /unregister request is half done
          builds,       \* uuid -> bundles passed on by /build
          arrived,      \* bundles received so far
          fetched,      \* uuid -> the bundles in the answers to /fetch
          due,          \* history: uuid -> bundles for its endpoint
          put,          \* history: uuid -> bundles put into its mailbox
          overlap,      \* history: uuids whose fetch overlapped the handler
          twice         \* history: uuids two fetches of which overlapped

rvars == <<clients, mailbox, inbox, fetch, leaving, builds, arrived, fetched,
           due, put, overlap, twice>>

Empty == [u \in {} |-> <<>>]
NoFetch == [pc |-> "idle"]

RInit == /\ clients = Empty
         /\ mailbox = Empty
         /\ inbox = [pc |-> "idle"]
         /\ fetch = [r \in Requests |-> NoFetch]
         /\ leaving = {}
         /\ builds = [u \in Uuids |-> 0]
         /\ arrived = {}
         /\ fetched = [u \in Uuids |-> <<>>]
         /\ due = [u \in Uuids |-> {}]
         /\ put = [u \in Uuids |-> {}]
         /\ overlap = {} /\ twice = {}

Stored(f, u, x) == [v \in DOMAIN f \union {u} |-> IF v = u THEN x ELSE f[v]]
Deleted(f, u) == [v \in DOMAIN f \ {u} |-> f[v]]
Box(u) == IF u \in DOMAIN mailbox THEN mailbox[u] ELSE <<>>

(* The fetches of a client between their load and their delete *)
Fetching(u) == {r \in Requests : fetch[r].pc = "delete" /\ fetch[r].uuid = u}
-----------------------------------------------------------------------------
(* handleRegister: a new UUID each time.                                   *)
handleRegister(u, e) ==
    /\ u \notin DOMAIN clients \union leaving
    /\ due[u] = {} /\ put[u] = {}
    /\ clients' = Stored(clients, u, e)
    /\ UNCHANGED <<mailbox, inbox, fetch, leaving, builds, arrived, fetched, due,
                   put, overlap, twice>>

(* handleUnregister deletes the client, and then its mailbox.              *)
handleUnregister(u) ==
    /\ u \in DOMAIN clients
    /\ clients' = Deleted(clients, u)
    /\ leaving' = leaving \union {u}
    /\ UNCHANGED <<mailbox, inbox, fetch, builds, arrived, fetched, due, put,
                   overlap, twice>>

UnregisterMailbox(u) ==
    /\ u \in leaving
    /\ mailbox' = Deleted(mailbox, u)
    /\ leaving' = leaving \ {u}
    /\ UNCHANGED <<clients, inbox, fetch, builds, arrived, fetched, due, put,
                   overlap, twice>>

(* handleFetch loads the mailbox, deletes it, and answers; whether the     *)
(* client is registered plays no role, and an empty answer changes nothing.*)
handleFetch(r, u) ==
    /\ fetch[r].pc = "idle"
    /\ u \in DOMAIN mailbox
    /\ fetch' = [fetch EXCEPT ![r] = [pc |-> "delete", uuid |-> u, bundles |-> mailbox[u]]]
    /\ overlap' = IF inbox.pc = "store" /\ inbox.uuid = u THEN overlap \union {u}
                                                          ELSE overlap
    /\ twice' = IF Fetching(u) # {} THEN twice \union {u} ELSE twice
    /\ UNCHANGED <<clients, mailbox, inbox, leaving, builds, arrived, fetched,
                   due, put>>

(* Mutant: what was fetched stays in the mailbox *)
FetchKeep(r) ==
    /\ fetch[r].pc = "delete"
    /\ fetched' = [fetched EXCEPT ![fetch[r].uuid] = @ \o fetch[r].bundles]
    /\ fetch' = [fetch EXCEPT ![r] = NoFetch]
    /\ UNCHANGED <<clients, mailbox, inbox, leaving, builds, arrived, due, put,
                   overlap, twice>>

FetchDelete(r) ==
    /\ fetch[r].pc = "delete"
    /\ mailbox' = Deleted(mailbox, fetch[r].uuid)
    /\ fetched' = [fetched EXCEPT ![fetch[r].uuid] = @ \o fetch[r].bundles]
    /\ fetch' = [fetch EXCEPT ![r] = NoFetch]
    /\ UNCHANGED <<clients, inbox, leaving, builds, arrived, due, put, overlap,
                   twice>>

(* handleBuild: the bundle of a known client goes to the sender; one that  *)
(* names its endpoint neither as source nor as report_to is refused.       *)
handleBuild(u, e) ==
    /\ u \in DOMAIN clients /\ clients[u] = e
    /\ builds[u] < MaxBuild
    /\ builds' = [builds EXCEPT ![u] = @ + 1]
    /\ UNCHANGED <<clients, mailbox, inbox, fetch, leaving, arrived, fetched,
                   due, put, overlap, twice>>
-----------------------------------------------------------------------------
(* receiveBundleMessage: Range over the clients ends with the first one.   *)
receiveBundleMessage(b) ==
    /\ inbox.pc = "idle" /\ b \notin arrived
    /\ arrived' = arrived \union {b}
    /\ due' = [u \in Uuids |-> IF u \in DOMAIN clients /\ clients[u] = To[b]
                               THEN due[u] \union {b} ELSE due[u]]
    /\ \/ /\ \/ clients = Empty
             \/ \E u \in DOMAIN clients : clients[u] # To[b]
          /\ inbox' = inbox
       \/ \E u \in DOMAIN clients :
             /\ clients[u] = To[b]
             /\ inbox' = [pc |-> "load", uuid |-> u, bundle |-> b]
    /\ UNCHANGED <<clients, mailbox, fetch, leaving, builds, fetched, put,
                   overlap, twice>>

MailboxLoad ==
    /\ inbox.pc = "load"
    /\ inbox' = [pc |-> "store", uuid |-> inbox.uuid, bundle |-> inbox.bundle,
                 bundles |-> Append(Box(inbox.uuid), inbox.bundle)]
    /\ overlap' = IF Fetching(inbox.uuid) # {}
                  THEN overlap \union {inbox.uuid} ELSE overlap
    /\ UNCHANGED <<clients, mailbox, fetch, leaving, builds, arrived, fetched,
                   due, put, twice>>

MailboxStore ==
    /\ inbox.pc = "store"
    /\ mailbox' = Stored(mailbox, inbox.uuid, inbox.bundles)
    /\ put' = [put EXCEPT ![inbox.uuid] = @ \union {inbox.bundle}]
    /\ inbox' = [pc |-> "idle"]
    /\ UNCHANGED <<clients, fetch, leaving, builds, arrived, fetched, due, overlap,
                   twice>>

RNext == \/ \E b \in RBundles : receiveBundleMessage(b)
         \/ MailboxLoad \/ MailboxStore
         \/ \E r \in Requests : FetchDelete(r) \/ \E u \in Uuids : handleFetch(r, u)
         \/ \E u \in Uuids : \/ handleUnregister(u) \/ UnregisterMailbox(u)
                             \/ \E e \in Endpoints : \/ handleRegister(u, e)
                                                     \/ handleBuild(u, e)

RSpec == RInit /\ [][RNext]_rvars
-----------------------------------------------------------------------------
(***************************************************************************)
(* A bundle that was put into the mailbox of a client stays there until it *)
(* is in the answer to a fetch, as long as the client is registered and no *)
(* fetch overlapped the handler between its load and its store; and it is  *)
(* in one answer only, unless two fetches of the client overlapped.        *)
(***************************************************************************)
MailboxKept ==
    \A u \in DOMAIN clients \ overlap :
        LET all == fetched[u] \o Box(u)
        IN  Fetching(u) = {} =>
                /\ ToSet(all) = put[u]
                /\ u \notin twice => Len(all) = Cardinality(put[u])

(***************************************************************************)
(* receiveBundleMessage says that multiple clients might be registered for *)
(* some endpoint: between two bundles, each registered client has got all  *)
(* bundles for its endpoint that arrived since it registered.              *)
(***************************************************************************)
EveryClientGetsIt ==
    inbox.pc = "idle" =>
        \A u \in DOMAIN clients \ overlap : due[u] \subseteq put[u]
=============================================================================
