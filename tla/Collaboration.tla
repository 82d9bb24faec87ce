---------------------------- MODULE Collaboration ----------------------------
(***************************************************************************)
(* Sessions that edit one document together (src/session/mod.rs over        *)
(* src/sync/mod.rs).  Operations travel in two ways: a peer pulls the delta *)
(* encode_changes_since computes for its state vector, or a single          *)
(* operation of someone's outbox reaches it, at any time and any number of  *)
(* times.                                                                   *)
(***************************************************************************)
EXTENDS Session

CONSTANTS Deployments, MaxPendingBuffer

\* A deployment says who takes part (peers), who inserts blocks (authors), which
\* kinds of operation the hosts issue (kinds) and how many at most (maxOps).
ASSUME DeploymentsAssumption ==
    \A d \in Deployments :
        /\ d.authors \subseteq d.peers /\ d.peers \subseteq Peers
        /\ d.kinds \subseteq {"block", "text", "set", "delete"}
        /\ d.maxOps \in Nat
ASSUME BufferAssumption == MaxPendingBuffer \in Nat

VARIABLES
    deployment,     \* fixed at the start
    session,        \* session[r]: the CollaborativeDocument of replica r
    issued          \* every operation ever created (history)

vars == <<deployment, session, issued>>

Init ==
    /\ deployment \in Deployments
    /\ session = [r \in Peers |-> NewSession]
    /\ issued = {}

\* A public edit method: insert_block, insert_text, set_code_fence and its
\* like, or delete_block.  The block must be visible to the editor.
Edit(r, kind, target) ==
    LET s == session[r]
        id == [peer |-> r, counter |-> s.next_counter]
        op == [peer |-> r, counter |-> s.next_counter, span |-> 1, kind |-> kind,
               block |-> IF kind = "block" THEN id ELSE target,
               observed |-> IF kind = "set" THEN s.sync.state_vector ELSE ZeroVector,
               at |-> Cardinality(issued)]
    IN  /\ Cardinality(issued) < deployment.maxOps
        /\ IF kind = "block" THEN r \in deployment.authors /\ target = id
           ELSE target \in Visible(s.document)
        /\ session' = [session EXCEPT ![r] = Commit(@, op)]
        /\ issued' = issued \cup {op}
        /\ UNCHANGED deployment

Receive(r, message) ==
    /\ message # {}
    /\ Accepts(session[r], message, MaxPendingBuffer)
    /\ session' = [session EXCEPT ![r] = ApplyRemote(@, message)]
    /\ UNCHANGED <<deployment, issued>>

\* A sync round: encode_changes_since at q with r's vector, apply_remote at r.
\* No log is compacted here, so q always has the delta.
Delta(r, q) == EncodeChangesSince(session[q].sync, session[r].sync.state_vector)

Pull(r, q) == Receive(r, Delta(r, q))

\* One operation of an outbox arrives, for the first time or again.
Deliver(r, op) == Receive(r, {op})

\* The ids an edit of r can name: the visible blocks, or its own next id.
Targets(r) ==
    Visible(session[r].document) \cup {[peer |-> r, counter |-> session[r].next_counter]}

Next ==
    \E r \in deployment.peers :
        \/ \E kind \in deployment.kinds, target \in Targets(r) : Edit(r, kind, target)
        \/ \E q \in deployment.peers \ {r} : Pull(r, q)
        \/ \E op \in issued : Deliver(r, op)

Spec == Init /\ [][Next]_vars

\* Pull(r, q) is enabled and changes r: q's delta is not empty, so its first
\* operation continues r's frontier, and r accepts it.
PullDue(r, q) ==
    /\ {r, q} \subseteq deployment.peers
    /\ Delta(r, q) # {}
    /\ Accepts(session[r], Delta(r, q), MaxPendingBuffer)

\* The transport keeps running sync rounds between every two peers: weak
\* fairness of Pull, with its enabling condition spelled out.
FairSpec ==
    /\ Spec
    /\ \A r \in Peers : \A q \in Peers \ {r} :
          []<>~PullDue(r, q) \/ []<><<Pull(r, q)>>_vars

-----------------------------------------------------------------------------
\* Nothing ready is left behind and nothing waits for ever unnoticed: outside
\* of a handler an envelope is kept exactly for the operations in the causal
\* buffer and for logged operations that observed something not logged yet
\* (apply_or_defer, drain_promoted, drain_deferred).
EnvelopesExact ==
    \A r \in Peers :
        LET s == session[r]
        IN  /\ Deferred(s) = {op \in s.sync.ops : ~FrontierReady(s, op)} \cap s.pending_envelopes
            /\ {op \in s.sync.ops : ~FrontierReady(s, op)} \cup s.sync.pending
                  = s.pending_envelopes

\* Replicas that know the same operations and have nothing buffered show the
\* same document ("End-to-end multi-peer collaboration: local edit -> encode ->
\* exchange -> decode -> apply -> converge", docs/architecture-evolution.md:138).
Settled(r) == session[r].sync.pending = {} /\ Deferred(session[r]) = {}
Convergence ==
    \A r, q \in Peers :
        (/\ Settled(r) /\ Settled(q)
         /\ session[r].sync.state_vector = session[q].sync.state_vector)
            => session[r].document = session[q].document

\* A write is never beaten by one it had observed ("a causally newer edit from a
\* fresh peer cannot lose to an older high-counter value",
\* docs/architecture-evolution.md:1825): the register never holds a write that
\* an applied write to the same block had seen.
NewerNeverLoses ==
    \A r \in Peers :
        LET s == session[r]
        IN  \A b \in Visible(s.document) :
               \A op \in s.sync.ops \ Deferred(s) :
                  (op.kind = "set" /\ op.block = b /\ op # s.document.kind[b]) =>
                      op.observed[s.document.kind[b].peer] < s.document.kind[b].counter

\* A document shows the effect of an operation only together with everything
\* the operation's author had seen: what a "set" observed is in the log.
EffectsAreCausal ==
    \A r \in Peers :
        LET s == session[r]
        IN  \A b \in Visible(s.document) :
               Covers(s.sync.state_vector, s.document.kind[b].observed)

\* Once the editing stops, every replica knows every operation and shows the
\* same document for ever.
EventuallyConverged ==
    <>[](\A r, q \in deployment.peers :
            /\ issued \subseteq session[r].sync.ops
            /\ session[r].document = session[q].document)
=============================================================================
