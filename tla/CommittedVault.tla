--------------------------- MODULE CommittedVault ---------------------------
(***************************************************************************)
(* What a vault promises about its documents, whatever is interrupted: a    *)
(* document is its file, its identity and its saved session.  It is renamed *)
(* or deleted as a whole, an identity is given once, a saved session only   *)
(* grows, and publishing changes files only.                                *)
(***************************************************************************)
EXTENDS Naturals

CONSTANTS Places, Contents, Histories, NoFile, NoIdentity, NoHistory

VARIABLES store, given      \* the document at each place; identities given so far

NoDocument == [file |-> NoFile, id |-> NoIdentity, session |-> NoHistory]

VaultInit ==
    /\ \E f \in [Places -> Contents \cup {NoFile}] :
          store = [p \in Places |-> [NoDocument EXCEPT !.file = f[p]]]
    /\ given = 0

\* One export, or a program outside the vault, gives some files new contents.
Publish ==
    /\ \E S \in SUBSET Places : \E f \in [S -> Contents] :
          store' = [p \in Places |->
                      IF p \in S THEN [store[p] EXCEPT !.file = f[p]] ELSE store[p]]
    /\ UNCHANGED given

\* The saved session of an identified document forgets nothing it took in.
SaveHistory ==
    /\ \E p \in Places, h \in Histories :
          /\ store[p].id # NoIdentity
          /\ store[p].session.seen \subseteq h.seen
          /\ store' = [store EXCEPT ![p].session = h]
    /\ UNCHANGED given

GiveIdentity ==
    \E p \in Places :
        /\ store[p].id = NoIdentity
        /\ given' = given + 1
        /\ store' = [store EXCEPT ![p].id = given']

Rename ==
    /\ \E from, to \in Places :
          /\ from # to /\ store[to] = NoDocument
          /\ store' = [store EXCEPT ![to] = store[from], ![from] = NoDocument]
    /\ UNCHANGED given

Delete ==
    /\ \E p \in Places : store' = [store EXCEPT ![p] = NoDocument]
    /\ UNCHANGED given

VaultNext == Publish \/ SaveHistory \/ GiveIdentity \/ Rename \/ Delete

VaultSpec == VaultInit /\ [][VaultNext]_<<store, given>>
=============================================================================
