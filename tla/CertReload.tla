----------------------------- MODULE CertReload ------------------------------
(***************************************************************************)
(* The certificate of a worker's TlsServer (tls_linux.c.v, and file_id of  *)
(* tls_linux.h): loaded at the start, replaced when the files on disk      *)
(* change, and kept alive for the handshakes mbedtls runs with it.  The    *)
(* files are written by another process, one after the other, between any  *)
(* two system calls of the worker.                                         *)
(***************************************************************************)
EXTENDS Integers, Sequences, FiniteSets

CONSTANTS
    TlsConns,   \* the TLS connections of the worker
    Versions,   \* pairs that are put on disk
    MaxChanges, \* bound: changes of a file
    MaxPicks    \* bound: handshakes

ASSUME CertAssumption ==
    /\ Versions \subseteq Nat \ {0} /\ 1 \in Versions
    /\ MaxChanges \in Nat /\ MaxPicks \in Nat
    /\ IsFiniteSet(TlsConns)

\* What is in a file: nothing, something that does not parse, or one half of
\* the pair of a number.
Missing == -1
Torn == 0
Nil == 0        \* no pair: the index of none
NoId == 0       \* a viltrum_file_id no file has: all zero
NoFile == [id |-> NoId, holds |-> Missing]

VARIABLES
    cert_file, key_file,    \* the files: [id |-> what stat says of it, holds |-> its content]
    clock,                  \* the last id given to a file
    pairs,                  \* every CertPair made: what it was read from, refs, freed
    pair, old,              \* s.pair and s.old
    cert_id, key_id, bad_cert, bad_key,
    rpc,                    \* where reload is
    cid, kid,               \* its ids
    read_cert,              \* the certificate load_pair has read
    picked,                 \* t.pair of each connection
    picks                   \* bound

diskVars == <<cert_file, key_file, clock>>
idVars == <<cert_id, key_id, bad_cert, bad_key>>
reloadVars == <<cid, kid, read_cert>>
certVars == <<diskVars, pairs, pair, old, idVars, rpc, reloadVars, picked, picks>>

NewPair(c, k) == [cert |-> c, key |-> k, refs |-> 0, freed |-> FALSE]

\* new_tls_server has taken both ids and loaded the pair.
CertInit ==
    /\ cert_file = [id |-> 1, holds |-> 1] /\ key_file = [id |-> 2, holds |-> 1] /\ clock = 2
    /\ pairs = <<NewPair(cert_file, key_file)>>
    /\ pair = 1 /\ old = {}
    /\ cert_id = 1 /\ key_id = 2 /\ bad_cert = NoId /\ bad_key = NoId
    /\ rpc = "idle" /\ cid = NoId /\ kid = NoId /\ read_cert = NoFile
    /\ picked = [t \in TlsConns |-> Nil]
    /\ picks = 0

-----------------------------------------------------------------------------
(* The other process (external): a rename onto the path, a rewrite in      *)
(* place, which is a change to something torn and a change to the whole,   *)
(* or a removal.  Every change gives the file an id it never had.          *)

Contents == {Missing, Torn} \cup Versions

Change(holds) == [id |-> clock + 1, holds |-> holds]
ChangeCert ==
    /\ clock < 2 + MaxChanges
    /\ \E h \in Contents : cert_file' = Change(h)
    /\ clock' = clock + 1
    /\ UNCHANGED <<key_file, pairs, pair, old, idVars, rpc, reloadVars, picked, picks>>
ChangeKey ==
    /\ clock < 2 + MaxChanges
    /\ \E h \in Contents : key_file' = Change(h)
    /\ clock' = clock + 1
    /\ UNCHANGED <<cert_file, pairs, pair, old, idVars, rpc, reloadVars, picked, picks>>

-----------------------------------------------------------------------------
(* reload, from sweep: the worker does nothing else until it returns.      *)

\* The replaced pairs no handshake references.
Unused == {p \in old : pairs[p].refs = 0}

\* The end of reload; its locals are gone.
Returns == rpc' = "idle" /\ cid' = NoId /\ kid' = NoId /\ read_cert' = NoFile

\* They are freed, and the certificate's id is taken.
ReloadStart ==
    /\ rpc = "idle"
    /\ pairs' = [p \in DOMAIN pairs |-> IF p \in Unused THEN [pairs[p] EXCEPT !.freed = TRUE] ELSE pairs[p]]
    /\ old' = old \ Unused
    /\ IF cert_file.holds = Missing THEN Returns
       ELSE rpc' = "stat_key" /\ cid' = cert_file.id /\ UNCHANGED <<kid, read_cert>>
    /\ UNCHANGED <<diskVars, pair, idVars, picked, picks>>

\* Mutant of SkipReload: one half of a pair that failed is not tried again.
SkipHalfBad(c, k) == (c = cert_id /\ k = key_id) \/ c = bad_cert

\* Both are what is loaded, or what last failed to.
SkipReload(c, k) == (c = cert_id /\ k = key_id) \/ (c = bad_cert /\ k = bad_key)

\* The key's id, and whether there is anything to load.
ReloadStatKey ==
    /\ rpc = "stat_key"
    /\ IF key_file.holds = Missing \/ SkipReload(cid, key_file.id) THEN Returns
       ELSE rpc' = "load_cert" /\ kid' = key_file.id /\ UNCHANGED <<cid, read_cert>>
    /\ UNCHANGED <<diskVars, pairs, pair, old, idVars, picked, picks>>

Fails ==
    /\ Returns
    /\ bad_cert' = cid /\ bad_key' = kid
    /\ UNCHANGED <<pairs, pair, old, cert_id, key_id>>

\* load_pair reads the certificate,
ReloadCert ==
    /\ rpc = "load_cert"
    /\ \/ cert_file.holds \in {Missing, Torn} /\ Fails
       \/ /\ cert_file.holds \notin {Missing, Torn}
          /\ rpc' = "load_key" /\ read_cert' = cert_file
          /\ UNCHANGED <<pairs, pair, old, idVars, cid, kid>>
    /\ UNCHANGED <<diskVars, picked, picks>>

\* Mutant of LoadedIds: the ids are those of the files after the load.
IdsAfter == cert_id' = cert_file.id /\ key_id' = key_file.id

\* The ids of the new pair are those taken before it was read.
LoadedIds == cert_id' = cid /\ key_id' = kid

\* then the key, checks that they belong together, and swaps the pair in.
ReloadKey ==
    /\ rpc = "load_key"
    /\ \/ key_file.holds # read_cert.holds /\ Fails
       \/ /\ key_file.holds = read_cert.holds
          /\ pairs' = Append(pairs, NewPair(read_cert, key_file))
          /\ old' = old \cup {pair}
          /\ pair' = Len(pairs) + 1
          /\ LoadedIds
          /\ Returns
          /\ UNCHANGED <<bad_cert, bad_key>>
    /\ UNCHANGED <<diskVars, picked, picks>>

-----------------------------------------------------------------------------
(* Handshakes of mbedtls.                                                  *)

Adjust(p, by) == [pairs EXCEPT ![p].refs = @ + by]

\* Mutant of Taken: the pair picked before is not given back.
TakenTwice(t) == pairs' = Adjust(pair, 1)

\* release and refs++ of tls_pick_cert.
Taken(t) ==
    pairs' = [p \in DOMAIN pairs |->
                 [pairs[p] EXCEPT !.refs = @ + (IF p = pair THEN 1 ELSE 0)
                                             - (IF p = picked[t] THEN 1 ELSE 0)]]

\* tls_pick_cert, which mbedtls calls once a handshake, and again on a
\* connection that kept its pair.
PickCert(t) ==
    /\ rpc = "idle" /\ picks < MaxPicks
    /\ Taken(t)
    /\ picked' = [picked EXCEPT ![t] = pair]
    /\ picks' = picks + 1
    /\ UNCHANGED <<diskVars, pair, old, idVars, rpc, reloadVars>>

\* release, when the handshake is done or the connection closes.
Release(t) ==
    /\ rpc = "idle" /\ picked[t] # Nil
    /\ pairs' = Adjust(picked[t], -1)
    /\ picked' = [picked EXCEPT ![t] = Nil]
    /\ UNCHANGED <<diskVars, pair, old, idVars, rpc, reloadVars, picks>>

Reload == ReloadStart \/ ReloadStatKey \/ ReloadCert \/ ReloadKey
CertNext ==
    \/ ChangeCert \/ ChangeKey \/ Reload
    \/ \E t \in TlsConns : PickCert(t) \/ Release(t)
CertSpec == CertInit /\ [][CertNext]_certVars

-----------------------------------------------------------------------------
\* The pair served, and every pair a handshake holds, has not been freed, and a
\* pair counts exactly the handshakes that hold it (pick_cert, release, reload).
PairsAlive ==
    /\ ~pairs[pair].freed
    /\ \A t \in TlsConns : picked[t] # Nil => ~pairs[picked[t]].freed
    /\ \A p \in DOMAIN pairs : pairs[p].refs = Cardinality({t \in TlsConns : picked[t] = p})

\* While the files have the ids the pair was loaded under, the pair is what they
\* hold: a change between stat and load is seen by the next sweep (reload).
NoMissedChange ==
    (cert_file.id = cert_id /\ key_file.id = key_id) =>
        pairs[pair].cert = cert_file /\ pairs[pair].key = key_file

\* Once the files stay as they are and belong together, they are served:
\* failures on the way there, of half written or mismatched files, do not stick.
NewPairServed ==
    \A v \in Versions :
        (clock = 2 + MaxChanges /\ cert_file.holds = v /\ key_file.holds = v)
            ~> (pairs[pair].cert = cert_file /\ pairs[pair].key = key_file)
=============================================================================
