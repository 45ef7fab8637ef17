--------------------------- MODULE CertReloadProofs ---------------------------
(***************************************************************************)
(* The certificate's reload, for any number of connections, changes of the *)
(* files and handshakes: no change is missed, no pair in use is freed.     *)
(***************************************************************************)
EXTENDS CertReload, FiniteSetTheorems, SequenceTheorems, TLAPS

FileRec == [id : Nat, holds : Int]
PairRec == [cert : FileRec, key : FileRec, refs : Int, freed : BOOLEAN]

CertTypeOK ==
    /\ {cert_file, key_file, read_cert} \subseteq FileRec /\ clock \in Nat
    /\ pairs \in Seq(PairRec) /\ pair \in 1..Len(pairs)
    /\ {cert_id, key_id, cid, kid} \subseteq Nat

\* A file f was read no earlier than id was taken of it and no later than now;
\* as long as its id is the same, so is its content.
Between(id, f, now) == id <= f.id /\ f.id <= now.id /\ (f.id = now.id => f = now)

\* An id is always older than what is read under it.
IdInv ==
    /\ CertTypeOK
    /\ cert_file.id <= clock /\ key_file.id <= clock
    /\ Between(cert_id, pairs[pair].cert, cert_file)
    /\ Between(key_id, pairs[pair].key, key_file)
    /\ rpc # "idle" => cid <= cert_file.id
    /\ rpc \in {"load_cert", "load_key"} => kid <= key_file.id
    /\ rpc = "load_key" => Between(cid, read_cert, cert_file)

\* The start has read both files after their ids.
LEMMA IdInvInit == CertInit => IdInv
<1> SUFFICES ASSUME CertInit PROVE IdInv
    OBVIOUS
<1>1. cert_file \in FileRec /\ key_file \in FileRec /\ read_cert \in FileRec
    BY DEF CertInit, FileRec, NoFile, NoId, Missing
<1>2. pairs = <<NewPair(cert_file, key_file)>> /\ pair = 1
    BY DEF CertInit
<1>3. NewPair(cert_file, key_file) \in PairRec
    BY <1>1 DEF NewPair, PairRec
<1>4. pairs \in Seq(PairRec) /\ Len(pairs) = 1
    BY <1>2, <1>3
<1>5. pairs[pair].cert = cert_file /\ pairs[pair].key = key_file
    BY <1>2 DEF NewPair
<1> QED BY <1>1, <1>2, <1>4, <1>5 DEF CertInit, IdInv, CertTypeOK, Between, NoId

\* A change gives the file an id above every one there was.
LEMMA BetweenAfterChange ==
    ASSUME NEW id \in Nat, NEW f \in FileRec, NEW now \in FileRec, NEW h,
           clock \in Nat, now.id <= clock, Between(id, f, now)
    PROVE  Between(id, f, Change(h))
BY DEF Between, FileRec, Change

\* Pairs keep what they were read from when a reference is counted or one is freed.
LEMMA IdsUntouched ==
    ASSUME IdInv, UNCHANGED <<diskVars, pair, cert_id, key_id, rpc, reloadVars>>,
           pairs' \in Seq(PairRec), Len(pairs') = Len(pairs),
           pairs'[pair].cert = pairs[pair].cert, pairs'[pair].key = pairs[pair].key
    PROVE  IdInv'
BY DEF IdInv, CertTypeOK, diskVars, reloadVars, Between

\* The invariant is inductive: one step per action.
LEMMA IdInvStep == IdInv /\ [CertNext]_certVars => IdInv'
<1> SUFFICES ASSUME IdInv, [CertNext]_certVars PROVE IdInv'
    OBVIOUS
<1>a. Versions \subseteq Nat
    BY CertAssumption DEF CertAssumption
<1>b. CertTypeOK /\ pairs[pair] \in PairRec /\ pairs[pair].cert \in FileRec /\ pairs[pair].key \in FileRec
    <2>1. CertTypeOK
        BY DEF IdInv
    <2>2. pairs[pair] \in PairRec
        BY <2>1, ElementOfSeq DEF CertTypeOK
    <2> QED BY <2>1, <2>2 DEF PairRec
<1>c. \A h \in Contents : Change(h) \in FileRec /\ Change(h).id = clock + 1
    <2>1. Contents \subseteq Int
        BY <1>a DEF Contents, Missing, Torn
    <2> QED BY <1>b, <2>1 DEF Change, FileRec, CertTypeOK
<1>e. {cert_id, key_id, cid, kid, clock, cert_file.id, key_file.id} \subseteq Nat
      /\ cert_file.id <= clock /\ key_file.id <= clock
    BY DEF IdInv, CertTypeOK, FileRec
<1>f. (rpc # "idle" => cid <= cert_file.id) /\ (rpc \in {"load_cert", "load_key"} => kid <= key_file.id)
    BY DEF IdInv
<1>1. CASE ChangeCert
    <2>1. PICK h \in Contents : cert_file' = Change(h)
        BY <1>1 DEF ChangeCert
    <2>2. cert_file' \in FileRec /\ cert_file'.id = clock + 1
        BY <1>c, <2>1
    <2>3. Between(cert_id, pairs[pair].cert, cert_file')
        BY <1>b, <2>1, BetweenAfterChange DEF IdInv, CertTypeOK
    <2>4. rpc = "load_key" => Between(cid, read_cert, cert_file')
        BY <1>b, <2>1, BetweenAfterChange DEF IdInv, CertTypeOK
    <2>5. clock' = clock + 1 /\ UNCHANGED <<key_file, pairs, pair, cert_id, key_id, rpc, cid, kid, read_cert>>
        BY <1>1 DEF ChangeCert, idVars, reloadVars
    <2>6. rpc # "idle" => cid <= cert_file'.id
        BY ONLY <1>e, <1>f, <2>2
    <2>7. CertTypeOK' /\ key_file.id <= clock'
        <3>1. clock' \in Nat /\ key_file.id <= clock'
            BY ONLY <1>e, <2>5
        <3> QED BY ONLY <1>b, <2>2, <2>5, <3>1 DEF CertTypeOK
    <2> QED BY <2>2, <2>3, <2>4, <2>5, <2>6, <2>7 DEF IdInv, Between, CertTypeOK
<1>2. CASE ChangeKey
    <2>1. PICK h \in Contents : key_file' = Change(h)
        BY <1>2 DEF ChangeKey
    <2>2. key_file' \in FileRec /\ key_file'.id = clock + 1
        BY <1>c, <2>1
    <2>3. Between(key_id, pairs[pair].key, key_file')
        BY <1>b, <2>1, BetweenAfterChange DEF IdInv, CertTypeOK
    <2>4. clock' = clock + 1 /\ UNCHANGED <<cert_file, pairs, pair, cert_id, key_id, rpc, cid, kid, read_cert>>
        BY <1>2 DEF ChangeKey, idVars, reloadVars
    <2>5. rpc \in {"load_cert", "load_key"} => kid <= key_file'.id
        BY ONLY <1>e, <1>f, <2>2
    <2>6. CertTypeOK' /\ cert_file.id <= clock'
        <3>1. clock' \in Nat /\ cert_file.id <= clock'
            BY ONLY <1>e, <2>4
        <3> QED BY ONLY <1>b, <2>2, <2>4, <3>1 DEF CertTypeOK
    <2> QED BY <2>2, <2>3, <2>4, <2>5, <2>6 DEF IdInv, Between, CertTypeOK
<1>d. NoFile \in FileRec /\ NoId \in Nat
    BY DEF NoFile, FileRec, NoId, Missing
<1>3. CASE ReloadStart
    <2>1. UNCHANGED <<cert_file, key_file, clock, pair, cert_id, key_id>>
        BY <1>3 DEF ReloadStart, diskVars, idVars
    <2>2. pairs' \in Seq(PairRec) /\ Len(pairs') = Len(pairs)
          /\ pairs'[pair].cert = pairs[pair].cert /\ pairs'[pair].key = pairs[pair].key
        <3>1. pairs' = [p \in DOMAIN pairs |-> IF p \in Unused THEN [pairs[p] EXCEPT !.freed = TRUE] ELSE pairs[p]]
            BY <1>3 DEF ReloadStart
        <3>2. \A r \in PairRec : [r EXCEPT !.freed = TRUE] \in PairRec /\ [r EXCEPT !.freed = TRUE].cert = r.cert
                  /\ [r EXCEPT !.freed = TRUE].key = r.key
            BY ZenonT(60) DEF PairRec
        <3>3. DOMAIN pairs = 1..Len(pairs) /\ Len(pairs) \in Nat /\ \A p \in 1..Len(pairs) : pairs[p] \in PairRec
            BY <1>b, ElementOfSeq DEF CertTypeOK
        <3>4. pairs' \in [1..Len(pairs) -> PairRec]
            BY <3>1, <3>2, <3>3
        <3>5. pairs' \in Seq(PairRec) /\ Len(pairs') = Len(pairs)
            BY <3>3, <3>4, SeqDef, LenProperties
        <3> QED BY <1>b, <3>1, <3>2, <3>3, <3>5 DEF CertTypeOK
    <2>3. \/ rpc' = "idle" /\ cid' = NoId /\ kid' = NoId /\ read_cert' = NoFile
          \/ rpc' = "stat_key" /\ cid' = cert_file.id /\ UNCHANGED <<kid, read_cert>>
        BY <1>3 DEF ReloadStart, Returns
    <2>4. CertTypeOK'
        <3>1. cid' \in Nat /\ kid' \in Nat /\ read_cert' \in FileRec
            BY ONLY <1>b, <1>d, <1>e, <2>3, ZenonT(60) DEF CertTypeOK
        <3> QED BY ONLY <1>b, <2>1, <2>2, <3>1 DEF CertTypeOK
    <2>5. Between(cert_id', pairs'[pair'].cert, cert_file') /\ Between(key_id', pairs'[pair'].key, key_file')
        BY <2>1, <2>2 DEF IdInv
    <2>6. rpc' # "idle" => cid' <= cert_file'.id
        BY <1>b, <2>1, <2>3 DEF CertTypeOK, FileRec
    <2> QED BY <2>1, <2>3, <2>4, <2>5, <2>6 DEF IdInv
<1>4. CASE ReloadStatKey
    <2>1. UNCHANGED <<cert_file, key_file, clock, pairs, pair, cert_id, key_id>>
        BY <1>4 DEF ReloadStatKey, diskVars, idVars
    <2>2. \/ rpc' = "idle" /\ cid' = NoId /\ kid' = NoId /\ read_cert' = NoFile
          \/ rpc = "stat_key" /\ rpc' = "load_cert" /\ kid' = key_file.id /\ UNCHANGED <<cid, read_cert>>
        BY <1>4 DEF ReloadStatKey, Returns
    <2>3. CertTypeOK'
        BY <1>b, <1>d, <2>1, <2>2, ZenonT(60) DEF CertTypeOK, FileRec
    <2>4. rpc' # "idle" => cid' <= cert_file'.id /\ kid' <= key_file'.id
        BY ONLY <1>e, <1>f, <2>1, <2>2
    <2> QED BY <2>1, <2>2, <2>3, <2>4 DEF IdInv
<1>5. CASE ReloadCert
    <2>1. UNCHANGED <<cert_file, key_file, clock, pairs, pair, cert_id, key_id>>
        BY <1>5 DEF ReloadCert, Fails, diskVars, idVars
    <2>2. \/ rpc' = "idle" /\ cid' = NoId /\ kid' = NoId /\ read_cert' = NoFile
          \/ rpc = "load_cert" /\ rpc' = "load_key" /\ read_cert' = cert_file /\ UNCHANGED <<cid, kid>>
        BY <1>5 DEF ReloadCert, Fails, Returns
    <2>3. CertTypeOK'
        BY <1>b, <1>d, <2>1, <2>2 DEF CertTypeOK
    <2>4. rpc' # "idle" => cid' <= cert_file'.id /\ kid' <= key_file'.id
        BY <2>1, <2>2 DEF IdInv
    <2>5. rpc' = "load_key" => Between(cid', read_cert', cert_file')
        BY <1>b, <2>1, <2>2, <2>4 DEF Between, CertTypeOK, FileRec
    <2> QED BY <2>1, <2>2, <2>3, <2>4, <2>5 DEF IdInv
<1>6. CASE ReloadKey
    <2>1. UNCHANGED <<cert_file, key_file, clock>> /\ rpc = "load_key"
          /\ rpc' = "idle" /\ cid' = NoId /\ kid' = NoId /\ read_cert' = NoFile
        BY <1>6 DEF ReloadKey, Fails, Returns, diskVars
    <2>2. CASE UNCHANGED <<pairs, pair, cert_id, key_id>>
        BY <1>b, <1>d, <2>1, <2>2 DEF IdInv, CertTypeOK, Between
    <2>3. CASE pairs' = Append(pairs, NewPair(read_cert, key_file)) /\ pair' = Len(pairs) + 1
               /\ cert_id' = cid /\ key_id' = kid
        <3>1. NewPair(read_cert, key_file) \in PairRec
            BY <1>b DEF CertTypeOK, NewPair, PairRec
        <3>2. pairs' \in Seq(PairRec) /\ Len(pairs') = Len(pairs) + 1
              /\ pairs'[pair'] = NewPair(read_cert, key_file) /\ Len(pairs) \in Nat
            BY <1>b, <2>3, <3>1, AppendProperties, LenProperties DEF CertTypeOK
        <3>3. pairs'[pair'].cert = read_cert /\ pairs'[pair'].key = key_file
            BY <3>2 DEF NewPair
        <3>4. CertTypeOK'
            BY <1>b, <1>d, <2>1, <2>3, <3>2 DEF CertTypeOK
        <3>5. Between(cert_id', read_cert, cert_file) /\ Between(key_id', key_file, key_file)
            BY <1>b, <2>1, <2>3 DEF IdInv, Between, CertTypeOK, FileRec
        <3> QED BY <2>1, <3>3, <3>4, <3>5 DEF IdInv, Between
    <2> QED BY <1>6, <2>2, <2>3 DEF ReloadKey, Fails, LoadedIds
<1>7. ASSUME NEW t \in TlsConns, PickCert(t) \/ Release(t) PROVE IdInv'
    <2>1. UNCHANGED <<diskVars, pair, cert_id, key_id, rpc, reloadVars>>
        BY <1>7 DEF PickCert, Release, idVars
    <2>2. \A r \in PairRec, n \in Int : [r EXCEPT !.refs = n] \in PairRec /\ [r EXCEPT !.refs = n].cert = r.cert
              /\ [r EXCEPT !.refs = n].key = r.key
        BY DEF PairRec
    <2>3. DOMAIN pairs = 1..Len(pairs) /\ Len(pairs) \in Nat
          /\ \A p \in 1..Len(pairs) : pairs[p] \in PairRec /\ pairs[p].refs \in Int
        <3>1. DOMAIN pairs = 1..Len(pairs) /\ Len(pairs) \in Nat /\ \A p \in 1..Len(pairs) : pairs[p] \in PairRec
            BY <1>b, ElementOfSeq DEF CertTypeOK
        <3> QED BY <3>1 DEF PairRec
    <2>4. PICK n \in [1..Len(pairs) -> Int] : pairs' = [p \in 1..Len(pairs) |-> [pairs[p] EXCEPT !.refs = n[p]]]
        <3>1. CASE PickCert(t)
            <4> DEFINE n == [p \in 1..Len(pairs) |-> pairs[p].refs + (IF p = pair THEN 1 ELSE 0)
                                                            - (IF p = picked[t] THEN 1 ELSE 0)]
            <4>1. n \in [1..Len(pairs) -> Int]
                BY <2>3
            <4>2. pairs' = [p \in 1..Len(pairs) |-> [pairs[p] EXCEPT !.refs = n[p]]]
                BY <2>3, <3>1 DEF PickCert, Taken
            <4> QED BY <4>1, <4>2, ZenonT(60)
        <3>2. CASE Release(t)
            <4> DEFINE n == [p \in 1..Len(pairs) |-> IF p = picked[t] THEN pairs[p].refs + -1 ELSE pairs[p].refs]
            <4>1. n \in [1..Len(pairs) -> Int]
                BY <2>3
            <4>2. \A r \in PairRec : [r EXCEPT !.refs = r.refs] = r
                BY DEF PairRec
            <4>3. pairs' = [pairs EXCEPT ![picked[t]].refs = @ + -1]
                BY <3>2 DEF Release, Adjust
            <4>4. pairs' = [p \in 1..Len(pairs) |-> [pairs[p] EXCEPT !.refs = n[p]]]
                BY <2>3, <4>2, <4>3, ZenonT(60)
            <4> QED BY <4>1, <4>4, ZenonT(60)
        <3> QED BY <1>7, <3>1, <3>2
    <2>5. pairs' \in [1..Len(pairs) -> PairRec]
        BY <2>2, <2>3, <2>4
    <2>6. pairs' \in Seq(PairRec) /\ Len(pairs') = Len(pairs)
        BY <2>3, <2>5, SeqDef, LenProperties
    <2>7. pairs'[pair].cert = pairs[pair].cert /\ pairs'[pair].key = pairs[pair].key
        BY <1>b, <2>2, <2>3, <2>4, ZenonT(60) DEF CertTypeOK
    <2> QED BY <2>1, <2>6, <2>7, IdsUntouched
<1>8. CASE UNCHANGED certVars
    BY <1>8, IdsUntouched DEF certVars, idVars, IdInv, CertTypeOK
<1> QED
    BY <1>1, <1>2, <1>3, <1>4, <1>5, <1>6, <1>7, <1>8 DEF CertNext, Reload

\* A change of the files is never taken for what is loaded, whenever it comes
\* between the stats and the reads of reload.
THEOREM NoMissedChangeAlways == CertSpec => []NoMissedChange
<1>1. IdInv => NoMissedChange
    <2> SUFFICES ASSUME IdInv, cert_file.id = cert_id, key_file.id = key_id
                 PROVE  pairs[pair].cert = cert_file /\ pairs[pair].key = key_file
        BY DEF NoMissedChange
    <2>1. pairs[pair] \in PairRec /\ cert_file \in FileRec /\ key_file \in FileRec
        BY ElementOfSeq DEF IdInv, CertTypeOK
    <2>2. pairs[pair].cert.id \in Nat /\ pairs[pair].key.id \in Nat /\ cert_file.id \in Nat /\ key_file.id \in Nat
        BY <2>1 DEF PairRec, FileRec
    <2>3. Between(cert_id, pairs[pair].cert, cert_file) /\ Between(key_id, pairs[pair].key, key_file)
        BY DEF IdInv
    <2> QED BY <2>2, <2>3 DEF Between
<1> QED BY <1>1, IdInvInit, IdInvStep, PTL DEF CertSpec

-----------------------------------------------------------------------------
(* References.                                                             *)

\* The connections whose pair is p, when f gives the pair of each.
Holders(f, p) == {t \in TlsConns : f[t] = p}
InUse == {pair} \cup old

\* A pair is freed only after nothing can come back to it, and refs counts its
\* holders.
RefInv ==
    /\ picked \in [TlsConns -> Nat]
    /\ old \subseteq 1..Len(pairs) /\ pair \notin old
    /\ \A t \in TlsConns : picked[t] # Nil => picked[t] \in InUse
    /\ \A p \in 1..Len(pairs) : pairs[p].refs = Cardinality(Holders(picked, p))
    /\ \A p \in InUse : pairs[p].freed = FALSE

\* Nobody holds the pair loaded at the start.
LEMMA RefInvInit == CertInit => RefInv
<1> SUFFICES ASSUME CertInit PROVE RefInv
    OBVIOUS
<1>1. pairs = <<NewPair(cert_file, key_file)>> /\ pair = 1 /\ old = {} /\ picked = [t \in TlsConns |-> Nil]
    BY DEF CertInit
<1>2. Len(pairs) = 1 /\ pairs[1] = NewPair(cert_file, key_file)
    BY <1>1
<1>3. Holders(picked, 1) = {}
    BY <1>1 DEF Holders, Nil
<1>4. pairs[1].refs = 0 /\ pairs[1].freed = FALSE
    BY <1>2 DEF NewPair
<1> QED BY <1>1, <1>2, <1>3, <1>4, FS_EmptySet DEF RefInv, InUse, Nil

\* A handshake that goes from one pair to another changes the number of their
\* holders by one.
LEMMA Recount ==
    ASSUME NEW t \in TlsConns, NEW q \in Nat, NEW p \in Nat, NEW f \in [TlsConns -> Nat]
    PROVE  LET now == Cardinality(Holders([f EXCEPT ![t] = q], p))
               was == Cardinality(Holders(f, p))
           IN  /\ was \in Nat
               /\ (p = q /\ p = f[t]) \/ (p # q /\ p # f[t]) => now = was
               /\ p = q /\ p # f[t] => now = was + 1
               /\ p # q /\ p = f[t] => now = was - 1
<1> DEFINE before == Holders(f, p)
           after  == Holders([f EXCEPT ![t] = q], p)
<1>1. IsFiniteSet(before) /\ Cardinality(before) \in Nat
    BY CertAssumption, FS_Subset, FS_CardinalityType DEF CertAssumption, Holders
<1>2. (p = f[t] => t \in before) /\ (p # f[t] => t \notin before)
    BY DEF Holders
<1>3. (p = q => after = before \cup {t}) /\ (p # q => after = before \ {t})
    BY DEF Holders
<1>4. /\ t \in before => Cardinality(before \cup {t}) = Cardinality(before)
      /\ t \notin before => Cardinality(before \cup {t}) = Cardinality(before) + 1
    BY <1>1, FS_AddElement, ZenonT(60)
<1>5. /\ t \in before => Cardinality(before \ {t}) = Cardinality(before) - 1
      /\ t \notin before => Cardinality(before \ {t}) = Cardinality(before)
    BY <1>1, FS_RemoveElement, ZenonT(60)
<1> HIDE DEF before, after
<1>6. /\ (p = q /\ p = f[t]) \/ (p # q /\ p # f[t]) => Cardinality(after) = Cardinality(before)
      /\ p = q /\ p # f[t] => Cardinality(after) = Cardinality(before) + 1
      /\ p # q /\ p = f[t] => Cardinality(after) = Cardinality(before) - 1
    BY <1>2, <1>3, <1>4, <1>5, Zenon
<1> QED BY <1>1, <1>6 DEF before, after

\* The invariant is inductive next to IdInv.
LEMMA RefInvStep == IdInv /\ RefInv /\ [CertNext]_certVars => RefInv'
<1> SUFFICES ASSUME IdInv, RefInv, [CertNext]_certVars PROVE RefInv'
    OBVIOUS
<1>a. DOMAIN pairs = 1..Len(pairs) /\ Len(pairs) \in Nat /\ \A p \in 1..Len(pairs) : pairs[p] \in PairRec
    BY ElementOfSeq DEF IdInv, CertTypeOK
<1>b. pairs \in Seq(PairRec) /\ pair \in 1..Len(pairs)
    BY DEF IdInv, CertTypeOK
<1>1. CASE UNCHANGED <<pairs, pair, old, picked>>
    BY <1>1 DEF RefInv, InUse, Holders
<1>2. CASE ReloadStart
    <2>1. UNCHANGED <<pair, picked>> /\ old' = old \ Unused
          /\ pairs' = [p \in DOMAIN pairs |-> IF p \in Unused THEN [pairs[p] EXCEPT !.freed = TRUE] ELSE pairs[p]]
        BY <1>2 DEF ReloadStart
    <2>2. \A r \in PairRec : [r EXCEPT !.freed = TRUE].refs = r.refs
        BY DEF PairRec
    <2>3. Len(pairs') = Len(pairs) /\ \A p \in 1..Len(pairs) : pairs'[p].refs = pairs[p].refs
        BY <1>a, <2>1, <2>2
    <2>4. \A p \in Unused : p \in old /\ Holders(picked, p) = {}
        <3> SUFFICES ASSUME NEW p \in Unused PROVE p \in old /\ Holders(picked, p) = {}
            OBVIOUS
        <3>1. p \in old /\ pairs[p].refs = 0 /\ p \in 1..Len(pairs)
            BY DEF Unused, RefInv
        <3>2. IsFiniteSet(Holders(picked, p)) /\ Cardinality(Holders(picked, p)) = 0
            BY <3>1, CertAssumption, FS_Subset DEF CertAssumption, Holders, RefInv
        <3> QED BY <3>1, <3>2, FS_EmptySet
    <2>5. \A t \in TlsConns : picked[t] \notin Unused
        BY <2>4 DEF Holders
    <2>6. InUse' = InUse \ Unused
        BY <2>1, <2>4 DEF InUse, RefInv
    <2>7. \A p \in InUse' : pairs'[p] = pairs[p]
        BY <1>a, <1>b, <2>1, <2>6 DEF InUse, RefInv
    <2>8. \A p \in 1..Len(pairs) : Holders(picked', p) = Holders(picked, p)
        BY <2>1 DEF Holders
    <2> QED BY <2>1, <2>3, <2>5, <2>6, <2>7, <2>8 DEF RefInv
<1>3. CASE ReloadKey /\ ~UNCHANGED <<pairs, pair, old>>
    <2>0. PICK n \in Nat : n = Len(pairs) + 1
        BY <1>a
    <2>1. pairs' = Append(pairs, NewPair(read_cert, key_file)) /\ pair' = Len(pairs) + 1
          /\ old' = old \cup {pair} /\ UNCHANGED picked
        BY <1>3 DEF ReloadKey, Fails
    <2>2. NewPair(read_cert, key_file) \in PairRec
        BY DEF IdInv, CertTypeOK, NewPair, PairRec
    <2>3. Len(pairs') = Len(pairs) + 1 /\ pairs'[pair'] = NewPair(read_cert, key_file)
          /\ \A p \in 1..Len(pairs) : pairs'[p] = pairs[p]
        BY <1>b, <2>1, <2>2, AppendProperties
    <2>4. Holders(picked', n) = {}
        <3>1. \A t \in TlsConns : picked[t] # n
            BY <1>a, <1>b, <2>0 DEF RefInv, InUse, Nil
        <3> QED BY <2>1, <3>1 DEF Holders
    <2>5. pairs'[pair'].refs = 0 /\ pairs'[pair'].freed = FALSE
        BY <2>3 DEF NewPair
    <2>6. InUse' = InUse \cup {pair'} /\ InUse \subseteq 1..Len(pairs) /\ pair' \notin old'
        BY <1>a, <1>b, <2>1 DEF InUse, RefInv
    <2>7. \A p \in 1..Len(pairs) : Holders(picked', p) = Holders(picked, p)
        BY <2>1 DEF Holders
    <2>8. \A p \in 1..Len(pairs') : pairs'[p].refs = Cardinality(Holders(picked', p))
        <3>1. Cardinality(Holders(picked', n)) = 0 /\ pair' = n
            BY <2>0, <2>1, <2>4, FS_EmptySet
        <3>2. \A p \in 1..Len(pairs') : p = n \/ p \in 1..Len(pairs)
            BY <1>a, <2>0, <2>3
        <3>3. \A p \in 1..Len(pairs) : pairs'[p].refs = Cardinality(Holders(picked', p))
            BY <2>3, <2>7 DEF RefInv
        <3> QED BY <2>5, <3>1, <3>2, <3>3
    <2>9. \A p \in InUse' : pairs'[p].freed = FALSE
        BY <2>3, <2>5, <2>6 DEF RefInv
    <2>10. old' \subseteq 1..Len(pairs')
        BY <1>a, <1>b, <2>1, <2>3 DEF RefInv
    <2> QED BY <2>1, <2>6, <2>8, <2>9, <2>10, ZenonT(60) DEF RefInv
<1>4. ASSUME NEW t \in TlsConns, PickCert(t) \/ Release(t) PROVE RefInv'
    <2>1. PICK q \in {pair, Nil} : picked' = [picked EXCEPT ![t] = q]
        BY <1>4 DEF PickCert, Release
    <2>2. q \in Nat /\ UNCHANGED <<pair, old>>
        BY <1>4, <1>b DEF PickCert, Release, Nil
    <2>3. \A p \in 1..Len(pairs) : pairs[p].refs \in Int /\ pairs[p] = [cert |-> pairs[p].cert,
              key |-> pairs[p].key, refs |-> pairs[p].refs, freed |-> pairs[p].freed]
        BY <1>a DEF PairRec
    <2>4. Len(pairs') = Len(pairs) /\ \A p \in 1..Len(pairs) :
              /\ pairs'[p].refs = pairs[p].refs + (IF p = q THEN 1 ELSE 0) - (IF p = picked[t] THEN 1 ELSE 0)
              /\ pairs'[p].freed = pairs[p].freed
        <3>1. CASE PickCert(t)
            BY <1>a, <1>b, <2>1, <2>3, <3>1 DEF PickCert, Taken, RefInv, Nil
        <3>2. CASE Release(t)
            BY <1>a, <1>b, <2>1, <2>3, <3>2 DEF Release, Adjust, RefInv, InUse, Nil
        <3> QED BY <1>4, <3>1, <3>2
    <2>5. \A p \in 1..Len(pairs) : pairs'[p].refs = Cardinality(Holders(picked', p))
        <3> SUFFICES ASSUME NEW p \in 1..Len(pairs) PROVE pairs'[p].refs = Cardinality(Holders(picked', p))
            OBVIOUS
        <3>0. p \in Nat
            BY <1>a
        <3>1. picked \in [TlsConns -> Nat] /\ pairs[p].refs = Cardinality(Holders(picked, p))
            BY DEF RefInv
        <3>2. LET now == Cardinality(Holders([picked EXCEPT ![t] = q], p))
                  was == Cardinality(Holders(picked, p))
              IN  /\ was \in Nat
                  /\ (p = q /\ p = picked[t]) \/ (p # q /\ p # picked[t]) => now = was
                  /\ p = q /\ p # picked[t] => now = was + 1
                  /\ p # q /\ p = picked[t] => now = was - 1
            BY <2>2, <3>0, <3>1, Recount, ZenonT(60)
        <3> QED BY <2>1, <2>4, <3>1, <3>2
    <2>6. picked' \in [TlsConns -> Nat] /\ \A s \in TlsConns : picked'[s] # Nil => picked'[s] \in InUse
        BY <2>1, <2>2 DEF RefInv, InUse
    <2> QED BY <1>b, <2>2, <2>4, <2>5, <2>6, ZenonT(60) DEF RefInv, InUse
<1> QED
    BY <1>1, <1>2, <1>3, <1>4
    DEF CertNext, Reload, ChangeCert, ChangeKey, ReloadStatKey, ReloadCert, ReloadKey, Fails, certVars

\* The pair that is served and the pairs of running handshakes are never freed,
\* whatever reloads, handshakes and closed connections come in between.
THEOREM PairsAliveAlways == CertSpec => []PairsAlive
<1>1. IdInv /\ RefInv => PairsAlive
    <2> SUFFICES ASSUME IdInv, RefInv PROVE PairsAlive
        OBVIOUS
    <2>1. DOMAIN pairs = 1..Len(pairs)
        BY LenProperties DEF IdInv, CertTypeOK
    <2> QED BY <2>1 DEF RefInv, InUse, Holders, PairsAlive
<1> QED BY <1>1, IdInvInit, IdInvStep, RefInvInit, RefInvStep, PTL DEF CertSpec
=============================================================================
