-------------------------------- MODULE Certs --------------------------------
(***************************************************************************)
(* The local certificate authority: `certs ca init`, minting a leaf, and   *)
(* `certs ca upgrade`, which stages a candidate CA from one snapshot of    *)
(* the files while other commands may go on writing them. Every file is    *)
(* replaced by rename, one after the other; a command may be killed        *)
(* between any two of them.                                                *)
(***************************************************************************)
EXTENDS Naturals, Sequences

CONSTANTS MaxCaId,  \* bound: keys and certificates ever made
          NoCa      \* a file that does not exist

\* Keys are numbered; a certificate names its own number, its key and its issuer's.
CaKeys   == Nat \cup {NoCa}
CaRoots  == [id : Nat, key : CaKeys, strict : BOOLEAN]
CaLeaves == [id : Nat, key : CaKeys, root : CaKeys, strict : BOOLEAN]

ASSUME CertsAssumption == MaxCaId \in Nat /\ NoCa \notin Nat /\ NoCa \notin CaRoots /\ NoCa \notin CaLeaves

VARIABLE ca  \* [f, next, cli, st, seen, candidate]

RootFiles == <<"cert", "key", "fp", "trust">>
AllFiles  == RootFiles \o <<"leafCert", "leafKey", "meta">>
FileNames == {AllFiles[i] : i \in 1 .. 7}

\* Nothing yet, or a CA and a leaf of an older vzctl without key usages.
LegacyFiles == [cert |-> [id |-> 1, key |-> 1, strict |-> FALSE], key |-> 1, fp |-> 1,
                trust |-> [id |-> 1, key |-> 1, strict |-> FALSE],
                leafCert |-> [id |-> 2, key |-> 2, root |-> 1, strict |-> FALSE], leafKey |-> 2, meta |-> 2]
StagerIdle == [pc |-> "idle", i |-> 1, paths |-> <<>>, snap |-> [n \in FileNames |-> NoCa]]

CaInit ==
  \E f \in {[n \in FileNames |-> NoCa], LegacyFiles} :
    ca = [f |-> f, next |-> 3, cli |-> [op |-> "none", todo |-> <<>>, new |-> f],
          st |-> StagerIdle, seen |-> {}, candidate |-> NoCa]

\* Every state of the files since the candidate was derived from the snapshot.
Witness(s) == [s EXCEPT !.seen = IF s.st.pc \in {"inventory", "recheck", "publish"} THEN @ \cup {s.f} ELSE {}]

-----------------------------------------------------------------------------
(* Profiles.                                                               *)

read_pair(f, cert, key) ==
  CASE f[cert] = NoCa /\ f[key] = NoCa -> "none"
    [] f[cert] # NoCa /\ f[key] # NoCa -> "pair"
    [] OTHER -> "half"

ca_pair(f, strict) == f.cert.key = f.key /\ (strict => f.cert.strict)

leaf_pair(f, strict) ==
  /\ f.leafCert.key = f.leafKey /\ f.leafCert.root = f.cert.key
  /\ strict => f.leafCert.strict

-----------------------------------------------------------------------------
(* init and mint.                                                          *)

\* The files a command is about to write, in order.
Writing(op, todo, new) == [op |-> op, todo |-> todo, new |-> new]

\* An existing pair must be whole, matching, strict and consistent with its
\* fingerprint and trust copy; only then, or with --force, or where there is
\* none, does the command go on.
ensure_ca(op, force) ==
  LET f == ca.f
      n == ca.next
      root == [id |-> n, key |-> n, strict |-> TRUE]
  IN  /\ ca.cli.todo = <<>>
      /\ read_pair(f, "cert", "key") # "half"
      /\ IF read_pair(f, "cert", "key") = "pair" /\ ~force
         THEN /\ ca_pair(f, TRUE) /\ f.fp = f.cert.id /\ f.trust = f.cert
              /\ op = "mint"
              /\ ca' = [ca EXCEPT !.cli = Writing("mint", <<"leaf">>, f)]
         ELSE /\ n <= MaxCaId
              /\ ca' = [ca EXCEPT !.next = n + 1,
                   !.cli = Writing(op, <<"key", "cert", "fp", "trust">> \o (IF op = "mint" THEN <<"leaf">> ELSE <<>>),
                                   [f EXCEPT !.key = n, !.cert = root, !.fp = n, !.trust = root])]

\* Written under a temporary name, synced and renamed.
atomic_write ==
  /\ ca.cli.todo # <<>> /\ Head(ca.cli.todo) # "leaf"
  /\ LET n == Head(ca.cli.todo)
     IN  ca' = Witness([ca EXCEPT !.f[n] = ca.cli.new[n], !.cli.todo = Tail(@)])

\* An existing leaf keeps its key, and the certificate too while it is
\* strict, not expiring and its metadata agrees.
mint_leaf ==
  /\ ca.cli.todo = <<"leaf">>
  /\ LET f == ca.f
         n == ca.next
         pair == read_pair(f, "leafCert", "leafKey")
         key == IF pair = "pair" THEN f.leafKey ELSE n
         cert == [id |-> n, key |-> key, root |-> f.key, strict |-> TRUE]
     IN  \E expiring \in BOOLEAN :
           ca' = IF \/ pair = "half"
                    \/ pair = "pair" /\ ~leaf_pair(f, FALSE)
                    \/ pair = "pair" /\ leaf_pair(f, TRUE) /\ ~expiring /\ f.meta = f.leafCert.id
                    \/ n > MaxCaId
                 THEN [ca EXCEPT !.cli.todo = <<>>]
                 ELSE [ca EXCEPT !.next = n + 1,
                        !.cli = Writing("mint", (IF pair = "none" THEN <<"leafKey">> ELSE <<>>) \o <<"leafCert", "meta">>,
                                        [f EXCEPT !.leafKey = key, !.leafCert = cert, !.meta = n])]

certs_killed ==
  /\ ca.cli.todo # <<>>
  /\ ca' = [ca EXCEPT !.cli.todo = <<>>]

-----------------------------------------------------------------------------
(* upgrade.                                                                *)

Staging(pc)  == ca.st.pc = pc
LeafListed   == \E n \in {"leafCert", "leafKey", "meta"} : ca.f[n] # NoCa
StageFails   == ca' = [ca EXCEPT !.st = StagerIdle, !.seen = {}]
StageGoto(p) == ca' = Witness([ca EXCEPT !.st.pc = p, !.st.i = 1])

\* The inventory of issued certificates fixes the list of source files.
stage_inventory ==
  /\ Staging("idle") /\ ca.candidate = NoCa
  /\ ca' = Witness([ca EXCEPT !.st = [StagerIdle EXCEPT !.pc = "read",
                      !.paths = IF LeafListed THEN AllFiles ELSE RootFiles]])

stage_snapshot ==
  /\ Staging("read")
  /\ LET n == ca.st.paths[ca.st.i]
     IN  IF ca.f[n] = NoCa THEN StageFails
         ELSE IF ca.st.i = Len(ca.st.paths)
              THEN ca' = Witness([ca EXCEPT !.st.snap[n] = ca.f[n], !.st.pc = "derive", !.st.i = 1])
              ELSE ca' = Witness([ca EXCEPT !.st.snap[n] = ca.f[n], !.st.i = @ + 1])

\* The snapshot must be a CA whose leaf it signed; the candidate keeps the
\* keys, subjects and validity and is written to a new private directory.
stage_derive ==
  /\ Staging("derive")
  /\ LET s == ca.st.snap
         sound == /\ ca_pair(s, FALSE) /\ s.fp = s.cert.id /\ s.trust = s.cert
                  /\ Len(ca.st.paths) = 7 => leaf_pair(s, FALSE) /\ s.meta = s.leafCert.id
     IN  IF sound THEN StageGoto("inventory") ELSE StageFails

stage_recheck_inventory ==
  /\ Staging("inventory")
  /\ IF LeafListed = (Len(ca.st.paths) = 7) THEN StageGoto("recheck") ELSE StageFails

\* Mutant: the completion manifest is written without reading the sources again.
stage_recheckSkipped ==
  /\ Staging("recheck")
  /\ ca' = Witness([ca EXCEPT !.st.pc = "publish"])

\* Every source is read a second time before the manifest is written.
stage_recheck ==
  /\ Staging("recheck")
  /\ LET n == ca.st.paths[ca.st.i]
     IN  IF ca.f[n] # ca.st.snap[n] THEN StageFails
         ELSE IF ca.st.i = Len(ca.st.paths) THEN StageGoto("publish")
         ELSE ca' = Witness([ca EXCEPT !.st.i = @ + 1])

\* manifest.json completes the candidate; without it nobody may promote it.
stage_publish ==
  /\ Staging("publish")
  /\ ca' = [ca EXCEPT !.candidate = [paths |-> ca.st.paths, snap |-> ca.st.snap], !.st.pc = "done"]

stage_interrupted == ~Staging("idle") /\ ~Staging("done") /\ StageFails

CaNext ==
  \/ \E force \in BOOLEAN : ensure_ca("init", force)
  \/ ensure_ca("mint", FALSE) \/ atomic_write \/ mint_leaf \/ certs_killed
  \/ stage_inventory \/ stage_snapshot \/ stage_derive \/ stage_recheck_inventory
  \/ stage_recheck \/ stage_publish \/ stage_interrupted

CaSpec == CaInit /\ [][CaNext]_ca

-----------------------------------------------------------------------------
(* Correctness.                                                            *)

\* When the completion manifest is about to be written, the candidate is what
\* all of the CA's files were at one instant after it was derived, although
\* they were read one by one while init and mint went on replacing them: no
\* renewal made while the candidate was being signed is lost in it.
CandidateIsCurrent ==
  ca.st.pc = "publish" =>
    \E f \in ca.seen : \A i \in 1 .. Len(ca.st.paths) : f[ca.st.paths[i]] = ca.st.snap[ca.st.paths[i]]
=============================================================================
