--------------------------- MODULE ServiceProofs ---------------------------
(***************************************************************************)
(* Proofs about what the stack hands out to others: authorization codes     *)
(* that are spent once, client secrets that never change, certificates that *)
(* stand for one instant, the service claims of a cluster, whose order in a *)
(* list selects no owner, the base images that VMs are created from,        *)
(* service claims that are reconciled by apply and by the control plane,    *)
(* and the K3s cluster on a stack's VMs.                                    *)
(***************************************************************************)
EXTENDS OidcProvider, OidcClients, Certs, KubernetesClaims, Images, Controllers, Kubernetes, FiniteSetTheorems, TLAPS

-----------------------------------------------------------------------------
(* The identity provider.                                                  *)

OpKeys     == Nat \cup {NoOp}
OpSessions == [id : Nat, user : OpUsers, expires_at : Nat]
OpCodes    == [id : Nat, user : OpUsers, client : OpClients, challenge : {NoOp, "c"}, expires_at : Nat]
OpStores   == [sessions : SUBSET OpSessions, codes : SUBSET OpCodes]
OpGrants   == [token : Nat, code : OpCodes, client : OpClients, at : Nat, kid : Nat]
OpStates   == [up : BOOLEAN, pem : OpKeys, kid : OpKeys, users : SUBSET OpUsers, store : OpStores, next : Nat, now : Nat,
               grants : SUBSET OpGrants]

\* While the provider answers it signs with the key on disk.
OpKeyed == idp.up => idp.kid = idp.pem /\ idp.pem # NoOp

\* Identifiers are drawn once, and an exchanged code is not in the store.
OpFresh ==
  /\ \A k \in idp.store.codes : k.id < idp.next
  /\ \A g \in idp.grants : g.code.id < idp.next
  /\ \A k, l \in idp.store.codes : k.id = l.id => k = l
  /\ \A k \in idp.store.codes, g \in idp.grants : g.code.id # k.id

OpInv == idp \in OpStates /\ OpKeyed /\ OpFresh /\ GrantsAreSound

\* A step that adds no code and no grant and keeps the key.
LEMMA OpQuiet ==
  ASSUME OpInv, idp' \in OpStates, idp'.pem = idp.pem \/ idp.pem = NoOp, idp'.grants = idp.grants,
         idp'.store.codes \subseteq idp.store.codes, idp.next <= idp'.next, OpKeyed'
  PROVE  OpInv'
<1>1. idp.next \in Nat /\ idp'.next \in Nat /\ idp.grants \in SUBSET OpGrants /\ idp.store \in OpStores
  BY DEF OpInv, OpStates
<1>2. idp.store.codes \in SUBSET OpCodes
  BY <1>1 DEF OpStores
<1>3. \A k \in idp.store.codes : k.id \in Nat
  BY <1>2 DEF OpCodes
<1>4. \A g \in idp.grants : g.code.id \in Nat /\ g.kid \in Nat
  BY <1>1 DEF OpGrants, OpCodes
<1>5. OpFresh'
  <2>1. OpFresh
    BY DEF OpInv
  <2>2. \A k \in idp'.store.codes : k.id < idp'.next
    BY <1>1, <1>3, <2>1 DEF OpFresh
  <2>3. \A g \in idp'.grants : g.code.id < idp'.next
    BY <1>1, <1>4, <2>1 DEF OpFresh
  <2> QED BY <2>1, <2>2, <2>3 DEF OpFresh
<1>6. GrantsAreSound'
  <2>1. GrantsAreSound
    BY DEF OpInv
  <2>2. \A g \in idp.grants : idp'.pem = idp.pem
    BY <1>4, <2>1, OidcProviderAssumption DEF GrantsAreSound
  <2> QED BY <2>1, <2>2 DEF GrantsAreSound
<1> QED BY <1>5, <1>6 DEF OpInv

LEMMA OpRunStep == ASSUME OpInv, run PROVE OpInv'
<1>1. PICK key \in load_or_create_keys, users \in {OpUsers} \cup {OpUsers \ {u} : u \in OpUsers} :
        idp' = [idp EXCEPT !.up = TRUE, !.kid = key, !.pem = key, !.store = Nobody, !.users = users, !.next = @ + 1]
  BY DEF run
<1>2. idp \in OpStates
  BY DEF OpInv
<1>3. idp.next \in Nat /\ idp.pem \in OpKeys
  BY <1>2 DEF OpStates
<1>4. key \in Nat /\ (idp.pem = NoOp \/ idp.pem = key)
  BY <1>3 DEF load_or_create_keys, OpKeys
<1>5. key \in OpKeys /\ key # NoOp /\ users \in SUBSET OpUsers /\ Nobody \in OpStores
  BY <1>4, OidcProviderAssumption DEF OpKeys, Nobody, OpStores
<1> DEFINE n == idp.next + 1
<1>6. n \in Nat /\ idp.next <= n
  BY <1>3
<1>7. idp' = [idp EXCEPT !.up = TRUE, !.kid = key, !.pem = key, !.store = Nobody, !.users = users, !.next = n]
  BY <1>1, <1>2 DEF OpStates
<1> HIDE DEF n
<1>8. idp' \in OpStates
  BY <1>2, <1>5, <1>6, <1>7 DEF OpStates
<1>9. idp'.pem = key /\ idp'.kid = key /\ idp'.grants = idp.grants /\ idp'.store = Nobody /\ idp'.next = n
  BY <1>2, <1>7 DEF OpStates
<1>10. idp'.store.codes = {} /\ OpKeyed'
  BY <1>5, <1>9 DEF Nobody, OpKeyed
<1> QED BY <1>4, <1>6, <1>8, <1>9, <1>10, OpQuiet

LEMMA OpStoppedStep == ASSUME OpInv, stopped PROVE OpInv'
<1>1. idp \in OpStates /\ Nobody \in OpStores /\ NoOp \in OpKeys /\ TornKey \in OpKeys /\ Nobody.codes = {}
  BY DEF OpInv, Nobody, OpStores, OpKeys, TornKey
<1>2. idp.next \in Nat
  BY <1>1 DEF OpStates
<1>3. idp.next <= idp.next
  BY <1>2
<1>4. CASE idp' = [idp EXCEPT !.up = FALSE, !.kid = NoOp, !.store = Nobody]
  <2>1. idp' \in OpStates
    BY <1>1, <1>4 DEF OpStates
  <2>2. idp'.up = FALSE
    BY <1>1, <1>4 DEF OpStates
  <2>3. idp'.pem = idp.pem /\ idp'.grants = idp.grants /\ idp'.store = Nobody /\ idp'.next = idp.next
    BY <1>1, <1>4 DEF OpStates
  <2>4. OpKeyed'
    BY <2>2 DEF OpKeyed
  <2> QED BY <1>1, <1>3, <2>1, <2>3, <2>4, OpQuiet
<1>5. CASE ~idp.up /\ idp.pem = NoOp /\ idp' = [idp EXCEPT !.pem = TornKey]
  <2>1. idp' \in OpStates
    BY <1>1, <1>5 DEF OpStates
  <2>2. idp'.up = idp.up
    BY <1>1, <1>5 DEF OpStates
  <2>3. idp'.grants = idp.grants /\ idp'.store = idp.store /\ idp'.next = idp.next
    BY <1>1, <1>5 DEF OpStates
  <2>4. OpKeyed'
    BY <1>5, <2>2 DEF OpKeyed
  <2> QED BY <1>3, <1>5, <2>1, <2>3, <2>4, OpQuiet
<1> QED BY <1>4, <1>5 DEF stopped

LEMMA OpTickStep == ASSUME OpInv, OpTick PROVE OpInv'
<1>1. idp \in OpStates /\ idp' = [idp EXCEPT !.now = @ + 1]
  BY DEF OpInv, OpTick
<1>2. idp.next \in Nat /\ idp.now \in Nat
  BY <1>1 DEF OpStates
<1> DEFINE n == idp.now + 1
<1>3. n \in Nat /\ idp.next <= idp.next
  BY <1>2
<1>4. idp' = [idp EXCEPT !.now = n]
  BY <1>1 DEF OpStates
<1> HIDE DEF n
<1>5. idp' \in OpStates
  BY <1>1, <1>3, <1>4 DEF OpStates
<1>6. idp'.up = idp.up
  BY <1>1, <1>4 DEF OpStates
<1>7. idp'.pem = idp.pem /\ idp'.kid = idp.kid /\ idp'.grants = idp.grants /\ idp'.store = idp.store /\ idp'.next = idp.next
  BY <1>1, <1>4 DEF OpStates
<1>8. OpKeyed'
  BY <1>6, <1>7 DEF OpKeyed, OpInv
<1> QED BY <1>3, <1>5, <1>7, <1>8, OpQuiet

\* The store with one code more: what issue_code returns.
LEMMA OpIssues ==
  ASSUME OpInv, Answering, NEW store \in OpStores, store.codes = idp.store.codes, NEW user \in OpUsers, NEW client \in OpClients,
         NEW challenge \in {NoOp, "c"}, idp' = [idp EXCEPT !.store = issue_code(store, user, client, challenge), !.next = @ + 1]
  PROVE  OpInv'
<1> DEFINE k == [id |-> idp.next, user |-> user, client |-> client, challenge |-> challenge, expires_at |-> idp.now + CodeTtl]
           cs == idp.store.codes \cup {k}
           st == [store EXCEPT !.codes = cs]
           n == idp.next + 1
<1>1. idp \in OpStates /\ OpKeyed /\ OpFresh /\ GrantsAreSound
  BY DEF OpInv
<1>2. idp.next \in Nat /\ idp.now \in Nat /\ idp.grants \in SUBSET OpGrants
  BY <1>1 DEF OpStates
<1>3. idp.now + CodeTtl \in Nat
  BY <1>2, OidcProviderAssumption
<1>4. k \in OpCodes /\ k.id = idp.next
  BY <1>2, <1>3 DEF OpCodes
<1>5. st = issue_code(store, user, client, challenge)
  BY DEF issue_code, OpStores
<1> HIDE DEF k
<1>6. cs \in SUBSET OpCodes /\ idp.store.codes \in SUBSET OpCodes
  BY <1>4 DEF OpStores
<1> HIDE DEF cs
<1>7. st \in OpStores /\ st.codes = cs
  BY <1>6 DEF OpStores
<1>8. n \in Nat /\ idp.next < n
  BY <1>2
<1>9. idp' = [idp EXCEPT !.store = st, !.next = n]
  BY <1>1, <1>5 DEF OpStates
<1> HIDE DEF st, n
<1>10. idp' \in OpStates
  BY <1>1, <1>7, <1>8, <1>9 DEF OpStates
<1>11. idp'.up = idp.up
  BY <1>1, <1>9 DEF OpStates
<1>12. idp'.pem = idp.pem /\ idp'.kid = idp.kid /\ idp'.grants = idp.grants /\ idp'.store = st /\ idp'.next = n
  BY <1>1, <1>9 DEF OpStates
<1>13. OpKeyed'
  BY <1>1, <1>11, <1>12 DEF OpKeyed
<1>14. GrantsAreSound'
  BY <1>1, <1>12 DEF GrantsAreSound
<1>15. \A l \in idp.store.codes : l.id \in Nat /\ l.id < idp.next
  BY <1>1, <1>6 DEF OpFresh, OpCodes
<1>16. \A g \in idp.grants : g.code.id \in Nat /\ g.code.id < idp.next
  BY <1>1, <1>2 DEF OpFresh, OpGrants, OpCodes
<1>17. \A l \in idp.store.codes : l.id < n /\ l.id # k.id
  BY <1>2, <1>4, <1>8, <1>15
<1>18. \A g \in idp.grants : g.code.id < n /\ g.code.id # k.id
  BY <1>2, <1>4, <1>8, <1>16
<1>19. OpFresh'
  <2>1. \A l \in cs : l.id < n
    BY <1>4, <1>8, <1>17 DEF cs
  <2>2. \A l, m \in cs : l.id = m.id => l = m
    BY <1>1, <1>17 DEF cs, OpFresh
  <2>3. \A l \in cs, g \in idp.grants : g.code.id # l.id
    BY <1>1, <1>18 DEF cs, OpFresh
  <2> QED BY <1>7, <1>12, <1>18, <2>1, <2>2, <2>3 DEF OpFresh
<1> QED BY <1>10, <1>13, <1>14, <1>19 DEF OpInv

\* Fewer sessions and the same codes, or fewer codes.
LEMMA OpStoreShrinks ==
  ASSUME OpInv, NEW st \in OpStores, st.codes \subseteq idp.store.codes, idp' = [idp EXCEPT !.store = st]
  PROVE  OpInv'
<1>1. idp \in OpStates /\ idp.next \in Nat
  BY DEF OpInv, OpStates
<1>2. idp' \in OpStates
  BY <1>1 DEF OpStates
<1>3. idp'.up = idp.up
  BY <1>1 DEF OpStates
<1>4. idp'.pem = idp.pem /\ idp'.kid = idp.kid /\ idp'.grants = idp.grants /\ idp'.store = st /\ idp'.next = idp.next
  BY <1>1 DEF OpStates
<1>5. OpKeyed'
  BY <1>3, <1>4 DEF OpInv, OpKeyed
<1>6. idp.next <= idp'.next
  BY <1>1, <1>4
<1> QED BY <1>2, <1>4, <1>5, <1>6, OpQuiet

\* A session is forgotten.
LEMMA OpForgets ==
  ASSUME OpInv, NEW s, idp' = [idp EXCEPT !.store.sessions = @ \ {s}]
  PROVE  OpInv'
<1> DEFINE ss == idp.store.sessions \ {s}
           st == [idp.store EXCEPT !.sessions = ss]
<1>1. idp \in OpStates /\ idp.store \in OpStores
  BY DEF OpInv, OpStates
<1>2. ss \in SUBSET OpSessions
  BY <1>1 DEF OpStores
<1>3. idp' = [idp EXCEPT !.store = st]
  BY <1>1 DEF OpStates, OpStores
<1> HIDE DEF ss
<1>4. st \in OpStores /\ st.codes = idp.store.codes
  BY <1>1, <1>2 DEF OpStores
<1> HIDE DEF st
<1> QED BY <1>3, <1>4, OpStoreShrinks

LEMMA OpAuthorizeStep ==
  ASSUME OpInv, NEW sid, NEW client \in OpClients, NEW challenge \in {NoOp, "c"}, authorize(sid, client, challenge)
  PROVE  OpInv'
<1>1. PICK s \in idp.store.sessions :
        idp' = IF s.expires_at > idp.now /\ find_user(s.user)
               THEN [idp EXCEPT !.store = issue_code(@, s.user, client, challenge), !.next = @ + 1]
               ELSE [idp EXCEPT !.store.sessions = @ \ {s}]
  BY DEF authorize
<1>2. idp \in OpStates /\ idp.store \in OpStores /\ Answering
  BY DEF OpInv, OpStates, authorize
<1>3. CASE idp' = [idp EXCEPT !.store = issue_code(@, s.user, client, challenge), !.next = @ + 1]
  <2>1. s.user \in OpUsers
    BY <1>2 DEF OpStores, OpSessions
  <2>2. idp' = [idp EXCEPT !.store = issue_code(idp.store, s.user, client, challenge), !.next = @ + 1]
    BY <1>2, <1>3 DEF OpStates
  <2> QED BY <1>2, <2>1, <2>2, OpIssues
<1>4. CASE idp' = [idp EXCEPT !.store.sessions = @ \ {s}]
  BY <1>4, OpForgets
<1> QED BY <1>1, <1>3, <1>4

LEMMA OpLoginStep ==
  ASSUME OpInv, NEW user \in OpUsers, NEW client \in OpClients, NEW challenge \in {NoOp, "c"}, login(user, client, challenge)
  PROVE  OpInv'
<1> DEFINE session == [id |-> idp.next, user |-> user, expires_at |-> idp.now + SessionTtl]
           store == [idp.store EXCEPT !.sessions = @ \cup {session}]
<1>1. idp \in OpStates /\ idp.store \in OpStores /\ idp.next \in Nat /\ idp.now \in Nat
  BY DEF OpInv, OpStates
<1>2. idp.now + SessionTtl \in Nat
  BY <1>1, OidcProviderAssumption
<1>3. session \in OpSessions
  BY <1>1, <1>2 DEF OpSessions
<1>4. idp' = [idp EXCEPT !.store = issue_code(store, user, client, challenge), !.next = @ + 1] /\ Answering
  BY DEF login
<1> HIDE DEF session
<1> DEFINE ss == idp.store.sessions \cup {session}
<1>5. ss \in SUBSET OpSessions
  BY <1>1, <1>3 DEF OpStores
<1>6. store = [idp.store EXCEPT !.sessions = ss]
  OBVIOUS
<1> HIDE DEF ss, store
<1>7. store \in OpStores /\ store.codes = idp.store.codes
  BY <1>1, <1>5, <1>6 DEF OpStores
<1> QED BY <1>4, <1>7, OpIssues

\* The exchange takes the code out of the store, whether it succeeds or not.
LEMMA OpTokenStep ==
  ASSUME OpInv, NEW id, NEW client \in OpClients, NEW verifier \in {NoOp, "c"}, token(id, client, verifier)
  PROVE  OpInv'
<1>1. PICK code \in idp.store.codes :
        idp' = IF code.expires_at >= idp.now /\ code.client = client /\ verify_pkce(code, verifier) /\ find_user(code.user)
               THEN [idp EXCEPT !.store.codes = @ \ {code}, !.next = @ + 1,
                       !.grants = @ \cup {[token |-> idp.next, code |-> code, client |-> client, at |-> idp.now,
                                           kid |-> idp.kid]}]
               ELSE [idp EXCEPT !.store.codes = @ \ {code}]
  BY DEF token
<1>2. idp \in OpStates /\ OpKeyed /\ OpFresh /\ GrantsAreSound /\ idp.up
  BY DEF OpInv, token, Answering
<1>3. idp.store \in OpStores /\ idp.next \in Nat /\ idp.now \in Nat /\ idp.grants \in SUBSET OpGrants /\ idp.kid \in OpKeys
  BY <1>2 DEF OpStates
<1>4. idp.store.codes \in SUBSET OpCodes
  BY <1>3 DEF OpStores
<1> DEFINE cs == idp.store.codes \ {code}
           st == [idp.store EXCEPT !.codes = cs]
<1>5. cs \in SUBSET OpCodes
  BY <1>4
<1>6. cs \subseteq idp.store.codes
  OBVIOUS
<1> HIDE DEF cs
<1>7. st \in OpStores /\ st.codes = cs
  BY <1>3, <1>5 DEF OpStores
<1>8. CASE idp' = [idp EXCEPT !.store.codes = @ \ {code}]
  <2>1. idp' = [idp EXCEPT !.store = st]
    BY <1>2, <1>3, <1>8 DEF OpStates, OpStores, cs
  <2> HIDE DEF st
  <2> QED BY <1>6, <1>7, <2>1, OpStoreShrinks
<1>9. CASE /\ code.expires_at >= idp.now /\ code.client = client
           /\ idp' = [idp EXCEPT !.store.codes = @ \ {code}, !.next = @ + 1,
                       !.grants = @ \cup {[token |-> idp.next, code |-> code, client |-> client, at |-> idp.now,
                                           kid |-> idp.kid]}]
  <2> DEFINE g == [token |-> idp.next, code |-> code, client |-> client, at |-> idp.now, kid |-> idp.kid]
             gs == idp.grants \cup {g}
             n == idp.next + 1
  <2>1. idp.kid \in Nat /\ idp.kid = idp.pem
    BY <1>2, <1>3 DEF OpKeyed, OpKeys
  <2>2. code \in OpCodes
    BY <1>4
  <2>3. code.expires_at \in Nat /\ code.id \in Nat
    BY <2>2 DEF OpCodes
  <2>4. g \in OpGrants /\ g.code = code /\ g.client = client /\ g.at = idp.now /\ g.kid = idp.kid
    BY <1>3, <2>1, <2>2 DEF OpGrants
  <2>5. idp' = [idp EXCEPT !.store = st, !.next = n, !.grants = gs]
    BY <1>2, <1>3, <1>9 DEF OpStates, OpStores, cs
  <2> HIDE DEF g
  <2>6. gs \in SUBSET OpGrants
    BY <1>3, <2>4
  <2>7. n \in Nat /\ idp.next < n
    BY <1>3
  <2> HIDE DEF gs, n, st
  <2>8. idp' \in OpStates
    BY <1>2, <1>7, <2>5, <2>6, <2>7 DEF OpStates
  <2>9. idp'.up = idp.up
    BY <1>2, <2>5 DEF OpStates
  <2>10. idp'.pem = idp.pem /\ idp'.kid = idp.kid /\ idp'.grants = gs /\ idp'.store = st /\ idp'.next = n
    BY <1>2, <2>5 DEF OpStates
  <2>11. OpKeyed'
    BY <1>2, <2>9, <2>10 DEF OpKeyed
  <2>12. \A l \in idp.store.codes : l.id \in Nat /\ l.id < n
    <3>1. \A l \in idp.store.codes : l.id \in Nat /\ l.id < idp.next
      BY <1>2, <1>4 DEF OpFresh, OpCodes
    <3> QED BY <1>3, <2>7, <3>1
  <2>13. \A h \in idp.grants : h.code.id \in Nat /\ h.code.id < n
    <3>1. \A h \in idp.grants : h.code.id \in Nat /\ h.code.id < idp.next
      BY <1>2, <1>3 DEF OpFresh, OpGrants, OpCodes
    <3> QED BY <1>3, <2>7, <3>1
  <2>14. OpFresh'
    <3>1. \A l \in cs : l.id < n /\ l.id # code.id
      BY <1>2, <2>12 DEF cs, OpFresh
    <3>2. \A h \in gs : h.code.id < n
      BY <2>4, <2>12, <2>13 DEF gs
    <3>3. \A l, m \in cs : l.id = m.id => l = m
      BY <1>2, <1>6 DEF OpFresh
    <3>4. \A l \in cs, h \in gs : h.code.id # l.id
      BY <1>2, <1>6, <2>4, <3>1 DEF gs, OpFresh
    <3> QED BY <1>7, <2>10, <3>1, <3>2, <3>3, <3>4 DEF OpFresh
  <2>15. GrantsAreSound'
    <3>1. g.client = g.code.client /\ g.at <= g.code.expires_at /\ g.kid = idp.pem
      BY <1>3, <1>9, <2>1, <2>3, <2>4
    <3>2. \A h \in idp.grants : h.code.id # g.code.id
      BY <1>2, <2>4 DEF OpFresh
    <3>3. \A h \in gs : h.client = h.code.client /\ h.at <= h.code.expires_at /\ h.kid = idp.pem
      BY <1>2, <3>1 DEF GrantsAreSound, gs
    <3>4. \A h, i \in gs : h.code.id = i.code.id => h = i
      BY <1>2, <3>2 DEF GrantsAreSound, gs
    <3> QED BY <2>10, <3>3, <3>4 DEF GrantsAreSound
  <2> QED BY <2>8, <2>11, <2>14, <2>15 DEF OpInv
<1> QED BY <1>1, <1>8, <1>9

LEMMA OpInitInv == OpInit => OpInv
<1> SUFFICES ASSUME OpInit PROVE OpInv
  OBVIOUS
<1>1. Nobody \in OpStores /\ Nobody.codes = {}
  BY DEF Nobody, OpStores
<1>2. NoOp \in OpKeys
  BY DEF OpKeys
<1>3. idp \in OpStates
  BY <1>1, <1>2 DEF OpInit, OpStates
<1>4. ~idp.up /\ idp.grants = {} /\ idp.store = Nobody
  BY DEF OpInit
<1>5. OpKeyed /\ OpFresh /\ GrantsAreSound
  BY <1>1, <1>4 DEF OpKeyed, OpFresh, GrantsAreSound
<1> QED BY <1>3, <1>5 DEF OpInv

LEMMA OpInvStep == OpInv /\ [OpNext]_idp => OpInv'
<1> SUFFICES ASSUME OpInv, [OpNext]_idp PROVE OpInv'
  OBVIOUS
<1>1. CASE run
  BY <1>1, OpRunStep
<1>2. CASE stopped
  BY <1>2, OpStoppedStep
<1>3. CASE OpTick
  BY <1>3, OpTickStep
<1>4. ASSUME NEW c \in OpClients, NEW ch \in {NoOp, "c"}, NEW s \in idp.store.sessions, authorize(s.id, c, ch)
      PROVE  OpInv'
  BY <1>4, OpAuthorizeStep
<1>5. ASSUME NEW c \in OpClients, NEW ch \in {NoOp, "c"}, NEW u \in OpUsers, login(u, c, ch)
      PROVE  OpInv'
  BY <1>5, OpLoginStep
<1>6. ASSUME NEW c \in OpClients, NEW ch \in {NoOp, "c"}, NEW k \in idp.store.codes, token(k.id, c, ch)
      PROVE  OpInv'
  BY <1>6, OpTokenStep
<1>7. ASSUME NEW s \in idp.store.sessions, end_session(s.id) PROVE OpInv'
  BY <1>7, OpForgets DEF end_session
<1>8. CASE UNCHANGED idp
  BY <1>8 DEF OpInv, OpKeyed, OpFresh, GrantsAreSound
<1> QED BY <1>1, <1>2, <1>3, <1>4, <1>5, <1>6, <1>7, <1>8 DEF OpNext

\* For any users, clients, lifetimes and any number of requests and restarts
\* (vzctl-oidc-simple's token and load_or_create_keys): a code is exchanged at
\* most once, by its client, in time, and every ID token verifies with the key
\* on disk.
THEOREM CodesAreSpentOnce == OpSpec => []GrantsAreSound
<1>1. OpInv => GrantsAreSound
  BY DEF OpInv
<1> QED BY OpInitInv, OpInvStep, <1>1, PTL DEF OpSpec

-----------------------------------------------------------------------------
(* The clients of the identity provider.                                   *)

OcOwners    == {AutoOwner, "claim"}
OcEntries   == [id : OcIds, owner : OcOwners, secret : Nat]
OcTodos     == [id : OcIds, owner : OcOwners]
OcRunStates == [pc : {"idle", "read", "clients"}, cfg : OcConfigs, previous : SUBSET OcEntries, todo : Seq(OcTodos), clients : SUBSET OcEntries]
OcStates    == [cfg : OcConfigs, edits : Nat, store : SUBSET OcEntries, file : SUBSET OcEntries, lock : OcRuns \cup {NoOc},
                run : [OcRuns -> OcRunStates], next : Nat, published : SUBSET OcEntries, dropped : SUBSET OcEntries]

SameClient(p, q) == p.id = q.id /\ p.owner = q.owner

\* Who works holds the lock; what it listed is in the store already, and the
\* list on disk is the one it has read.
OcHolder ==
  \A r \in OcRuns : oc.run[r].pc # "idle" =>
    /\ oc.lock = r /\ oc.run[r].clients \subseteq oc.store
    /\ oc.run[r].pc = "clients" => oc.run[r].previous = oc.file

\* The store and the list on disk agree on every client's secret.
OcAgree == \A p, q \in oc.store \cup oc.file : SameClient(p, q) => p.secret = q.secret

\* What was published and not dropped is still there; what is not in the store
\* comes from the list of before it existed.
OcKept(store, file, published, dropped) ==
  /\ published \ dropped \subseteq store \cup file
  /\ \A p \in (file \ store) \cup dropped : p.secret = 0
  /\ dropped \cap (store \cup file) = {}

OcInv ==
  /\ oc \in OcStates /\ OcHolder /\ OcAgree /\ oc.next # 0
  /\ OcKept(oc.store, oc.file, oc.published, oc.dropped)

LEMMA RunIdleType == RunIdle \in OcRunStates /\ RunIdle.pc = "idle"
<1>1. [vms |-> {}, routes |-> {}, claim |-> NoOc] \in OcConfigs
  BY DEF OcConfigs
<1>2. <<>> \in Seq(OcTodos)
  OBVIOUS
<1> QED BY <1>1, <1>2 DEF RunIdle, OcRunStates

LEMMA SeqOfSet == ASSUME NEW S, IsFiniteSet(S) PROVE SetToSeq(S) \in Seq(S)
<1>1. PICK n \in Nat : ExistsBijection(1 .. n, S)
  BY FS_NatBijection
<1>2. Cardinality(S) = n
  BY <1>1, FS_CountingElements
<1>3. PICK f \in [1 .. n -> S] : \A a, b \in 1 .. n : f[a] = f[b] => a = b
  BY <1>1 DEF ExistsBijection, Bijection, Injection, IsInjective
<1>4. \E g \in [1 .. Cardinality(S) -> S] : IsInjective(g)
  BY <1>2, <1>3 DEF IsInjective
<1>5. SetToSeq(S) \in [1 .. Cardinality(S) -> S]
  BY <1>4 DEF SetToSeq
<1> QED BY <1>2, <1>5

\* What get_or_import returns agrees with the store and the list on disk.
LEMMA ImportAgrees ==
  ASSUME OcInv, NEW work \in OcRunStates, NEW c \in OcTodos, work.previous = oc.file, ~conflict(work, c), NEW imp, imp = get_or_import(work, c)
  PROVE  /\ imp \in SUBSET OcEntries
         /\ \A p, q \in (oc.store \cup imp) \cup oc.file : SameClient(p, q) => p.secret = q.secret
         /\ \A p \in imp : p \in oc.store \cup oc.file \/ p.secret = oc.next
<1> DEFINE stored == {s \in oc.store : s.id = c.id /\ s.owner = c.owner}
           before == {p \in work.previous : p.id = c.id}
<1>1. oc.store \in SUBSET OcEntries /\ oc.file \in SUBSET OcEntries /\ oc.next \in Nat
  BY DEF OcInv, OcStates
<1>2. c.id \in OcIds /\ c.owner \in OcOwners
  BY DEF OcTodos
<1>3. \A p, q \in oc.store \cup oc.file : SameClient(p, q) => p.secret = q.secret
  BY DEF OcInv, OcAgree
<1>4. CASE stored # {}
  <2>1. imp = stored
    BY <1>4 DEF get_or_import
  <2> QED BY <1>1, <1>3, <2>1
<1>5. CASE stored = {} /\ before # {}
  <2>1. imp = {[id |-> c.id, owner |-> c.owner, secret |-> p.secret] : p \in before}
    BY <1>5 DEF get_or_import
  <2>2. \A p \in before : p \in oc.file /\ p.id = c.id /\ p.owner = c.owner
    BY DEF conflict
  <2>3. \A p \in before : p.secret \in Nat
    BY <1>1, <2>2 DEF OcEntries
  <2>4. \A s \in imp : /\ s \in OcEntries /\ s.id = c.id /\ s.owner = c.owner
                       /\ \E p \in oc.file : SameClient(p, s) /\ p.secret = s.secret
    BY <1>2, <2>1, <2>2, <2>3 DEF OcEntries, SameClient
  <2> HIDE DEF before
  <2>5. \A s \in imp, q \in oc.file : SameClient(s, q) => s.secret = q.secret
    BY <1>3, <2>4 DEF SameClient
  <2>6. \A s \in imp, q \in oc.store : ~SameClient(s, q) /\ ~SameClient(q, s)
    BY <1>5, <2>4 DEF SameClient
  <2>7. \A s, q \in imp : s.secret = q.secret
    BY <2>4, <2>5 DEF SameClient
  <2>8. \A s \in imp : s \in oc.file
    BY <1>1, <2>4 DEF OcEntries, SameClient
  <2> QED BY <1>3, <2>4, <2>5, <2>6, <2>7, <2>8 DEF SameClient
<1>6. CASE stored = {} /\ before = {}
  <2> DEFINE s == [id |-> c.id, owner |-> c.owner, secret |-> oc.next]
  <2>1. imp = {s}
    BY <1>6 DEF get_or_import
  <2>2. s \in OcEntries /\ s.id = c.id /\ s.owner = c.owner /\ s.secret = oc.next
    BY <1>1, <1>2 DEF OcEntries
  <2> HIDE DEF s
  <2>3. \A q \in oc.store \cup oc.file : ~SameClient(s, q) /\ ~SameClient(q, s)
    BY <1>6, <2>2 DEF SameClient
  <2> QED BY <1>3, <2>1, <2>2, <2>3
<1> QED BY <1>4, <1>5, <1>6

\* A run takes a new state, everything of the others stays.
LEMMA RunSets ==
  ASSUME oc \in OcStates, NEW r \in OcRuns, NEW x \in OcRunStates
  PROVE  LET run2 == [oc.run EXCEPT ![r] = x]
         IN  run2 \in [OcRuns -> OcRunStates] /\ run2[r] = x /\ \A q \in OcRuns : q # r => run2[q] = oc.run[q]
BY DEF OcStates

LEMMA OcEditStep == ASSUME OcInv, OcEdit PROVE OcInv'
<1>1. PICK c \in OcConfigs : oc' = [oc EXCEPT !.cfg = c, !.edits = @ + 1]
  BY DEF OcEdit
<1>2. oc \in OcStates /\ oc.edits \in Nat
  BY DEF OcInv, OcStates
<1> DEFINE n == oc.edits + 1
<1>3. n \in Nat /\ oc' = [oc EXCEPT !.cfg = c, !.edits = n]
  BY <1>1, <1>2 DEF OcStates
<1> HIDE DEF n
<1>4. oc' \in OcStates
  BY <1>2, <1>3 DEF OcStates
<1>5. oc'.store = oc.store /\ oc'.file = oc.file /\ oc'.lock = oc.lock /\ oc'.run = oc.run /\ oc'.published = oc.published
      /\ oc'.dropped = oc.dropped /\ oc'.next = oc.next
  BY <1>2, <1>3 DEF OcStates
<1> QED BY <1>4, <1>5 DEF OcInv, OcHolder, OcAgree

LEMMA LockedStep == ASSUME OcInv, NEW r \in OcRuns, locked(r) PROVE OcInv'
<1> DEFINE x == [RunIdle EXCEPT !.pc = "read", !.cfg = oc.cfg]
           run2 == [oc.run EXCEPT ![r] = x]
<1>1. oc \in OcStates /\ oc.cfg \in OcConfigs
  BY DEF OcInv, OcStates
<1>2. x \in OcRunStates /\ x.pc = "read" /\ x.clients = {}
  <2>1. RunIdle \in OcRunStates /\ RunIdle.clients = {}
    BY RunIdleType DEF RunIdle
  <2> QED BY <1>1, <2>1 DEF OcRunStates
<1>3. oc.lock = NoOc /\ oc' = [oc EXCEPT !.lock = r, !.run = run2]
  BY <1>1 DEF locked, OcStates
<1> HIDE DEF x
<1>4. run2 \in [OcRuns -> OcRunStates] /\ run2[r] = x /\ \A q \in OcRuns : q # r => run2[q] = oc.run[q]
  BY <1>1, <1>2, RunSets
<1> HIDE DEF run2
<1>5. oc' \in OcStates
  BY <1>1, <1>3, <1>4 DEF OcStates
<1>6. oc'.store = oc.store /\ oc'.file = oc.file /\ oc'.lock = r /\ oc'.run = run2 /\ oc'.published = oc.published
      /\ oc'.dropped = oc.dropped /\ oc'.next = oc.next
  BY <1>1, <1>3 DEF OcStates
<1>7. \A q \in OcRuns : oc.run[q].pc = "idle"
  BY <1>3, OidcClientsAssumption DEF OcInv, OcHolder
<1>8. OcHolder'
  BY <1>2, <1>4, <1>6, <1>7 DEF OcHolder
<1> QED BY <1>5, <1>6, <1>8 DEF OcInv, OcAgree

LEMMA AutoClientsStep == ASSUME OcInv, NEW r \in OcRuns, auto_clients(r) PROVE OcInv'
<1> DEFINE c == oc.run[r].cfg
           auto == build_auto_clients(c)
           todo == [i \in 1 .. Len(auto) |-> [id |-> auto[i], owner |-> AutoOwner]]
                   \o (IF c.claim = NoOc THEN <<>> ELSE <<[id |-> c.claim, owner |-> "claim"]>>)
           x == [oc.run[r] EXCEPT !.pc = "clients", !.previous = oc.file, !.todo = todo]
           run2 == [oc.run EXCEPT ![r] = x]
<1>1. oc \in OcStates /\ oc.run[r] \in OcRunStates /\ oc.file \in SUBSET OcEntries
  BY DEF OcInv, OcStates
<1>2. c \in OcConfigs
  BY <1>1 DEF OcRunStates
<1>3. c.vms \in SUBSET OcIds /\ c.routes \in SUBSET OcIds /\ c.claim \in OcIds \cup {NoOc}
  BY <1>2 DEF OcConfigs
<1>4. oc.run[r].pc = "read" /\ oc' = [oc EXCEPT !.run[r].pc = "clients", !.run[r].previous = oc.file, !.run[r].todo = todo]
  BY DEF auto_clients
<1> HIDE DEF c
<1>5. auto \in Seq(OcIds)
  <2>1. IsFiniteSet(c.vms) /\ IsFiniteSet(c.routes \ c.vms)
    BY <1>3, FS_Subset, OidcClientsAssumption
  <2>2. SetToSeq(c.vms) \in Seq(c.vms) /\ SetToSeq(c.routes \ c.vms) \in Seq(c.routes \ c.vms)
    BY <2>1, SeqOfSet
  <2>3. SetToSeq(c.vms) \in Seq(OcIds) /\ SetToSeq(c.routes \ c.vms) \in Seq(OcIds)
    BY <1>3, <2>2
  <2> QED BY <2>3 DEF build_auto_clients
<1> HIDE DEF auto
<1>6. todo \in Seq(OcTodos)
  <2> DEFINE a == [i \in 1 .. Len(auto) |-> [id |-> auto[i], owner |-> AutoOwner]]
             b == IF c.claim = NoOc THEN <<>> ELSE <<[id |-> c.claim, owner |-> "claim"]>>
  <2>1. Len(auto) \in Nat /\ \A i \in 1 .. Len(auto) : [id |-> auto[i], owner |-> AutoOwner] \in OcTodos
    BY <1>5 DEF OcTodos, OcOwners
  <2>2. a \in Seq(OcTodos)
    BY <2>1
  <2>3. c.claim # NoOc => [id |-> c.claim, owner |-> "claim"] \in OcTodos
    BY <1>3 DEF OcTodos, OcOwners
  <2>4. b \in Seq(OcTodos)
    BY <2>3
  <2> HIDE DEF a, b
  <2>5. a \o b \in Seq(OcTodos)
    BY <2>2, <2>4
  <2> QED BY <2>5 DEF a, b
<1>7. oc' = [oc EXCEPT !.run = run2]
  BY <1>1, <1>4 DEF OcStates
<1> HIDE DEF todo
<1>8. x \in OcRunStates /\ x.pc = "clients" /\ x.previous = oc.file /\ x.clients = oc.run[r].clients
  BY <1>1, <1>6 DEF OcRunStates
<1> HIDE DEF x
<1>9. run2 \in [OcRuns -> OcRunStates] /\ run2[r] = x /\ \A q \in OcRuns : q # r => run2[q] = oc.run[q]
  BY <1>1, <1>8, RunSets
<1> HIDE DEF run2
<1>10. oc' \in OcStates
  BY <1>1, <1>7, <1>9 DEF OcStates
<1>11. oc'.store = oc.store /\ oc'.file = oc.file /\ oc'.lock = oc.lock /\ oc'.run = run2 /\ oc'.published = oc.published
       /\ oc'.dropped = oc.dropped /\ oc'.next = oc.next
  BY <1>1, <1>7 DEF OcStates
<1>12. OcHolder'
  BY <1>4, <1>8, <1>9, <1>11 DEF OcHolder, OcInv
<1> QED BY <1>10, <1>11, <1>12 DEF OcInv, OcAgree

\* A run that ends, with what it did before it gives the lock back.
LEMMA UnlockedStep ==
  ASSUME OcInv, NEW r \in OcRuns, oc.run[r].pc # "idle", NEW s \in OcStates, oc' = Unlocked(r, s), s.run = oc.run, s.store = oc.store,
         s.next = oc.next, s.file \subseteq s.store \/ s.file = oc.file, OcKept(s.store, s.file, s.published, s.dropped)
  PROVE  OcInv'
<1> DEFINE run2 == [oc.run EXCEPT ![r] = RunIdle]
<1>1. oc' = [s EXCEPT !.lock = NoOc, !.run = run2]
  BY DEF Unlocked, OcStates
<1>2. run2 \in [OcRuns -> OcRunStates] /\ run2[r] = RunIdle /\ \A q \in OcRuns : q # r => run2[q] = oc.run[q]
  BY RunIdleType, RunSets DEF OcInv
<1> HIDE DEF run2
<1>3. oc' \in OcStates
  BY <1>1, <1>2 DEF OcStates
<1>4. oc'.store = oc.store /\ oc'.file = s.file /\ oc'.run = run2 /\ oc'.published = s.published /\ oc'.dropped = s.dropped
      /\ oc'.next = oc.next
  BY <1>1 DEF OcStates
<1>5. \A q \in OcRuns : run2[q].pc = "idle"
  BY <1>2, RunIdleType DEF OcInv, OcHolder
<1>6. OcHolder'
  BY <1>4, <1>5 DEF OcHolder
<1>7. OcAgree'
  BY <1>4 DEF OcInv, OcAgree
<1> QED BY <1>3, <1>4, <1>6, <1>7 DEF OcInv

LEMMA OidcClientStep == ASSUME OcInv, NEW r \in OcRuns, oidc_client(r) PROVE OcInv'
<1> DEFINE work == oc.run[r]
           c == Head(work.todo)
           imp == get_or_import(work, c)
<1>1. oc \in OcStates /\ work \in OcRunStates /\ work.pc = "clients" /\ work.todo # <<>> /\ OcHolder
  BY DEF OcInv, OcStates, oidc_client
<1>2. work.todo \in Seq(OcTodos) /\ work.clients \in SUBSET OcEntries
  BY <1>1 DEF OcRunStates
<1>3. c \in OcTodos /\ Tail(work.todo) \in Seq(OcTodos)
  BY <1>1, <1>2
<1>4. work.previous = oc.file /\ work.clients \subseteq oc.store /\ oc.lock = r
  BY <1>1 DEF OcHolder
<1>5. CASE conflict(work, c)
  <2>1. oc' = Unlocked(r, oc)
    BY <1>5 DEF oidc_client
  <2> QED BY <1>1, <2>1, UnlockedStep DEF OcInv
<1>6. CASE ~conflict(work, c)
  <2>1. oc' = [oc EXCEPT !.store = @ \cup imp, !.next = @ + 1, !.run[r].todo = Tail(@), !.run[r].clients = @ \cup imp]
    BY <1>6 DEF oidc_client
  <2>2. /\ imp \in SUBSET OcEntries
        /\ \A p, q \in (oc.store \cup imp) \cup oc.file : SameClient(p, q) => p.secret = q.secret
        /\ \A p \in imp : p \in oc.store \cup oc.file \/ p.secret = oc.next
    BY <1>1, <1>3, <1>4, <1>6, ImportAgrees
  <2> HIDE DEF imp
  <2> DEFINE t == Tail(work.todo)
             cs == work.clients \cup imp
             st == oc.store \cup imp
             n == oc.next + 1
             x == [work EXCEPT !.todo = t, !.clients = cs]
             run2 == [oc.run EXCEPT ![r] = x]
  <2>3. oc.store \in SUBSET OcEntries /\ oc.next \in Nat /\ oc.file \in SUBSET OcEntries
    BY <1>1 DEF OcStates
  <2>4. oc' = [oc EXCEPT !.store = st, !.next = n, !.run = run2]
    BY <1>1, <2>1 DEF OcStates
  <2>5. cs \in SUBSET OcEntries /\ st \in SUBSET OcEntries /\ cs \subseteq st /\ n \in Nat /\ oc.store \subseteq st
    BY <1>2, <1>4, <2>2, <2>3
  <2>6. t \in Seq(OcTodos)
    BY <1>3
  <2>0. n # 0
    BY <2>3
  <2> HIDE DEF t, cs, n
  <2>7. x \in OcRunStates /\ x.pc = "clients" /\ x.previous = work.previous /\ x.clients = cs
    BY <1>1, <2>5, <2>6 DEF OcRunStates
  <2> HIDE DEF x, st
  <2>8. run2 \in [OcRuns -> OcRunStates] /\ run2[r] = x /\ \A q \in OcRuns : q # r => run2[q] = oc.run[q]
    BY <1>1, <2>7, RunSets
  <2> HIDE DEF run2
  <2>9. oc' \in OcStates
    BY <1>1, <2>4, <2>5, <2>8 DEF OcStates
  <2>10. oc'.store = st /\ oc'.file = oc.file /\ oc'.lock = oc.lock /\ oc'.run = run2 /\ oc'.published = oc.published
         /\ oc'.dropped = oc.dropped /\ oc'.next = n
    BY <1>1, <2>4 DEF OcStates
  <2>11. \A q \in OcRuns : q # r => oc.run[q].pc = "idle"
    BY <1>1, <1>4 DEF OcHolder
  <2>12. OcHolder'
    BY <1>4, <2>5, <2>7, <2>8, <2>10, <2>11 DEF OcHolder
  <2>13. OcAgree'
    BY <2>2, <2>10 DEF OcAgree, st
  <2>14. OcKept(oc.store, oc.file, oc.published, oc.dropped) /\ oc.next # 0
    BY DEF OcInv
  <2>15. \A p \in imp : p \notin oc.dropped
    BY <2>2, <2>14 DEF OcKept
  <2>16. OcKept(st, oc.file, oc.published, oc.dropped)
    BY <2>14, <2>15 DEF OcKept, st
  <2> QED BY <2>0, <2>9, <2>10, <2>12, <2>13, <2>16 DEF OcInv
<1> QED BY <1>5, <1>6

LEMMA WriteClientsStep == ASSUME OcInv, NEW r \in OcRuns, write_clients(r) PROVE OcInv'
<1> DEFINE new == oc.run[r].clients
           left == {p \in oc.file \ oc.store : \A n \in new : ~(n.id = p.id /\ n.owner = p.owner)}
           pub == oc.published \cup new
           gone == oc.dropped \cup left
           s == [oc EXCEPT !.file = new, !.published = pub, !.dropped = gone]
<1>1. /\ oc \in OcStates /\ oc.run[r] \in OcRunStates /\ oc.run[r].pc = "clients" /\ OcHolder /\ OcAgree
      /\ OcKept(oc.store, oc.file, oc.published, oc.dropped)
  BY DEF OcInv, OcStates, write_clients
<1>2. oc' = Unlocked(r, s)
  BY <1>1 DEF write_clients, OcStates
<1>3. new \subseteq oc.store /\ oc.store \in SUBSET OcEntries /\ oc.file \in SUBSET OcEntries
      /\ oc.published \in SUBSET OcEntries /\ oc.dropped \in SUBSET OcEntries
  BY <1>1 DEF OcHolder, OcStates
\* What the new list leaves out is in the store, or loses its secret.
<1>4. \A p \in oc.file : p \in oc.store \/ p \in left
  <2> SUFFICES ASSUME NEW p \in oc.file, NEW n \in new, n.id = p.id, n.owner = p.owner PROVE p \in oc.store
    OBVIOUS
  <2>1. n \in oc.store /\ n.secret = p.secret
    BY <1>1, <1>3 DEF OcAgree, SameClient
  <2>2. n \in OcEntries /\ p \in OcEntries
    BY <1>3, <2>1
  <2>3. n = p
    BY <2>1, <2>2 DEF OcEntries
  <2> QED BY <2>1, <2>3
<1>5. left \subseteq oc.file /\ left \cap oc.store = {}
  OBVIOUS
<1> HIDE DEF left
<1>6. OcKept(oc.store, new, pub, gone)
  BY <1>1, <1>3, <1>4, <1>5 DEF OcKept
<1>7. pub \in SUBSET OcEntries /\ gone \in SUBSET OcEntries /\ new \in SUBSET OcEntries
  BY <1>3, <1>5
<1> HIDE DEF pub, new, gone
<1>8. s \in OcStates
  BY <1>1, <1>7 DEF OcStates
<1>9. s.run = oc.run /\ s.store = oc.store /\ s.file = new /\ s.published = pub /\ s.dropped = gone /\ s.next = oc.next
  BY <1>1 DEF OcStates
<1> HIDE DEF s
<1> QED BY <1>1, <1>2, <1>3, <1>6, <1>8, <1>9, UnlockedStep

LEMMA OcInitInv == OcInit => OcInv
<1> SUFFICES ASSUME OcInit PROVE OcInv
  OBVIOUS
<1>1. PICK legacy \in {{}} \cup {{[id |-> i, owner |-> AutoOwner, secret |-> 0]} : i \in OcIds} :
        oc = [cfg |-> [vms |-> OcIds, routes |-> {}, claim |-> NoOc], edits |-> 0,
              store |-> {}, file |-> legacy, lock |-> NoOc,
              run |-> [r \in OcRuns |-> RunIdle], next |-> 1, published |-> legacy, dropped |-> {}]
  BY DEF OcInit
<1>2. legacy \in SUBSET OcEntries /\ (\A p, q \in legacy : p = q) /\ \A p \in legacy : p.secret = 0
  BY DEF OcEntries, OcOwners
<1>3. [vms |-> OcIds, routes |-> {}, claim |-> NoOc] \in OcConfigs
  BY DEF OcConfigs
<1> DEFINE run2 == [r \in OcRuns |-> RunIdle]
<1>4. run2 \in [OcRuns -> OcRunStates] /\ \A r \in OcRuns : run2[r].pc = "idle"
  BY RunIdleType
<1> HIDE DEF run2
<1>5. oc \in OcStates
  BY <1>1, <1>2, <1>3, <1>4 DEF OcStates, run2
<1>6. oc.run = run2 /\ oc.store = {} /\ oc.file = legacy /\ oc.published = legacy /\ oc.dropped = {} /\ oc.next # 0
  BY <1>1 DEF run2
<1>7. OcHolder
  BY <1>4, <1>6 DEF OcHolder
<1>8. OcAgree
  BY <1>2, <1>6 DEF OcAgree
<1>9. OcKept(oc.store, oc.file, oc.published, oc.dropped)
  BY <1>2, <1>6 DEF OcKept
<1> QED BY <1>5, <1>6, <1>7, <1>8, <1>9 DEF OcInv

LEMMA OcInvStep == OcInv /\ [OcNext]_oc => OcInv'
<1> SUFFICES ASSUME OcInv, [OcNext]_oc PROVE OcInv'
  OBVIOUS
<1>1. CASE OcEdit
  BY <1>1, OcEditStep
<1>2. ASSUME NEW r \in OcRuns, locked(r) \/ auto_clients(r) \/ oidc_client(r) \/ write_clients(r) PROVE OcInv'
  BY <1>2, LockedStep, AutoClientsStep, OidcClientStep, WriteClientsStep
<1>3. ASSUME NEW r \in OcRuns, oidc_killed(r) PROVE OcInv'
  BY <1>3, UnlockedStep DEF oidc_killed, OcInv
<1>4. CASE UNCHANGED oc
  BY <1>4 DEF OcInv, OcHolder, OcAgree
<1> QED BY <1>1, <1>2, <1>3, <1>4 DEF OcNext

\* For any number of runs, clients, edits and kills: no client's secret ever
\* changes once it was published, but for a client of the list of before the
\* store that the first run with the store leaves out (get_or_import under the
\* lock, and the list it rebuilds).
THEOREM SecretsAreKept == OcSpec => []SecretsNeverChange
<1>1. OcInv => SecretsNeverChange
  BY DEF OcInv, OcAgree, OcKept, SameClient, SecretsNeverChange
<1> QED BY OcInitInv, OcInvStep, <1>1, PTL DEF OcSpec

-----------------------------------------------------------------------------
(* The certificate authority.                                              *)

CaVals       == CaKeys \cup CaRoots \cup CaLeaves
CaFileSets   == [FileNames -> CaVals]
CaClis       == [op : {"none", "init", "mint"}, todo : Seq(FileNames \cup {"leaf"}), new : CaFileSets]
CaStagers    == [pc : {"idle", "read", "derive", "inventory", "recheck", "publish", "done"}, i : Nat, paths : {<<>>, RootFiles, AllFiles},
                 snap : CaFileSets]
CaCandidates == [paths : {<<>>, RootFiles, AllFiles}, snap : CaFileSets] \cup {NoCa}
CaStates     == [f : CaFileSets, next : Nat, cli : CaClis, st : CaStagers, seen : SUBSET CaFileSets, candidate : CaCandidates]

CertFiles == {"cert", "trust", "leafCert"}

\* What a file holds was made before number n was given out.
Dated(m, v, n) ==
  v = NoCa \/ IF m \in CertFiles THEN v \in CaRoots \cup CaLeaves /\ v.id < n ELSE v \in Nat /\ v < n
AllDated(f, n) == \A m \in FileNames : Dated(m, f[m], n)

\* A command writes each file once, and never what was in it or in a
\* snapshot before: an old content does not come back.
NeverBack(c, f, snap) ==
  /\ \A j, k \in 1 .. Len(c.todo) : c.todo[j] = c.todo[k] => j = k
  /\ \A j \in 1 .. Len(c.todo) : c.todo[j] # "leaf" =>
       c.new[c.todo[j]] # NoCa /\ c.new[c.todo[j]] # f[c.todo[j]] /\ c.new[c.todo[j]] # snap[c.todo[j]]

InRange(s) ==
  /\ s.pc # "idle" => s.paths \in {RootFiles, AllFiles}
  /\ s.pc \in {"read", "recheck"} => s.i \in 1 .. Len(s.paths)

Settled == {"inventory", "recheck", "publish"}

\* The files f0 of the instant when the candidate was derived: a source whose
\* content was not the snapshot's then has not had it since, and those
\* that were read again had it.
DerivedFrom(s, f, f0) ==
  \A j \in 1 .. Len(s.paths) :
    /\ f0[s.paths[j]] = s.snap[s.paths[j]] \/ f[s.paths[j]] # s.snap[s.paths[j]]
    /\ (s.pc = "recheck" /\ j < s.i) \/ s.pc = "publish" => f0[s.paths[j]] = s.snap[s.paths[j]]
Derived(s, f, seen) == s.pc \in Settled => \E f0 \in seen : DerivedFrom(s, f, f0)

CaInv ==
  /\ ca \in CaStates
  /\ AllDated(ca.f, ca.next) /\ AllDated(ca.st.snap, ca.next) /\ AllDated(ca.cli.new, ca.next)
  /\ NeverBack(ca.cli, ca.f, ca.st.snap)
  /\ InRange(ca.st)
  /\ Derived(ca.st, ca.f, ca.seen)

LEMMA Files == FileNames = {"cert", "key", "fp", "trust", "leafCert", "leafKey", "meta"}
BY DEF FileNames, AllFiles, RootFiles

LEMMA PathNames == ASSUME NEW s \in CaStagers, InRange(s), s.pc # "idle"
                   PROVE  Len(s.paths) \in Nat /\ \A j \in 1 .. Len(s.paths) : s.paths[j] \in FileNames
<1>1. CASE s.paths = RootFiles
  BY <1>1, Files DEF RootFiles
<1>2. CASE s.paths = AllFiles
  BY <1>2, Files DEF RootFiles, AllFiles
<1> QED BY <1>1, <1>2 DEF InRange

LEMMA DatedLater == ASSUME NEW m, NEW v, NEW n \in Nat, NEW k \in Nat, n <= k, Dated(m, v, n) PROVE Dated(m, v, k)
<1>1. \A x \in Nat : x < n => x < k
  OBVIOUS
<1>2. \A x \in CaRoots \cup CaLeaves : x.id \in Nat
  BY DEF CaRoots, CaLeaves
<1> QED BY <1>1, <1>2 DEF Dated

\* A number that is given out is in no file yet.
LEMMA NewKeyDiffers ==
  ASSUME NEW m \in FileNames \ CertFiles, NEW n \in Nat
  PROVE  n # NoCa /\ Dated(m, n, n + 1) /\ \A v : Dated(m, v, n) => n # v
BY CertsAssumption DEF Dated

LEMMA NewCertDiffers ==
  ASSUME NEW m \in CertFiles, NEW n \in Nat, NEW c \in CaRoots \cup CaLeaves, c.id = n
  PROVE  c # NoCa /\ Dated(m, c, n + 1) /\ \A v : Dated(m, v, n) => c # v
BY CertsAssumption DEF Dated

\* Steps of a command that only plan what to write.
LEMMA Plans ==
  ASSUME CaInv, NEW n \in Nat, ca.next <= n, NEW c \in CaClis, ca' = [ca EXCEPT !.next = n, !.cli = c],
         AllDated(c.new, n), NeverBack(c, ca.f, ca.st.snap)
  PROVE  CaInv'
<1>1. ca \in CaStates
  BY DEF CaInv
<1>2. ca' \in CaStates
  BY <1>1 DEF CaStates
<1>3. ca'.f = ca.f /\ ca'.next = n /\ ca'.cli = c /\ ca'.st = ca.st /\ ca'.seen = ca.seen
  BY <1>1 DEF CaStates
<1>4. ca.next \in Nat
  BY <1>1 DEF CaStates
<1>5. AllDated(ca.f, n) /\ AllDated(ca.st.snap, n)
  BY <1>4, DatedLater DEF CaInv, AllDated
<1> QED BY <1>2, <1>3, <1>5 DEF CaInv

LEMMA KilledStep == ASSUME CaInv, certs_killed PROVE CaInv'
<1> DEFINE c == [ca.cli EXCEPT !.todo = <<>>]
<1>1. ca \in CaStates /\ ca.cli \in CaClis /\ ca.next \in Nat
  BY DEF CaInv, CaStates
<1>2. ca' = [ca EXCEPT !.next = ca.next, !.cli = c]
  BY <1>1 DEF certs_killed, CaStates
<1>3. <<>> \in Seq(FileNames \cup {"leaf"})
  OBVIOUS
<1>4. c \in CaClis /\ c.todo = <<>> /\ c.new = ca.cli.new
  BY <1>1, <1>3 DEF CaClis
<1> HIDE DEF c
<1>5. NeverBack(c, ca.f, ca.st.snap)
  BY <1>4 DEF NeverBack
<1>6. AllDated(c.new, ca.next) /\ ca.next <= ca.next
  BY <1>1, <1>4 DEF CaInv
<1> QED BY <1>1, <1>2, <1>4, <1>5, <1>6, Plans

\* What ensure_ca plans for a new authority.
LEMMA NewCaStep ==
  ASSUME CaInv, NEW op \in {"init", "mint"}, NEW tail \in {<<>>, <<"leaf">>}, NEW new,
         new = [ca.f EXCEPT !.key = ca.next, !.cert = [id |-> ca.next, key |-> ca.next, strict |-> TRUE], !.fp = ca.next,
                            !.trust = [id |-> ca.next, key |-> ca.next, strict |-> TRUE]],
         ca' = [ca EXCEPT !.next = ca.next + 1, !.cli = Writing(op, <<"key", "cert", "fp", "trust">> \o tail, new)]
  PROVE  CaInv'
<1> DEFINE n == ca.next
           root == [id |-> n, key |-> n, strict |-> TRUE]
           todo == <<"key", "cert", "fp", "trust">> \o tail
           c == Writing(op, todo, new)
<1>1. ca \in CaStates /\ n \in Nat /\ ca.f \in CaFileSets /\ AllDated(ca.f, n) /\ AllDated(ca.st.snap, n)
  BY DEF CaInv, CaStates
<1>2. root \in CaRoots /\ root.id = n
  BY <1>1 DEF CaRoots, CaKeys
<1>3. n \in CaVals /\ root \in CaVals
  BY <1>1, <1>2 DEF CaVals, CaKeys
<1>4. new = [ca.f EXCEPT !["key"] = n, !["cert"] = root, !["fp"] = n, !["trust"] = root]
  OBVIOUS
<1> HIDE DEF root
<1>5. /\ new \in CaFileSets /\ new["key"] = n /\ new["cert"] = root /\ new["fp"] = n /\ new["trust"] = root
      /\ \A m \in {"leafCert", "leafKey", "meta"} : new[m] = ca.f[m]
  <2> DEFINE a == [ca.f EXCEPT !["key"] = n]
             b == [a EXCEPT !["cert"] = root]
             d == [b EXCEPT !["fp"] = n]
  <2>1. a \in CaFileSets /\ a["key"] = n /\ \A m \in FileNames : m # "key" => a[m] = ca.f[m]
    BY <1>1, <1>3, Files DEF CaFileSets
  <2> HIDE DEF a
  <2>2. b \in CaFileSets /\ b["cert"] = root /\ \A m \in FileNames : m # "cert" => b[m] = a[m]
    BY <1>3, <2>1, Files DEF CaFileSets
  <2> HIDE DEF b
  <2>3. d \in CaFileSets /\ d["fp"] = n /\ \A m \in FileNames : m # "fp" => d[m] = b[m]
    BY <1>3, <2>2, Files DEF CaFileSets
  <2> HIDE DEF d
  <2>4. new = [d EXCEPT !["trust"] = root]
    BY <1>4 DEF a, b, d
  <2>5. new \in CaFileSets /\ new["trust"] = root /\ \A m \in FileNames : m # "trust" => new[m] = d[m]
    BY <1>3, <2>3, <2>4, Files DEF CaFileSets
  <2> QED BY <2>1, <2>2, <2>3, <2>5, Files
<1>6. n + 1 \in Nat /\ n <= n + 1
  BY <1>1
<1>7. /\ {"key", "fp"} \subseteq FileNames \ CertFiles /\ {"cert", "trust"} \subseteq CertFiles
      /\ {"key", "fp", "cert", "trust"} \subseteq FileNames
  BY Files DEF CertFiles
<1>8. \A m \in {"key", "cert", "fp", "trust"} : /\ Dated(m, new[m], n + 1) /\ new[m] # NoCa
                                                /\ \A v : Dated(m, v, n) => new[m] # v
  <2>1. \A m \in {"key", "fp"} : n # NoCa /\ Dated(m, n, n + 1) /\ \A v : Dated(m, v, n) => n # v
    BY <1>1, <1>7, NewKeyDiffers
  <2>2. \A m \in {"cert", "trust"} : root # NoCa /\ Dated(m, root, n + 1) /\ \A v : Dated(m, v, n) => root # v
    BY <1>1, <1>2, <1>7, NewCertDiffers
  <2> QED BY <1>5, <2>1, <2>2
<1>9. AllDated(new, n + 1)
  <2>1. \A m \in FileNames : Dated(m, ca.f[m], n + 1)
    BY <1>1, <1>6, DatedLater DEF AllDated
  <2> QED BY <1>5, <1>8, <2>1, Files DEF AllDated
<1>10. \A m \in {"key", "cert", "fp", "trust"} : new[m] # NoCa /\ new[m] # ca.f[m] /\ new[m] # ca.st.snap[m]
  BY <1>1, <1>7, <1>8 DEF AllDated
<1>11. /\ todo \in Seq(FileNames \cup {"leaf"}) /\ Len(todo) \in {4, 5}
       /\ todo[1] = "key" /\ todo[2] = "cert" /\ todo[3] = "fp" /\ todo[4] = "trust" /\ (Len(todo) = 5 => todo[5] = "leaf")
  <2>1. CASE tail = <<>>
    BY <2>1, <1>7
  <2>2. CASE tail = <<"leaf">>
    BY <2>2, <1>7
  <2> QED BY <2>1, <2>2
<1> HIDE DEF todo
<1>12. c \in CaClis /\ c.todo = todo /\ c.new = new
  BY <1>5, <1>11 DEF Writing, CaClis
<1>13. ca' = [ca EXCEPT !.next = n + 1, !.cli = c]
  BY DEF todo
<1> HIDE DEF c
<1>14. NeverBack(c, ca.f, ca.st.snap)
  <2>1. \A j \in 1 .. Len(todo) : todo[j] # "leaf" => todo[j] \in {"key", "cert", "fp", "trust"}
    BY <1>11
  <2>2. \A j, k \in 1 .. Len(todo) : todo[j] = todo[k] => j = k
    BY <1>11
  <2> QED BY <1>10, <1>12, <2>1, <2>2 DEF NeverBack
<1> HIDE DEF n
<1>15. n + 1 \in Nat /\ ca.next <= n + 1
  BY <1>1, <1>6 DEF n
<1>16. AllDated(c.new, n + 1)
  BY <1>9, <1>12
<1> QED BY <1>12, <1>13, <1>14, <1>15, <1>16, Plans

LEMMA EnsureCaStep == ASSUME CaInv, NEW op \in {"init", "mint"}, NEW force \in BOOLEAN, ensure_ca(op, force) PROVE CaInv'
<1> DEFINE f == ca.f
           n == ca.next
           root == [id |-> n, key |-> n, strict |-> TRUE]
<1>1. ca \in CaStates /\ n \in Nat /\ f \in CaFileSets /\ AllDated(f, n)
  BY DEF CaInv, CaStates
<1>2. CASE op = "mint" /\ ca' = [ca EXCEPT !.cli = Writing("mint", <<"leaf">>, f)]
  <2> DEFINE c == Writing("mint", <<"leaf">>, f)
  <2>1. <<"leaf">> \in Seq(FileNames \cup {"leaf"})
    OBVIOUS
  <2>2. c \in CaClis /\ c.todo = <<"leaf">> /\ c.new = f
    BY <1>1, <2>1 DEF Writing, CaClis
  <2>3. ca' = [ca EXCEPT !.next = n, !.cli = c]
    BY <1>1, <1>2 DEF CaStates
  <2> HIDE DEF c
  <2>4. NeverBack(c, ca.f, ca.st.snap)
    <3>1. \A j \in 1 .. Len(c.todo) : j = 1 /\ c.todo[j] = "leaf"
      BY <2>2
    <3> QED BY <3>1 DEF NeverBack
  <2>5. AllDated(c.new, n) /\ ca.next <= n
    BY <1>1, <2>2
  <2> QED BY <1>1, <2>2, <2>3, <2>4, <2>5, Plans
<1>3. CASE ca' = [ca EXCEPT !.next = n + 1,
                    !.cli = Writing(op, <<"key", "cert", "fp", "trust">> \o (IF op = "mint" THEN <<"leaf">> ELSE <<>>),
                                    [f EXCEPT !.key = n, !.cert = root, !.fp = n, !.trust = root])]
  <2> DEFINE tail == IF op = "mint" THEN <<"leaf">> ELSE <<>>
             new == [f EXCEPT !.key = n, !.cert = root, !.fp = n, !.trust = root]
  <2>1. tail \in {<<>>, <<"leaf">>}
    OBVIOUS
  <2>2. ca' = [ca EXCEPT !.next = ca.next + 1, !.cli = Writing(op, <<"key", "cert", "fp", "trust">> \o tail, new)]
    BY <1>3
  <2> HIDE DEF tail
  <2> QED BY <2>1, <2>2, NewCaStep
<1> QED BY <1>2, <1>3 DEF ensure_ca

\* What mint_leaf plans: a certificate, and a key where there was none.
LEMMA NewLeafStep ==
  ASSUME CaInv, NEW head \in {<<>>, <<"leafKey">>}, NEW key, key = IF head = <<>> THEN ca.f.leafKey ELSE ca.next, NEW new,
         new = [ca.f EXCEPT !.leafKey = key, !.leafCert = [id |-> ca.next, key |-> key, root |-> ca.f.key, strict |-> TRUE], !.meta = ca.next],
         ca' = [ca EXCEPT !.next = ca.next + 1, !.cli = Writing("mint", head \o <<"leafCert", "meta">>, new)]
  PROVE  CaInv'
<1> DEFINE n == ca.next
           cert == [id |-> n, key |-> key, root |-> ca.f.key, strict |-> TRUE]
           todo == head \o <<"leafCert", "meta">>
           c == Writing("mint", todo, new)
<1>1. ca \in CaStates /\ n \in Nat /\ ca.f \in CaFileSets /\ AllDated(ca.f, n) /\ AllDated(ca.st.snap, n)
  BY DEF CaInv, CaStates
<1>2. ca.f["key"] \in CaKeys /\ ca.f["leafKey"] \in CaKeys
  BY <1>1, Files DEF AllDated, Dated, CaKeys, CertFiles
<1>3. key \in CaKeys
  BY <1>1, <1>2 DEF CaKeys
<1>4. cert \in CaLeaves /\ cert.id = n
  BY <1>1, <1>2, <1>3 DEF CaLeaves
<1>5. n \in CaVals /\ cert \in CaVals /\ key \in CaVals
  BY <1>1, <1>3, <1>4 DEF CaVals, CaKeys
<1>6. new = [ca.f EXCEPT !["leafKey"] = key, !["leafCert"] = cert, !["meta"] = n]
  OBVIOUS
<1> HIDE DEF cert
<1>7. /\ new \in CaFileSets /\ new["leafKey"] = key /\ new["leafCert"] = cert /\ new["meta"] = n
      /\ \A m \in {"cert", "key", "fp", "trust"} : new[m] = ca.f[m]
  <2> DEFINE a == [ca.f EXCEPT !["leafKey"] = key]
             b == [a EXCEPT !["leafCert"] = cert]
  <2>1. a \in CaFileSets /\ a["leafKey"] = key /\ \A m \in FileNames : m # "leafKey" => a[m] = ca.f[m]
    BY <1>1, <1>5, Files DEF CaFileSets
  <2> HIDE DEF a
  <2>2. b \in CaFileSets /\ b["leafCert"] = cert /\ \A m \in FileNames : m # "leafCert" => b[m] = a[m]
    BY <1>5, <2>1, Files DEF CaFileSets
  <2> HIDE DEF b
  <2>3. new = [b EXCEPT !["meta"] = n]
    BY <1>6 DEF a, b
  <2>4. new \in CaFileSets /\ new["meta"] = n /\ \A m \in FileNames : m # "meta" => new[m] = b[m]
    BY <1>5, <2>2, <2>3, Files DEF CaFileSets
  <2> QED BY <2>1, <2>2, <2>4, Files
<1>8. n + 1 \in Nat /\ n <= n + 1
  BY <1>1
<1>9. {"leafKey", "meta"} \subseteq FileNames \ CertFiles /\ "leafCert" \in CertFiles /\ {"leafKey", "meta", "leafCert"} \subseteq FileNames
  BY Files DEF CertFiles
<1>10. n # NoCa /\ \A m \in {"leafKey", "meta"} : Dated(m, n, n + 1) /\ \A v : Dated(m, v, n) => n # v
  BY <1>1, <1>9, NewKeyDiffers
<1>11. cert # NoCa /\ Dated("leafCert", cert, n + 1) /\ \A v : Dated("leafCert", v, n) => cert # v
  BY <1>1, <1>4, <1>9, NewCertDiffers
<1>12. AllDated(new, n + 1)
  <2>1. \A m \in FileNames : Dated(m, ca.f[m], n + 1)
    BY <1>1, <1>8, DatedLater DEF AllDated
  <2>2. Dated("leafKey", key, n + 1)
    BY <1>9, <1>10, <2>1
  <2> QED BY <1>7, <1>10, <1>11, <2>1, <2>2, Files DEF AllDated
<1>13. \A m \in {"leafCert", "meta"} : new[m] # NoCa /\ new[m] # ca.f[m] /\ new[m] # ca.st.snap[m]
  BY <1>1, <1>7, <1>9, <1>10, <1>11 DEF AllDated
<1>14. head # <<>> => new["leafKey"] # NoCa /\ new["leafKey"] # ca.f["leafKey"] /\ new["leafKey"] # ca.st.snap["leafKey"]
  BY <1>1, <1>7, <1>9, <1>10 DEF AllDated
<1>15. /\ todo \in Seq(FileNames \cup {"leaf"})
       /\ \A j, k \in 1 .. Len(todo) : todo[j] = todo[k] => j = k
       /\ \A j \in 1 .. Len(todo) : todo[j] \in {"leafCert", "meta"} \/ (todo[j] = "leafKey" /\ head # <<>>)
  <2>1. CASE head = <<>>
    BY <2>1, <1>9
  <2>2. CASE head = <<"leafKey">>
    BY <2>2, <1>9
  <2> QED BY <2>1, <2>2
<1> HIDE DEF todo
<1>16. c \in CaClis /\ c.todo = todo /\ c.new = new
  BY <1>7, <1>15 DEF Writing, CaClis
<1>17. ca' = [ca EXCEPT !.next = n + 1, !.cli = c]
  BY DEF todo
<1> HIDE DEF c
<1>18. NeverBack(c, ca.f, ca.st.snap)
  BY <1>13, <1>14, <1>15, <1>16 DEF NeverBack
<1> HIDE DEF n
<1>19. n + 1 \in Nat /\ ca.next <= n + 1
  BY <1>1, <1>8 DEF n
<1>20. AllDated(c.new, n + 1)
  BY <1>12, <1>16
<1> QED BY <1>16, <1>17, <1>18, <1>19, <1>20, Plans

LEMMA MintLeafStep == ASSUME CaInv, mint_leaf PROVE CaInv'
<1> DEFINE f == ca.f
           n == ca.next
           pair == read_pair(f, "leafCert", "leafKey")
           key == IF pair = "pair" THEN f.leafKey ELSE n
           cert == [id |-> n, key |-> key, root |-> f.key, strict |-> TRUE]
           head == IF pair = "none" THEN <<"leafKey">> ELSE <<>>
<1>1. ca \in CaStates
  BY DEF CaInv
<1>2. CASE ca' = [ca EXCEPT !.cli.todo = <<>>]
  <2> DEFINE c == [ca.cli EXCEPT !.todo = <<>>]
  <2>1. ca.cli \in CaClis /\ ca.next \in Nat
    BY <1>1 DEF CaStates
  <2>2. ca' = [ca EXCEPT !.next = ca.next, !.cli = c]
    BY <1>1, <1>2 DEF CaStates
  <2>3. <<>> \in Seq(FileNames \cup {"leaf"})
    OBVIOUS
  <2>4. c \in CaClis /\ c.todo = <<>> /\ c.new = ca.cli.new
    BY <2>1, <2>3 DEF CaClis
  <2> HIDE DEF c
  <2>5. NeverBack(c, ca.f, ca.st.snap)
    BY <2>4 DEF NeverBack
  <2>6. AllDated(c.new, ca.next) /\ ca.next <= ca.next
    BY <2>1, <2>4 DEF CaInv
  <2> QED BY <2>1, <2>2, <2>4, <2>5, <2>6, Plans
<1>3. CASE /\ pair # "half"
           /\ ca' = [ca EXCEPT !.next = n + 1,
                        !.cli = Writing("mint", (IF pair = "none" THEN <<"leafKey">> ELSE <<>>) \o <<"leafCert", "meta">>,
                                        [f EXCEPT !.leafKey = key, !.leafCert = cert, !.meta = n])]
  <2>1. pair \in {"none", "pair", "half"}
    <3>1. CASE f["leafCert"] = NoCa /\ f["leafKey"] = NoCa
      BY <3>1 DEF read_pair
    <3>2. CASE f["leafCert"] # NoCa /\ f["leafKey"] # NoCa
      BY <3>2 DEF read_pair
    <3>3. CASE ~(f["leafCert"] = NoCa /\ f["leafKey"] = NoCa) /\ ~(f["leafCert"] # NoCa /\ f["leafKey"] # NoCa)
      BY <3>3 DEF read_pair
    <3> QED BY <3>1, <3>2, <3>3
  <2> HIDE DEF pair
  <2>2. head \in {<<>>, <<"leafKey">>} /\ (head = <<>> <=> pair # "none")
    OBVIOUS
  <2>3. key = IF head = <<>> THEN ca.f.leafKey ELSE ca.next
    BY <1>3, <2>1, <2>2
  <2> DEFINE new == [ca.f EXCEPT !.leafKey = key, !.leafCert = [id |-> ca.next, key |-> key, root |-> ca.f.key, strict |-> TRUE], !.meta = ca.next]
  <2>4. ca' = [ca EXCEPT !.next = ca.next + 1, !.cli = Writing("mint", head \o <<"leafCert", "meta">>, new)]
    BY <1>3
  <2> HIDE DEF head, key
  <2> QED BY <2>2, <2>3, <2>4, NewLeafStep
<1> QED BY <1>2, <1>3 DEF mint_leaf

\* One file is replaced by what the command made for it.
LEMMA AtomicWriteStep == ASSUME CaInv, atomic_write PROVE CaInv'
<1> DEFINE todo == ca.cli.todo
           n == Head(todo)
           g == [ca.f EXCEPT ![n] = ca.cli.new[n]]
           c == [ca.cli EXCEPT !.todo = Tail(todo)]
           w == IF ca.st.pc \in Settled THEN ca.seen \cup {g} ELSE {}
<1>1. ca \in CaStates /\ NeverBack(ca.cli, ca.f, ca.st.snap) /\ InRange(ca.st) /\ Derived(ca.st, ca.f, ca.seen)
  BY DEF CaInv
<1>2. ca.f \in CaFileSets /\ ca.cli \in CaClis /\ ca.st \in CaStagers /\ ca.seen \in SUBSET CaFileSets
  BY <1>1 DEF CaStates
<1>3. todo \in Seq(FileNames \cup {"leaf"}) /\ ca.cli.new \in CaFileSets
  BY <1>2 DEF CaClis
<1>4. todo # <<>> /\ n # "leaf"
  BY DEF atomic_write
<1>5. n \in FileNames /\ n = todo[1] /\ 1 \in 1 .. Len(todo) /\ Tail(todo) \in Seq(FileNames \cup {"leaf"})
  BY <1>3, <1>4
<1>6. g \in CaFileSets /\ g[n] = ca.cli.new[n] /\ \A m \in FileNames : m # n => g[m] = ca.f[m]
  BY <1>2, <1>3, <1>5 DEF CaFileSets
<1>7. ca' = [ca EXCEPT !.f = g, !.cli = c, !.seen = w]
  <2>1. ca' = Witness([ca EXCEPT !.f = g, !.cli = c])
    BY <1>1 DEF atomic_write, CaStates
  <2> HIDE DEF g, c
  <2>2. [ca EXCEPT !.f = g, !.cli = c].f = g /\ [ca EXCEPT !.f = g, !.cli = c].st = ca.st /\ [ca EXCEPT !.f = g, !.cli = c].seen = ca.seen
    BY <1>1 DEF CaStates
  <2> QED BY <1>1, <2>1, <2>2 DEF Witness, Settled, CaStates
<1>8. c \in CaClis /\ c.todo = Tail(todo) /\ c.new = ca.cli.new
  BY <1>2, <1>5 DEF CaClis
<1>9. w \in SUBSET CaFileSets /\ (ca.st.pc \in Settled => ca.seen \subseteq w)
  BY <1>2, <1>6
<1> HIDE DEF g, c, w
<1>10. ca' \in CaStates
  BY <1>1, <1>6, <1>7, <1>8, <1>9 DEF CaStates
<1>11. ca'.f = g /\ ca'.next = ca.next /\ ca'.cli = c /\ ca'.st = ca.st /\ ca'.seen = w
  BY <1>1, <1>7 DEF CaStates
<1>12. AllDated(g, ca.next)
  BY <1>6 DEF CaInv, AllDated
<1>13. ca.cli.new[n] # ca.st.snap[n]
  BY <1>1, <1>4, <1>5 DEF NeverBack
<1>14. NeverBack(c, g, ca.st.snap)
  <2> DEFINE t == Tail(todo)
  <2>1. Len(t) \in Nat /\ \A j \in 1 .. Len(t) : j + 1 \in 1 .. Len(todo) /\ j + 1 # 1 /\ t[j] = todo[j + 1]
    BY <1>3, <1>4
  <2>2. \A j, k \in 1 .. Len(todo) : todo[j] = todo[k] => j = k
    BY <1>1 DEF NeverBack
  <2>3. \A j \in 1 .. Len(t) : t[j] # n
    BY <1>5, <2>1, <2>2
  <2>4. \A j, k \in 1 .. Len(t) : t[j] = t[k] => j = k
    <3> SUFFICES ASSUME NEW j \in 1 .. Len(t), NEW k \in 1 .. Len(t), t[j] = t[k] PROVE j = k
      OBVIOUS
    <3>1. j + 1 = k + 1
      BY <2>1, <2>2
    <3> QED BY <2>1, <3>1
  <2>5. \A j \in 1 .. Len(t) : t[j] # "leaf" =>
          t[j] \in FileNames /\ ca.cli.new[t[j]] # NoCa /\ ca.cli.new[t[j]] # ca.f[t[j]] /\ ca.cli.new[t[j]] # ca.st.snap[t[j]]
    <3> SUFFICES ASSUME NEW j \in 1 .. Len(t), t[j] # "leaf"
                 PROVE  t[j] \in FileNames /\ ca.cli.new[t[j]] # NoCa /\ ca.cli.new[t[j]] # ca.f[t[j]] /\ ca.cli.new[t[j]] # ca.st.snap[t[j]]
      OBVIOUS
    <3>1. PICK k \in 1 .. Len(todo) : t[j] = todo[k]
      BY <2>1
    <3>2. todo[k] \in FileNames \cup {"leaf"}
      BY <1>3, <3>1
    <3> QED BY <1>1, <3>1, <3>2 DEF NeverBack
  <2> HIDE DEF t
  <2>6. c.todo = t /\ c.new = ca.cli.new
    BY <1>8 DEF t
  <2> QED BY <1>6, <2>3, <2>4, <2>5, <2>6 DEF NeverBack
<1>15. Derived(ca.st, g, w)
  <2> SUFFICES ASSUME ca.st.pc \in Settled PROVE \E f0 \in w : DerivedFrom(ca.st, g, f0)
    BY DEF Derived
  <2>1. PICK f0 \in ca.seen : DerivedFrom(ca.st, ca.f, f0)
    BY <1>1 DEF Derived
  <2>2. f0 \in w
    BY <1>9
  <2>3. \A j \in 1 .. Len(ca.st.paths) : ca.st.paths[j] \in FileNames
    BY <1>1, <1>2, PathNames DEF Settled
  <2>4. DerivedFrom(ca.st, g, f0)
    BY <1>6, <1>13, <2>1, <2>3 DEF DerivedFrom
  <2> QED BY <2>2, <2>4
<1> QED BY <1>1, <1>8, <1>10, <1>11, <1>12, <1>14, <1>15 DEF CaInv
-----------------------------------------------------------------------------
(* The staging of a candidate.                                             *)

SeenAfter(s) == IF s.pc \in Settled THEN ca.seen \cup {ca.f} ELSE {}

LEMMA WitnessOf ==
  ASSUME CaInv, NEW s \in CaStagers, ca' = Witness([ca EXCEPT !.st = s])
  PROVE  ca' = [ca EXCEPT !.st = s, !.seen = SeenAfter(s), !.candidate = ca.candidate] /\ SeenAfter(s) \in SUBSET CaFileSets
<1>1. ca \in CaStates /\ ca.f \in CaFileSets /\ ca.seen \in SUBSET CaFileSets
  BY DEF CaInv, CaStates
<1>2. [ca EXCEPT !.st = s].f = ca.f /\ [ca EXCEPT !.st = s].st = s /\ [ca EXCEPT !.st = s].seen = ca.seen
  BY <1>1 DEF CaStates
<1>3. ca' = [[ca EXCEPT !.st = s] EXCEPT !.seen = SeenAfter(s)]
  BY <1>1, <1>2 DEF Witness, SeenAfter, Settled, CaStates
<1>4. SeenAfter(s) \in SUBSET CaFileSets
  BY <1>1 DEF SeenAfter
<1> QED BY <1>1, <1>3, <1>4 DEF CaStates

\* A step of the stager: what it has read is what is or was in the file.
LEMMA Stages ==
  ASSUME CaInv, NEW s \in CaStagers, NEW w \in SUBSET CaFileSets, NEW k \in CaCandidates,
         ca' = [ca EXCEPT !.st = s, !.seen = w, !.candidate = k],
         \A m \in FileNames : s.snap[m] \in {NoCa, ca.st.snap[m], ca.f[m]}, InRange(s), Derived(s, ca.f, w)
  PROVE  CaInv'
<1>1. ca \in CaStates
  BY DEF CaInv
<1>2. ca' \in CaStates
  BY <1>1 DEF CaStates
<1>3. ca'.f = ca.f /\ ca'.next = ca.next /\ ca'.cli = ca.cli /\ ca'.st = s /\ ca'.seen = w
  BY <1>1 DEF CaStates
<1>4. AllDated(s.snap, ca.next)
  BY DEF CaInv, AllDated, Dated
<1>5. NeverBack(ca.cli, ca.f, s.snap)
  <2>1. ca.cli \in CaClis
    BY <1>1 DEF CaStates
  <2>2. ca.cli.todo \in Seq(FileNames \cup {"leaf"})
    BY <2>1 DEF CaClis
  <2>3. \A j \in 1 .. Len(ca.cli.todo) : ca.cli.todo[j] \in FileNames \cup {"leaf"}
    BY <2>2
  <2> QED BY <2>3 DEF CaInv, NeverBack
<1> QED BY <1>2, <1>3, <1>4, <1>5 DEF CaInv

LEMMA StagerIdleType == StagerIdle \in CaStagers /\ StagerIdle.pc = "idle" /\ \A m \in FileNames : StagerIdle.snap[m] = NoCa
<1> DEFINE none == [n \in FileNames |-> NoCa]
<1>1. none \in CaFileSets /\ \A m \in FileNames : none[m] = NoCa
  BY DEF CaFileSets, CaVals, CaKeys
<1> HIDE DEF none
<1>2. StagerIdle = [pc |-> "idle", i |-> 1, paths |-> <<>>, snap |-> none]
  BY DEF StagerIdle, none
<1> QED BY <1>1, <1>2 DEF CaStagers

LEMMA StageFailsStep == ASSUME CaInv, StageFails PROVE CaInv'
<1>1. ca \in CaStates /\ ca.candidate \in CaCandidates
  BY DEF CaInv, CaStates
<1>2. ca' = [ca EXCEPT !.st = StagerIdle, !.seen = {}, !.candidate = ca.candidate]
  BY <1>1 DEF StageFails, CaStates
<1>3. InRange(StagerIdle) /\ Derived(StagerIdle, ca.f, {})
  BY StagerIdleType DEF InRange, Derived, Settled
<1> QED BY <1>1, <1>2, <1>3, StagerIdleType, Stages

LEMMA InventoryStep == ASSUME CaInv, stage_inventory PROVE CaInv'
<1> DEFINE p == IF LeafListed THEN AllFiles ELSE RootFiles
           s == [StagerIdle EXCEPT !.pc = "read", !.paths = p]
<1>1. ca \in CaStates /\ ca.candidate \in CaCandidates
  BY DEF CaInv, CaStates
<1>2. ca' = Witness([ca EXCEPT !.st = s])
  BY DEF stage_inventory
<1>3. p \in {RootFiles, AllFiles}
  OBVIOUS
<1> HIDE DEF p
<1>4. s \in CaStagers /\ s.pc = "read" /\ s.paths = p /\ s.snap = StagerIdle.snap /\ s.i = 1
  <2>1. StagerIdle.i = 1
    BY DEF StagerIdle
  <2> QED BY <1>3, <2>1, StagerIdleType DEF CaStagers
<1> HIDE DEF s
<1>5. ca' = [ca EXCEPT !.st = s, !.seen = SeenAfter(s), !.candidate = ca.candidate] /\ SeenAfter(s) \in SUBSET CaFileSets
  BY <1>2, <1>4, WitnessOf
<1>6. InRange(s) /\ Derived(s, ca.f, SeenAfter(s))
  <2>1. Len(p) \in Nat /\ 1 <= Len(p)
    BY <1>3 DEF RootFiles, AllFiles
  <2> QED BY <1>3, <1>4, <2>1 DEF InRange, Derived, Settled
<1>7. \A m \in FileNames : s.snap[m] \in {NoCa, ca.st.snap[m], ca.f[m]}
  BY <1>4, StagerIdleType
<1> QED BY <1>1, <1>4, <1>5, <1>6, <1>7, Stages

\* The stager goes on with the same sources and the same snapshot.
LEMMA GoesOn ==
  ASSUME CaInv, NEW pc \in {"inventory", "recheck", "publish"}, NEW i \in Nat, NEW s, s = [ca.st EXCEPT !.pc = pc, !.i = i],
         ca' = Witness([ca EXCEPT !.st = s]), InRange(s), Derived(s, ca.f, SeenAfter(s))
  PROVE  CaInv'
<1>1. ca.st \in CaStagers /\ ca.candidate \in CaCandidates
  BY DEF CaInv, CaStates
<1>2. s \in CaStagers /\ s.snap = ca.st.snap
  BY <1>1 DEF CaStagers
<1>3. ca' = [ca EXCEPT !.st = s, !.seen = SeenAfter(s), !.candidate = ca.candidate] /\ SeenAfter(s) \in SUBSET CaFileSets
  BY <1>2, WitnessOf
<1> QED BY <1>1, <1>2, <1>3, Stages

LEMMA GotoIs ==
  ASSUME CaInv, NEW pc \in {"inventory", "recheck", "publish"}, StageGoto(pc)
  PROVE  LET s == [ca.st EXCEPT !.pc = pc, !.i = 1]
         IN  /\ ca' = Witness([ca EXCEPT !.st = s]) /\ s \in CaStagers
             /\ s.pc = pc /\ s.i = 1 /\ s.paths = ca.st.paths /\ s.snap = ca.st.snap
<1>1. ca \in CaStates /\ ca.st \in CaStagers
  BY DEF CaInv, CaStates
<1>2. [ca EXCEPT !.st.pc = pc, !.st.i = 1] = [ca EXCEPT !.st = [ca.st EXCEPT !.pc = pc, !.i = 1]]
  BY <1>1 DEF CaStates
<1>3. /\ [ca.st EXCEPT !.pc = pc, !.i = 1] \in CaStagers /\ [ca.st EXCEPT !.pc = pc, !.i = 1].pc = pc
      /\ [ca.st EXCEPT !.pc = pc, !.i = 1].i = 1 /\ [ca.st EXCEPT !.pc = pc, !.i = 1].paths = ca.st.paths
      /\ [ca.st EXCEPT !.pc = pc, !.i = 1].snap = ca.st.snap
  BY <1>1 DEF CaStagers
<1> QED BY <1>2, <1>3 DEF StageGoto

LEMMA SnapshotStep == ASSUME CaInv, stage_snapshot PROVE CaInv'
<1> DEFINE n == ca.st.paths[ca.st.i]
           snap2 == [ca.st.snap EXCEPT ![n] = ca.f[n]]
<1>1. ca \in CaStates /\ InRange(ca.st) /\ ca.st.pc = "read"
  BY DEF CaInv, stage_snapshot, Staging
<1>2. ca.st \in CaStagers /\ ca.f \in CaFileSets /\ ca.candidate \in CaCandidates
  BY <1>1 DEF CaStates
<1>3. ca.st.snap \in CaFileSets /\ ca.st.i \in Nat
  BY <1>2 DEF CaStagers
<1>4. ca.st.i \in 1 .. Len(ca.st.paths) /\ n \in FileNames /\ Len(ca.st.paths) \in Nat /\ ca.st.paths \in {RootFiles, AllFiles}
  BY <1>1, <1>2, PathNames DEF InRange
<1>5. snap2 \in CaFileSets /\ \A m \in FileNames : snap2[m] \in {NoCa, ca.st.snap[m], ca.f[m]}
  BY <1>2, <1>3, <1>4 DEF CaFileSets
<1>6. CASE StageFails
  BY <1>6, StageFailsStep
<1>7. ASSUME NEW pc \in {"read", "derive"}, NEW i \in 1 .. Len(ca.st.paths),
             ca' = Witness([ca EXCEPT !.st = [ca.st EXCEPT !.snap = snap2, !.pc = pc, !.i = i]])
      PROVE  CaInv'
  <2> DEFINE s == [ca.st EXCEPT !.snap = snap2, !.pc = pc, !.i = i]
  <2>1. ca' = Witness([ca EXCEPT !.st = s])
    BY <1>7
  <2>2. i \in Nat
    BY <1>4
  <2> HIDE DEF snap2
  <2>3. s \in CaStagers /\ s.snap = snap2 /\ s.pc = pc /\ s.i = i /\ s.paths = ca.st.paths
    BY <1>2, <1>5, <2>2 DEF CaStagers
  <2> HIDE DEF s
  <2>4. ca' = [ca EXCEPT !.st = s, !.seen = SeenAfter(s), !.candidate = ca.candidate] /\ SeenAfter(s) \in SUBSET CaFileSets
    BY <2>1, <2>3, WitnessOf
  <2>5. InRange(s) /\ Derived(s, ca.f, SeenAfter(s))
    BY <1>4, <1>7, <2>3 DEF InRange, Derived, Settled
  <2> QED BY <1>2, <1>5, <2>3, <2>4, <2>5, Stages
<1>8. CASE ca.st.i = Len(ca.st.paths) /\ ca' = Witness([ca EXCEPT !.st.snap[n] = ca.f[n], !.st.pc = "derive", !.st.i = 1])
  <2>1. [ca EXCEPT !.st.snap[n] = ca.f[n], !.st.pc = "derive", !.st.i = 1] = [ca EXCEPT !.st = [ca.st EXCEPT !.snap = snap2, !.pc = "derive", !.i = 1]]
    BY <1>1, <1>2 DEF CaStates, CaStagers
  <2>2. 1 \in 1 .. Len(ca.st.paths)
    BY <1>4
  <2> QED BY <1>7, <1>8, <2>1, <2>2
<1>9. CASE ca.st.i # Len(ca.st.paths) /\ ca' = Witness([ca EXCEPT !.st.snap[n] = ca.f[n], !.st.i = @ + 1])
  <2> DEFINE i == ca.st.i + 1
  <2>1. i \in 1 .. Len(ca.st.paths)
    BY <1>4, <1>9
  <2>2. [ca EXCEPT !.st.snap[n] = ca.f[n], !.st.i = @ + 1] = [ca EXCEPT !.st = [ca.st EXCEPT !.snap = snap2, !.i = i]]
    BY <1>1, <1>2 DEF CaStates, CaStagers
  <2> HIDE DEF i, snap2, n
  <2>3. [ca.st EXCEPT !.snap = snap2, !.i = i] = [ca.st EXCEPT !.snap = snap2, !.pc = "read", !.i = i]
    BY <1>1, <1>2 DEF CaStagers
  <2> QED BY <1>7, <1>9, <2>1, <2>2, <2>3 DEF snap2, n
<1> QED BY <1>6, <1>8, <1>9 DEF stage_snapshot

LEMMA DeriveStep == ASSUME CaInv, stage_derive PROVE CaInv'
<1>1. CASE StageFails
  BY <1>1, StageFailsStep
<1>2. CASE StageGoto("inventory")
  <2> DEFINE s == [ca.st EXCEPT !.pc = "inventory", !.i = 1]
  <2>1. ca' = Witness([ca EXCEPT !.st = s]) /\ s \in CaStagers /\ s.pc = "inventory" /\ s.i = 1 /\ s.paths = ca.st.paths /\ s.snap = ca.st.snap
    BY <1>2, GotoIs
  <2> HIDE DEF s
  <2>2. InRange(s)
    BY <2>1 DEF CaInv, InRange, stage_derive, Staging
  <2>3. Derived(s, ca.f, SeenAfter(s))
    <3>1. ca.f \in SeenAfter(s)
      BY <2>1 DEF SeenAfter, Settled
    <3>2. DerivedFrom(s, ca.f, ca.f)
      BY <2>1 DEF DerivedFrom
    <3> QED BY <3>1, <3>2 DEF Derived
  <2> QED BY <2>1, <2>2, <2>3, GoesOn DEF s
<1> QED BY <1>1, <1>2 DEF stage_derive

LEMMA RecheckInventoryStep == ASSUME CaInv, stage_recheck_inventory PROVE CaInv'
<1>1. CASE StageFails
  BY <1>1, StageFailsStep
<1>2. CASE StageGoto("recheck")
  <2> DEFINE s == [ca.st EXCEPT !.pc = "recheck", !.i = 1]
  <2>1. ca' = Witness([ca EXCEPT !.st = s]) /\ s \in CaStagers /\ s.pc = "recheck" /\ s.i = 1 /\ s.paths = ca.st.paths /\ s.snap = ca.st.snap
    BY <1>2, GotoIs
  <2>2. ca.st \in CaStagers /\ InRange(ca.st) /\ Derived(ca.st, ca.f, ca.seen) /\ ca.st.pc = "inventory"
    BY DEF CaInv, CaStates, stage_recheck_inventory, Staging
  <2> HIDE DEF s
  <2>3. InRange(s)
    <3>1. ca.st.paths \in {RootFiles, AllFiles}
      BY <2>2 DEF InRange
    <3>2. Len(ca.st.paths) \in Nat /\ 1 <= Len(ca.st.paths)
      BY <3>1 DEF RootFiles, AllFiles
    <3> QED BY <2>1, <3>1, <3>2 DEF InRange
  <2>4. Derived(s, ca.f, SeenAfter(s))
    <3>1. PICK f0 \in ca.seen : DerivedFrom(ca.st, ca.f, f0)
      BY <2>2 DEF Derived, Settled
    <3>2. f0 \in SeenAfter(s)
      BY <2>1 DEF SeenAfter, Settled
    <3>3. Len(ca.st.paths) \in Nat
      BY <2>2, PathNames
    <3>4. DerivedFrom(s, ca.f, f0)
      BY <2>1, <3>1, <3>3 DEF DerivedFrom
    <3> QED BY <3>2, <3>4 DEF Derived
  <2> QED BY <2>1, <2>3, <2>4, GoesOn DEF s
<1> QED BY <1>1, <1>2 DEF stage_recheck_inventory

LEMMA RecheckStep == ASSUME CaInv, stage_recheck PROVE CaInv'
<1> DEFINE n == ca.st.paths[ca.st.i]
<1>1. ca \in CaStates /\ ca.st \in CaStagers /\ InRange(ca.st) /\ Derived(ca.st, ca.f, ca.seen) /\ ca.st.pc = "recheck"
  BY DEF CaInv, CaStates, stage_recheck, Staging
<1>2. ca.st.i \in 1 .. Len(ca.st.paths) /\ Len(ca.st.paths) \in Nat /\ ca.st.i \in Nat
  BY <1>1, PathNames DEF InRange
<1>3. PICK f0 \in ca.seen : DerivedFrom(ca.st, ca.f, f0)
  BY <1>1 DEF Derived, Settled
<1>4. CASE StageFails
  BY <1>4, StageFailsStep
<1>5. CASE ca.f[n] = ca.st.snap[n] /\ ca.st.i = Len(ca.st.paths) /\ StageGoto("publish")
  <2> DEFINE s == [ca.st EXCEPT !.pc = "publish", !.i = 1]
  <2>1. ca' = Witness([ca EXCEPT !.st = s]) /\ s \in CaStagers /\ s.pc = "publish" /\ s.i = 1 /\ s.paths = ca.st.paths /\ s.snap = ca.st.snap
    BY <1>5, GotoIs
  <2> HIDE DEF s
  <2>2. InRange(s)
    BY <1>1, <2>1 DEF InRange
  <2>3. \A j \in 1 .. Len(ca.st.paths) : j < ca.st.i \/ j = ca.st.i
    BY <1>2, <1>5
  <2>4. \A j \in 1 .. Len(ca.st.paths) : f0[ca.st.paths[j]] = ca.st.snap[ca.st.paths[j]]
    BY <1>1, <1>3, <1>5, <2>3 DEF DerivedFrom
  <2>5. Derived(s, ca.f, SeenAfter(s))
    <3>1. f0 \in SeenAfter(s)
      BY <2>1 DEF SeenAfter, Settled
    <3>2. DerivedFrom(s, ca.f, f0)
      BY <2>1, <2>4 DEF DerivedFrom
    <3> QED BY <3>1, <3>2 DEF Derived
  <2> QED BY <2>1, <2>2, <2>5, GoesOn DEF s
<1>6. CASE ca.f[n] = ca.st.snap[n] /\ ca.st.i # Len(ca.st.paths) /\ ca' = Witness([ca EXCEPT !.st.i = @ + 1])
  <2> DEFINE i == ca.st.i + 1
             s == [ca.st EXCEPT !.pc = "recheck", !.i = i]
  <2>1. i \in 1 .. Len(ca.st.paths) /\ i \in Nat /\ \A j \in 1 .. Len(ca.st.paths) : j < i => j < ca.st.i \/ j = ca.st.i
    BY <1>2, <1>6
  <2>2. [ca EXCEPT !.st.i = @ + 1] = [ca EXCEPT !.st = [ca.st EXCEPT !.i = i]]
    BY <1>1 DEF CaStates, CaStagers
  <2> HIDE DEF i
  <2>3. s \in CaStagers /\ s.pc = "recheck" /\ s.i = i /\ s.paths = ca.st.paths /\ s.snap = ca.st.snap
    BY <1>1, <2>1 DEF CaStagers
  <2>4. s = [ca.st EXCEPT !.i = i]
    BY <1>1 DEF CaStagers
  <2>5. ca' = Witness([ca EXCEPT !.st = s])
    BY <1>6, <2>2, <2>4
  <2> HIDE DEF s
  <2>6. InRange(s)
    BY <1>1, <2>1, <2>3 DEF InRange
  <2>7. Derived(s, ca.f, SeenAfter(s))
    <3>1. f0 \in SeenAfter(s)
      BY <2>3 DEF SeenAfter, Settled
    <3>2. DerivedFrom(s, ca.f, f0)
      BY <1>1, <1>3, <1>6, <2>1, <2>3 DEF DerivedFrom
    <3> QED BY <3>1, <3>2 DEF Derived
  <2> QED BY <2>1, <2>5, <2>6, <2>7, GoesOn DEF s
<1> QED BY <1>4, <1>5, <1>6 DEF stage_recheck

LEMMA PublishStep == ASSUME CaInv, stage_publish PROVE CaInv'
<1> DEFINE k == [paths |-> ca.st.paths, snap |-> ca.st.snap]
           s == [ca.st EXCEPT !.pc = "done"]
<1>1. ca \in CaStates /\ ca.st \in CaStagers /\ InRange(ca.st) /\ ca.st.pc = "publish" /\ ca.seen \in SUBSET CaFileSets
  BY DEF CaInv, CaStates, stage_publish, Staging
<1>2. k \in CaCandidates
  BY <1>1 DEF CaStagers, CaCandidates
<1>3. s \in CaStagers /\ s.pc = "done" /\ s.paths = ca.st.paths /\ s.snap = ca.st.snap
  BY <1>1 DEF CaStagers
<1>4. ca' = [ca EXCEPT !.st = s, !.seen = ca.seen, !.candidate = k]
  BY <1>1 DEF stage_publish, CaStates
<1> HIDE DEF k, s
<1>5. InRange(s) /\ Derived(s, ca.f, ca.seen)
  BY <1>1, <1>3 DEF InRange, Derived, Settled
<1> QED BY <1>1, <1>2, <1>3, <1>4, <1>5, Stages

LEMMA CaInitInv == CaInit => CaInv
<1> SUFFICES ASSUME CaInit PROVE CaInv
  OBVIOUS
<1>1. PICK f \in {[n \in FileNames |-> NoCa], LegacyFiles} :
        ca = [f |-> f, next |-> 3, cli |-> [op |-> "none", todo |-> <<>>, new |-> f],
              st |-> StagerIdle, seen |-> {}, candidate |-> NoCa]
  BY DEF CaInit
<1>2. f \in CaFileSets /\ AllDated(f, 3)
  <2>1. CASE f = [n \in FileNames |-> NoCa]
    BY <2>1 DEF CaFileSets, CaVals, CaKeys, AllDated, Dated
  <2>2. CASE f = LegacyFiles
    <3> DEFINE r == [id |-> 1, key |-> 1, strict |-> FALSE]
               l == [id |-> 2, key |-> 2, root |-> 1, strict |-> FALSE]
    <3>1. r \in CaRoots /\ r.id = 1 /\ l \in CaLeaves /\ l.id = 2
      BY DEF CaRoots, CaLeaves, CaKeys
    <3>2. f = [cert |-> r, key |-> 1, fp |-> 1, trust |-> r, leafCert |-> l, leafKey |-> 2, meta |-> 2]
      BY <2>2 DEF LegacyFiles
    <3> HIDE DEF r, l
    <3>3. f \in CaFileSets
      BY <3>1, <3>2, Files DEF CaFileSets, CaVals, CaKeys
    <3>4. \A m \in FileNames : Dated(m, f[m], 3)
      BY <3>1, <3>2, Files DEF Dated, CertFiles
    <3> QED BY <3>3, <3>4 DEF AllDated
  <2> QED BY <2>1, <2>2
<1> DEFINE c == [op |-> "none", todo |-> <<>>, new |-> f]
<1>3. c \in CaClis /\ c.todo = <<>> /\ c.new = f
  <2>1. <<>> \in Seq(FileNames \cup {"leaf"})
    OBVIOUS
  <2> QED BY <1>2, <2>1 DEF CaClis
<1>4. ca = [f |-> f, next |-> 3, cli |-> c, st |-> StagerIdle, seen |-> {}, candidate |-> NoCa]
  BY <1>1
<1> HIDE DEF c
<1>5. ca \in CaStates
  BY <1>2, <1>3, <1>4, StagerIdleType DEF CaStates, CaCandidates
<1>6. ca.f = f /\ ca.next = 3 /\ ca.cli = c /\ ca.st = StagerIdle
  BY <1>4
<1>7. NeverBack(c, f, StagerIdle.snap)
  BY <1>3 DEF NeverBack
<1>8. InRange(StagerIdle) /\ Derived(StagerIdle, ca.f, ca.seen) /\ AllDated(StagerIdle.snap, 3)
  BY StagerIdleType DEF InRange, Derived, Settled, AllDated, Dated
<1> QED BY <1>2, <1>3, <1>5, <1>6, <1>7, <1>8 DEF CaInv

LEMMA CaInvStep == CaInv /\ [CaNext]_ca => CaInv'
<1> SUFFICES ASSUME CaInv, [CaNext]_ca PROVE CaInv'
  OBVIOUS
<1>1. ASSUME NEW force \in BOOLEAN, ensure_ca("init", force) PROVE CaInv'
  BY <1>1, EnsureCaStep
<1>2. CASE ensure_ca("mint", FALSE)
  BY <1>2, EnsureCaStep
<1>3. CASE atomic_write \/ mint_leaf \/ certs_killed
  BY <1>3, AtomicWriteStep, MintLeafStep, KilledStep
<1>4. CASE stage_inventory \/ stage_snapshot \/ stage_derive \/ stage_recheck_inventory
  BY <1>4, InventoryStep, SnapshotStep, DeriveStep, RecheckInventoryStep
<1>5. CASE stage_recheck \/ stage_publish \/ stage_interrupted
  BY <1>5, RecheckStep, PublishStep, StageFailsStep DEF stage_interrupted
<1>6. CASE UNCHANGED ca
  BY <1>6 DEF CaInv
<1> QED BY <1>1, <1>2, <1>3, <1>4, <1>5, <1>6 DEF CaNext

\* For any number of renewals and kills (certs/upgrade.rs's snapshot, derive and
\* recheck): the candidate that is about to be published is what all of the
\* authority's files were at one instant after it was derived.
THEOREM CandidateIsOneInstant == CaSpec => []CandidateIsCurrent
<1>1. CaInv => CandidateIsCurrent
  BY DEF CaInv, Derived, DerivedFrom, Settled, CandidateIsCurrent
<1> QED BY CaInitInv, CaInvStep, <1>1, PTL DEF CaSpec

-----------------------------------------------------------------------------
(* Claims discovered in Kubernetes.                                        *)

KcStates == [list : KcLists, i : Nat \ {0}, done : BOOLEAN, projected : SUBSET KcObjects, sources : SUBSET KcObjects,
             owners : SUBSET (KcHosts \X KcUids), warnings : BOOLEAN]

\* The objects looked at so far; which of them is valid next to the YAML,
\* and which shares its identity with another or with an earlier one.
KcPast(s) == {j \in 1 .. Len(s.list) : j < s.i /\ s.list[j].class \in {"invalid", "sound"}}
KcValid(s, j) == s.list[j].class = "sound" /\ s.list[j].host \notin KcYaml
KcTwin(s, j) == \E k \in KcPast(s) : k # j /\ s.list[k].uid = s.list[j].uid
KcSecond(s, j) == \E k \in KcPast(s) : k < j /\ s.list[k].uid = s.list[j].uid
KcRival(s, j) == \E k \in KcPast(s) : k # j /\ KcValid(s, k) /\ s.list[k].host = s.list[j].host

\* What stands for a key, and what was projected: every valid object but
\* twins and those with a rival, whichever of the two came first.
KcOwners(s) ==
  /\ s.sources = {s.list[j] : j \in KcPast(s)}
  /\ \A e \in s.owners : \E j \in KcPast(s) : KcValid(s, j) /\ e = <<s.list[j].host, s.list[j].uid>>
  /\ \A j \in KcPast(s) : KcValid(s, j) /\ ~KcSecond(s, j) => <<s.list[j].host, s.list[j].uid>> \in s.owners
KcProjected(s) ==
  /\ \A c \in s.projected : \E j \in KcPast(s) : KcValid(s, j) /\ ~KcTwin(s, j) /\ c = s.list[j]
  /\ \A c, d \in s.projected : c # d => c.host # d.host
  /\ ~s.done => \A j \in KcPast(s) : KcValid(s, j) /\ ~KcTwin(s, j) => s.list[j] \in s.projected \/ KcRival(s, j)

KcInv == kd \in KcStates /\ (kd.done => kd.i = Len(kd.list) + 1) /\ KcOwners(kd) /\ KcProjected(kd) /\ NoOrderSelectsOwner

LEMMA ConfigValid ==
  ASSUME NEW claims PROVE validate_config(claims) <=> (\A c \in claims : c.host \notin KcYaml) /\ \A c, d \in claims : c # d => c.host # d.host
<1>1. \A c : conflict_keys(c) \cap KcYaml = {} <=> c.host \notin KcYaml
  BY DEF conflict_keys
<1>2. \A c, d : conflict_keys(c) \cap conflict_keys(d) = {} <=> c.host # d.host
  BY DEF conflict_keys
<1> QED BY <1>1, <1>2 DEF validate_config

LEMMA ListTyped ==
  ASSUME NEW l \in KcLists PROVE Len(l) \in Nat /\ \A j \in 1 .. Len(l) : l[j] \in KcObjects
<1>1. PICK n \in 1 .. MaxKcList : l \in [1 .. n -> KcObjects]
  BY DEF KcLists
<1>2. n \in Nat /\ l \in Seq(KcObjects) /\ Len(l) = n
  BY <1>1, KubernetesClaimsAssumption
<1> QED BY <1>1, <1>2

\* The next object is a new index of the past, or none is.
LEMMA PastGrows ==
  ASSUME KcInv, kd.i <= Len(kd.list), NEW s, s.list = kd.list, s.i = kd.i + 1
  PROVE  /\ kd.i \in 1 .. Len(kd.list) /\ kd.list[kd.i] \in KcObjects
         /\ kd.list[kd.i].class \in {"invalid", "sound"} => KcPast(s) = KcPast(kd) \cup {kd.i}
         /\ kd.list[kd.i].class \notin {"invalid", "sound"} => KcPast(s) = KcPast(kd)
         /\ \A j \in KcPast(kd) : j < kd.i /\ j # kd.i /\ j \in Nat
<1>1. kd.list \in KcLists /\ kd.i \in Nat \ {0}
  BY DEF KcInv, KcStates
<1>2. Len(kd.list) \in Nat /\ \A j \in 1 .. Len(kd.list) : kd.list[j] \in KcObjects
  BY <1>1, ListTyped
<1> QED BY <1>1, <1>2 DEF KcPast

\* An object that vzctl cannot address, or that is being deleted, adds nothing.
LEMMA PassedOver ==
  ASSUME KcInv, kd.i <= Len(kd.list), ~kd.done, NEW s, s.list = kd.list, s.i = kd.i + 1, s.done = kd.done,
         s.projected = kd.projected, s.sources = kd.sources, s.owners = kd.owners, kd.list[kd.i].class \notin {"invalid", "sound"}
  PROVE  KcOwners(s) /\ KcProjected(s)
<1>1. KcPast(s) = KcPast(kd)
  BY PastGrows
<1>2. \A j : KcValid(s, j) = KcValid(kd, j) /\ KcTwin(s, j) = KcTwin(kd, j) /\ KcSecond(s, j) = KcSecond(kd, j) /\ KcRival(s, j) = KcRival(kd, j)
  BY <1>1 DEF KcValid, KcTwin, KcSecond, KcRival
<1> QED BY <1>1, <1>2 DEF KcInv, KcOwners, KcProjected

\* What the next object i changes for the earlier ones.
LEMMA LaterObject ==
  ASSUME KcInv, kd.i <= Len(kd.list), NEW s, s.list = kd.list, s.i = kd.i + 1, kd.list[kd.i].class \in {"invalid", "sound"}
  PROVE  /\ KcPast(s) = KcPast(kd) \cup {kd.i} /\ kd.i \notin KcPast(kd)
         /\ \A j : KcValid(s, j) = KcValid(kd, j)
         /\ \A j \in KcPast(kd) : KcSecond(kd, j) => KcSecond(s, j)
         /\ \A j \in KcPast(kd) : KcSecond(s, j) => KcSecond(kd, j)
         /\ \A j \in KcPast(kd) : KcTwin(s, j) <=> KcTwin(kd, j) \/ kd.list[kd.i].uid = kd.list[j].uid
         /\ \A j \in KcPast(kd) : KcRival(kd, j) => KcRival(s, j)
         /\ (\E k \in KcPast(kd) : kd.list[k].uid = kd.list[kd.i].uid) => KcSecond(s, kd.i) /\ KcTwin(s, kd.i)
         /\ (\A k \in KcPast(kd) : kd.list[k].uid # kd.list[kd.i].uid) => ~KcTwin(s, kd.i)
<1>1. KcPast(s) = KcPast(kd) \cup {kd.i} /\ (\A j \in KcPast(kd) : j < kd.i /\ j # kd.i /\ j \in Nat) /\ kd.i \in Nat
  BY PastGrows DEF KcInv, KcStates
<1>2. kd.i \notin KcPast(kd)
  BY <1>1
<1>3. \A j : KcValid(s, j) = KcValid(kd, j)
  BY DEF KcValid
<1>4. \A j \in KcPast(kd) : ~(kd.i < j)
  BY <1>1
<1>5. \A j \in KcPast(kd) : (KcSecond(kd, j) => KcSecond(s, j)) /\ (KcSecond(s, j) => KcSecond(kd, j))
  BY <1>1, <1>4 DEF KcSecond
<1>6. \A j \in KcPast(kd) : KcTwin(s, j) <=> KcTwin(kd, j) \/ kd.list[kd.i].uid = kd.list[j].uid
  BY <1>1 DEF KcTwin
<1>7. \A j \in KcPast(kd) : KcRival(kd, j) => KcRival(s, j)
  BY <1>1, <1>3 DEF KcRival
<1>8. (\E k \in KcPast(kd) : kd.list[k].uid = kd.list[kd.i].uid) => KcSecond(s, kd.i) /\ KcTwin(s, kd.i)
  BY <1>1 DEF KcSecond, KcTwin
<1>9. (\A k \in KcPast(kd) : kd.list[k].uid # kd.list[kd.i].uid) => ~KcTwin(s, kd.i)
  BY <1>1 DEF KcTwin
<1> QED BY <1>1, <1>2, <1>3, <1>5, <1>6, <1>7, <1>8, <1>9

LEMMA TwinWithdrawn ==
  ASSUME KcInv, kd.i <= Len(kd.list), ~kd.done, NEW s, s.list = kd.list, s.i = kd.i + 1, s.done = kd.done,
         kd.list[kd.i].class \in {"invalid", "sound"}, \E k \in KcPast(kd) : kd.list[k].uid = kd.list[kd.i].uid,
         s.projected = {c \in kd.projected : c.uid # kd.list[kd.i].uid},
         s.sources = kd.sources \cup {kd.list[kd.i]}, s.owners = kd.owners
  PROVE  KcOwners(s) /\ KcProjected(s)
<1>1. KcOwners(kd) /\ KcProjected(kd)
  BY DEF KcInv
<1>2. KcPast(s) = KcPast(kd) \cup {kd.i} /\ KcSecond(s, kd.i) /\ KcTwin(s, kd.i)
  BY LaterObject
<1>3. KcOwners(s)
  <2>1. s.sources = {s.list[j] : j \in KcPast(s)}
    BY <1>1, <1>2 DEF KcOwners
  <2>2. \A e \in s.owners : \E j \in KcPast(s) : KcValid(s, j) /\ e = <<s.list[j].host, s.list[j].uid>>
    BY <1>1, <1>2, LaterObject DEF KcOwners
  <2>3. \A j \in KcPast(s) : KcValid(s, j) /\ ~KcSecond(s, j) => <<s.list[j].host, s.list[j].uid>> \in s.owners
    BY <1>1, <1>2, LaterObject DEF KcOwners
  <2> QED BY <2>1, <2>2, <2>3 DEF KcOwners
<1>4. \A c \in s.projected : \E j \in KcPast(s) : KcValid(s, j) /\ ~KcTwin(s, j) /\ c = s.list[j]
  <2> SUFFICES ASSUME NEW c \in s.projected PROVE \E j \in KcPast(s) : KcValid(s, j) /\ ~KcTwin(s, j) /\ c = s.list[j]
    OBVIOUS
  <2>1. PICK j \in KcPast(kd) : KcValid(kd, j) /\ ~KcTwin(kd, j) /\ c = kd.list[j]
    BY <1>1 DEF KcProjected
  <2>2. kd.list[j].uid # kd.list[kd.i].uid
    BY <2>1
  <2> QED BY <1>2, <2>1, <2>2, LaterObject
<1>5. \A c, d \in s.projected : c # d => c.host # d.host
  BY <1>1 DEF KcProjected
<1>6. \A j \in KcPast(s) : KcValid(s, j) /\ ~KcTwin(s, j) => s.list[j] \in s.projected \/ KcRival(s, j)
  <2> SUFFICES ASSUME NEW j \in KcPast(s), KcValid(s, j), ~KcTwin(s, j) PROVE s.list[j] \in s.projected \/ KcRival(s, j)
    OBVIOUS
  <2>1. j \in KcPast(kd)
    BY <1>2
  <2>2. KcValid(kd, j) /\ ~KcTwin(kd, j) /\ kd.list[j].uid # kd.list[kd.i].uid
    BY <2>1, LaterObject
  <2>3. kd.list[j] \in kd.projected \/ KcRival(kd, j)
    BY <1>1, <2>1, <2>2 DEF KcProjected
  <2> QED BY <2>1, <2>2, <2>3, LaterObject
<1> QED BY <1>3, <1>4, <1>5, <1>6 DEF KcProjected

\* The first object of its identity: valid or not, it joins or meets a rival.
LEMMA FirstOfItsName ==
  ASSUME KcInv, kd.i <= Len(kd.list), ~kd.done, NEW s, s.list = kd.list, s.i = kd.i + 1, s.done = kd.done,
         kd.list[kd.i].class \in {"invalid", "sound"}, \A k \in KcPast(kd) : kd.list[k].uid # kd.list[kd.i].uid,
         s.sources = kd.sources \cup {kd.list[kd.i]},
         KcValid(kd, kd.i) => s.owners = kd.owners \cup {<<kd.list[kd.i].host, kd.list[kd.i].uid>>},
         ~KcValid(kd, kd.i) => s.owners = kd.owners /\ s.projected = kd.projected,
         s.projected \in {kd.projected, kd.projected \cup {kd.list[kd.i]}},
         KcValid(kd, kd.i) => (s.projected = kd.projected \cup {kd.list[kd.i]} \/ \E c \in kd.projected : c.host = kd.list[kd.i].host),
         s.projected = kd.projected \/ \A c, d \in s.projected : c # d => c.host # d.host
  PROVE  KcOwners(s) /\ KcProjected(s)
<1>1. KcOwners(kd) /\ KcProjected(kd)
  BY DEF KcInv
<1>2. KcPast(s) = KcPast(kd) \cup {kd.i} /\ ~KcTwin(s, kd.i) /\ kd.i \notin KcPast(kd)
  BY LaterObject
<1>3. KcOwners(s)
  <2>1. s.sources = {s.list[j] : j \in KcPast(s)}
    BY <1>1, <1>2 DEF KcOwners
  <2>2. \A e \in s.owners : \E j \in KcPast(s) : KcValid(s, j) /\ e = <<s.list[j].host, s.list[j].uid>>
    <3> SUFFICES ASSUME NEW e \in s.owners PROVE \E j \in KcPast(s) : KcValid(s, j) /\ e = <<s.list[j].host, s.list[j].uid>>
      OBVIOUS
    <3>1. CASE e \in kd.owners
      BY <1>1, <1>2, <3>1, LaterObject DEF KcOwners
    <3>2. CASE e \notin kd.owners
      <4>1. KcValid(kd, kd.i) /\ e = <<kd.list[kd.i].host, kd.list[kd.i].uid>>
        BY <3>2
      <4> QED BY <1>2, <4>1, LaterObject
    <3> QED BY <3>1, <3>2
  <2>3. \A j \in KcPast(s) : KcValid(s, j) /\ ~KcSecond(s, j) => <<s.list[j].host, s.list[j].uid>> \in s.owners
    <3> SUFFICES ASSUME NEW j \in KcPast(s), KcValid(s, j), ~KcSecond(s, j) PROVE <<s.list[j].host, s.list[j].uid>> \in s.owners
      OBVIOUS
    <3>1. CASE j \in KcPast(kd)
      <4>1. KcValid(kd, j) /\ ~KcSecond(kd, j)
        BY <3>1, LaterObject
      <4>2. <<kd.list[j].host, kd.list[j].uid>> \in kd.owners
        BY <1>1, <3>1, <4>1 DEF KcOwners
      <4> QED BY <4>2
    <3>2. CASE j = kd.i
      BY <3>2, LaterObject
    <3> QED BY <1>2, <3>1, <3>2
  <2> QED BY <2>1, <2>2, <2>3 DEF KcOwners
<1>4. \A c \in s.projected : \E j \in KcPast(s) : KcValid(s, j) /\ ~KcTwin(s, j) /\ c = s.list[j]
  <2> SUFFICES ASSUME NEW c \in s.projected PROVE \E j \in KcPast(s) : KcValid(s, j) /\ ~KcTwin(s, j) /\ c = s.list[j]
    OBVIOUS
  <2>1. CASE c \in kd.projected
    <3>1. PICK j \in KcPast(kd) : KcValid(kd, j) /\ ~KcTwin(kd, j) /\ c = kd.list[j]
      BY <1>1, <2>1 DEF KcProjected
    <3> QED BY <1>2, <3>1, LaterObject
  <2>2. CASE c \notin kd.projected
    <3>1. c = kd.list[kd.i] /\ KcValid(kd, kd.i)
      BY <2>2
    <3> QED BY <1>2, <3>1, LaterObject
  <2> QED BY <2>1, <2>2
<1>5. \A c, d \in s.projected : c # d => c.host # d.host
  BY <1>1 DEF KcProjected
<1>6. \A j \in KcPast(s) : KcValid(s, j) /\ ~KcTwin(s, j) => s.list[j] \in s.projected \/ KcRival(s, j)
  <2> SUFFICES ASSUME NEW j \in KcPast(s), KcValid(s, j), ~KcTwin(s, j) PROVE s.list[j] \in s.projected \/ KcRival(s, j)
    OBVIOUS
  <2>1. CASE j \in KcPast(kd)
    <3>1. KcValid(kd, j) /\ ~KcTwin(kd, j)
      BY <2>1, LaterObject
    <3>2. kd.list[j] \in kd.projected \/ KcRival(kd, j)
      BY <1>1, <2>1, <3>1 DEF KcProjected
    <3> QED BY <2>1, <3>2, LaterObject
  <2>2. CASE j = kd.i
    <3>1. KcValid(kd, kd.i)
      BY <2>2, LaterObject
    <3>2. ASSUME NEW c \in kd.projected, c.host = kd.list[kd.i].host PROVE KcRival(s, j)
      <4>1. PICK k \in KcPast(kd) : KcValid(kd, k) /\ c = kd.list[k]
        BY <1>1, <3>2 DEF KcProjected
      <4>2. k \in KcPast(s) /\ k # j /\ KcValid(s, k)
        BY <1>2, <2>2, <4>1, LaterObject
      <4> QED BY <2>2, <3>2, <4>1, <4>2 DEF KcRival
    <3> QED BY <2>2, <3>1, <3>2
  <2> QED BY <1>2, <2>1, <2>2
<1> QED BY <1>3, <1>4, <1>5, <1>6 DEF KcProjected

LEMMA ObjectKeepsInv ==
  ASSUME KcInv, discover_object PROVE KcInv'
<1> DEFINE o == kd.list[kd.i]
           s == [kd EXCEPT !.i = kd.i + 1]
           listed == [s EXCEPT !.sources = s.sources \cup {o}]
           twin == \E old \in kd.sources : old.uid = o.uid
<1>1. kd \in KcStates /\ kd.list \in KcLists /\ kd.i \in Nat \ {0} /\ KcOwners(kd) /\ KcProjected(kd)
  BY DEF KcInv, KcStates
<1>2. kd.i <= Len(kd.list) /\ Len(kd.list) \in Nat /\ ~kd.done
  <2>1. Len(kd.list) \in Nat /\ kd.i <= Len(kd.list)
    BY <1>1, ListTyped DEF discover_object
  <2> QED BY <1>1, <2>1 DEF KcInv
<1>3. o \in KcObjects
  <2>1. kd.i \in 1 .. Len(kd.list)
    BY <1>1, <1>2
  <2> QED BY <1>1, <2>1, ListTyped
<1>4. o.uid \in KcUids /\ o.host \in KcHosts
  BY <1>3 DEF KcObjects
<1>5. /\ s \in KcStates /\ s.list = kd.list /\ s.i = kd.i + 1 /\ s.done = kd.done /\ s.projected = kd.projected
      /\ s.sources = kd.sources /\ s.owners = kd.owners
  <2>1. kd.i + 1 \in Nat \ {0}
    BY <1>1
  <2> QED BY <1>1, <2>1 DEF KcStates
<1>6. /\ listed \in KcStates /\ listed.list = kd.list /\ listed.i = kd.i + 1 /\ listed.done = kd.done /\ listed.projected = kd.projected
      /\ listed.sources = kd.sources \cup {o} /\ listed.owners = kd.owners
  <2> HIDE DEF s, o
  <2>1. s.sources \cup {o} \in SUBSET KcObjects
    BY <1>3, <1>5 DEF KcStates
  <2> QED BY <1>5, <2>1 DEF KcStates
<1>7. twin <=> \E k \in KcPast(kd) : kd.list[k].uid = o.uid
  BY <1>1 DEF KcOwners
<1>8. /\ o.class = "deleting" => kd' = s
      /\ o.class = "nameless" => kd' = [s EXCEPT !.warnings = TRUE]
      /\ o.class \in {"invalid", "sound"} /\ twin => kd' = [listed EXCEPT !.projected = {c \in listed.projected : c.uid # o.uid}]
      /\ o.class = "sound" /\ ~twin => kd' = discover_import(listed, o)
      /\ o.class = "invalid" /\ ~twin => kd' = listed
  BY DEF discover_object, import
<1>9. o.class \in {"deleting", "nameless", "invalid", "sound"}
  BY <1>3 DEF KcObjects
<1> HIDE DEF listed, s, twin
<1>10. kd' \in KcStates /\ kd'.list = kd.list /\ kd'.i = kd.i + 1 /\ kd'.done = kd.done /\ KcOwners(kd') /\ KcProjected(kd')
  <2>1. CASE o.class = "deleting"
    <3>1. kd' = s
      BY <1>8, <2>1
    <3> QED BY <1>2, <1>5, <2>1, <3>1, PassedOver
  <2>2. CASE o.class = "nameless"
    <3>1. kd' = [s EXCEPT !.warnings = TRUE]
      BY <1>8, <2>2
    <3>2. /\ kd' \in KcStates /\ kd'.list = kd.list /\ kd'.i = kd.i + 1 /\ kd'.done = kd.done /\ kd'.projected = kd.projected
          /\ kd'.sources = kd.sources /\ kd'.owners = kd.owners
      BY <1>5, <3>1 DEF KcStates
    <3> QED BY <1>2, <2>2, <3>2, PassedOver
  <2>3. CASE o.class \in {"invalid", "sound"} /\ twin
    <3> DEFINE p == {c \in kd.projected : c.uid # o.uid}
    <3>1. kd' = [listed EXCEPT !.projected = p]
      BY <1>6, <1>8, <2>3
    <3>2. p \in SUBSET KcObjects
      BY <1>1 DEF KcStates
    <3> HIDE DEF p
    <3>3. /\ kd' \in KcStates /\ kd'.list = kd.list /\ kd'.i = kd.i + 1 /\ kd'.done = kd.done /\ kd'.projected = p
          /\ kd'.sources = kd.sources \cup {o} /\ kd'.owners = kd.owners
      BY <1>6, <3>1, <3>2 DEF KcStates
    <3> QED BY <1>2, <1>7, <2>3, <3>3, TwinWithdrawn DEF p
  <2>4. CASE o.class = "invalid" /\ ~twin
    <3>1. kd' = listed /\ ~KcValid(kd, kd.i)
      BY <1>8, <2>4 DEF KcValid
    <3> QED BY <1>2, <1>6, <1>7, <2>4, <3>1, FirstOfItsName
  <2>5. CASE o.class = "sound" /\ ~twin
    <3> DEFINE keys == IF validate_config({o}) THEN {<<k, o.uid>> : k \in conflict_keys(o)} ELSE {}
               next == IF validate_config(kd.projected \cup {o}) THEN kd.projected \cup {o} ELSE kd.projected
               ow == kd.owners \cup keys
    <3>1. kd' = [listed EXCEPT !.owners = ow, !.projected = next]
      BY <1>6, <1>8, <2>5 DEF discover_import
    <3>2. KcValid(kd, kd.i) <=> o.host \notin KcYaml
      BY <2>5 DEF KcValid
    <3>3. validate_config({o}) <=> o.host \notin KcYaml
      BY ConfigValid
    <3>4. keys = IF o.host \notin KcYaml THEN {<<o.host, o.uid>>} ELSE {}
      BY <3>3 DEF conflict_keys
    <3>5. ow \in SUBSET (KcHosts \X KcUids) /\ next \in SUBSET KcObjects
      BY <1>1, <1>3, <1>4, <3>4 DEF KcStates
    <3>6. \A c \in kd.projected : c.host \notin KcYaml
      BY <1>1 DEF KcProjected, KcValid
    <3>7. \A c, d \in kd.projected : c # d => c.host # d.host
      BY <1>1 DEF KcProjected
    <3>8. validate_config(kd.projected \cup {o}) <=> /\ o.host \notin KcYaml /\ \A c \in kd.projected : c # o => c.host # o.host
      BY <3>6, <3>7, ConfigValid
    <3>9. next \in {kd.projected, kd.projected \cup {o}} /\ (next = kd.projected \/ \A c, d \in next : c # d => c.host # d.host)
      BY <3>7, <3>8
    <3>10. ~KcValid(kd, kd.i) => next = kd.projected
      BY <3>2, <3>8
    <3>11. KcValid(kd, kd.i) => next = kd.projected \cup {o} \/ \E c \in kd.projected : c.host = o.host
      BY <3>2, <3>8
    <3>12. (KcValid(kd, kd.i) => ow = kd.owners \cup {<<o.host, o.uid>>}) /\ (~KcValid(kd, kd.i) => ow = kd.owners)
      BY <3>2, <3>4
    <3> HIDE DEF ow, next
    <3>13. /\ kd' \in KcStates /\ kd'.list = kd.list /\ kd'.i = kd.i + 1 /\ kd'.done = kd.done /\ kd'.projected = next
           /\ kd'.sources = kd.sources \cup {o} /\ kd'.owners = ow
      BY <1>6, <3>1, <3>5 DEF KcStates
    <3> QED BY <1>2, <1>7, <2>5, <3>9, <3>10, <3>11, <3>12, <3>13, FirstOfItsName
  <2> QED BY <1>9, <2>1, <2>2, <2>3, <2>4, <2>5
<1> QED BY <1>2, <1>10 DEF KcInv, NoOrderSelectsOwner

\* The last step, with every object in the past.
LEMMA DiscoverKeepsInv ==
  ASSUME KcInv, discover PROVE KcInv'
<1> DEFINE shared == {c \in kd.projected : \E k \in conflict_keys(c) : \E e \in kd.owners : e[1] = k /\ e[2] # c.uid}
           rest == kd.projected \ shared
           l == kd.list
<1>1. kd \in KcStates /\ kd.list \in KcLists /\ KcOwners(kd) /\ KcProjected(kd) /\ ~kd.done /\ kd.i = Len(kd.list) + 1
  BY DEF KcInv, KcStates, discover
<1>2. Len(kd.list) \in Nat
  BY <1>1, ListTyped
<1>3. KcPast(kd) = Listed
  BY <1>1, <1>2 DEF KcPast, Listed
<1>4. kd' = [kd EXCEPT !.done = TRUE, !.projected = rest]
  BY DEF discover
<1>5. rest \in SUBSET KcObjects /\ rest \subseteq kd.projected
  BY <1>1 DEF KcStates
<1>6. \A c \in kd.projected : c \in rest <=> ~\E e \in kd.owners : e[1] = c.host /\ e[2] # c.uid
  BY DEF conflict_keys
<1> HIDE DEF rest, shared
<1>7. /\ kd' \in KcStates /\ kd'.list = kd.list /\ kd'.i = kd.i /\ kd'.done = TRUE /\ kd'.projected = rest
      /\ kd'.sources = kd.sources /\ kd'.owners = kd.owners
  BY <1>1, <1>4, <1>5 DEF KcStates
<1>8. KcPast(kd') = KcPast(kd) /\ Listed' = Listed
  BY <1>7 DEF KcPast, Listed
<1>9. \A j : KcValid(kd', j) = KcValid(kd, j) /\ KcTwin(kd', j) = KcTwin(kd, j) /\ KcSecond(kd', j) = KcSecond(kd, j)
  BY <1>7, <1>8 DEF KcValid, KcTwin, KcSecond
<1>10. KcOwners(kd')
  BY <1>1, <1>7, <1>8, <1>9 DEF KcOwners
<1>11. KcProjected(kd')
  BY <1>1, <1>5, <1>7, <1>8, <1>9 DEF KcProjected
<1>12. \A i \in Listed : (\E j \in Listed : j # i /\ l[j].uid = l[i].uid) => l[i] \notin rest
  <2> SUFFICES ASSUME NEW i \in Listed, NEW j \in Listed, j # i, l[j].uid = l[i].uid, l[i] \in kd.projected PROVE FALSE
    BY <1>5
  <2>1. PICK k \in KcPast(kd) : ~KcTwin(kd, k) /\ l[i] = l[k]
    BY <1>1 DEF KcProjected
  <2>2. k # i => KcTwin(kd, k)
    BY <1>3, <2>1 DEF KcTwin
  <2>3. k = i => KcTwin(kd, k)
    BY <1>3 DEF KcTwin
  <2> QED BY <2>1, <2>2, <2>3
<1>13. ASSUME \A i, j \in Listed : j # i => l[j].uid # l[i].uid
       PROVE  rest = {l[i] : i \in {i \in Listed : /\ l[i].class = "sound" /\ l[i].host \notin KcYaml
                                                  /\ \A j \in Listed \ {i} : l[j].class = "sound" => l[j].host # l[i].host}}
  <2> DEFINE Sole(i) == /\ l[i].class = "sound" /\ l[i].host \notin KcYaml
                        /\ \A j \in Listed \ {i} : l[j].class = "sound" => l[j].host # l[i].host
  <2>1. \A i \in Listed : ~KcTwin(kd, i) /\ ~KcSecond(kd, i)
    <3>1. \A i \in Listed, j \in Listed : j < i => j # i
      BY DEF Listed
    <3> QED BY <1>3, <1>13, <3>1 DEF KcTwin, KcSecond
  <2>2. ASSUME NEW c \in rest PROVE \E i \in Listed : Sole(i) /\ c = l[i]
    <3>1. PICK i \in Listed : KcValid(kd, i) /\ c = l[i]
      BY <1>1, <1>3, <1>5 DEF KcProjected
    <3>2. ASSUME NEW j \in Listed \ {i}, l[j].class = "sound", l[j].host = l[i].host PROVE FALSE
      <4>1. KcValid(kd, j)
        BY <3>1, <3>2 DEF KcValid
      <4>2. <<l[j].host, l[j].uid>> \in kd.owners
        BY <1>1, <1>3, <2>1, <3>2, <4>1 DEF KcOwners
      <4>3. l[j].uid # l[i].uid
        BY <1>13, <3>2
      <4>4. \E e \in kd.owners : e[1] = c.host /\ e[2] # c.uid
        BY <3>1, <3>2, <4>2, <4>3
      <4> QED BY <1>5, <1>6, <4>4
    <3> QED BY <3>1, <3>2 DEF KcValid
  <2>3. ASSUME NEW i \in Listed, Sole(i) PROVE l[i] \in rest
    <3>1. KcValid(kd, i) /\ ~KcTwin(kd, i)
      BY <2>1, <2>3 DEF KcValid
    <3>2. ~KcRival(kd, i)
      BY <1>3, <2>3 DEF KcRival, KcValid
    <3>3. l[i] \in kd.projected
      BY <1>1, <1>3, <3>1, <3>2 DEF KcProjected
    <3>4. ASSUME NEW e \in kd.owners, e[1] = l[i].host, e[2] # l[i].uid PROVE FALSE
      <4>1. PICK k \in Listed : KcValid(kd, k) /\ e = <<l[k].host, l[k].uid>>
        BY <1>1, <1>3 DEF KcOwners
      <4>2. l[k].host = l[i].host /\ l[k].uid # l[i].uid
        BY <3>4, <4>1
      <4> QED BY <2>3, <4>1, <4>2 DEF KcValid
    <3> QED BY <1>6, <3>3, <3>4
  <2> HIDE DEF Sole
  <2>4. rest = {l[i] : i \in {i \in Listed : Sole(i)}}
    BY <2>2, <2>3
  <2> QED BY <2>4 DEF Sole
<1>14. NoOrderSelectsOwner'
  <2>1. \A i \in Listed : Twins(i)' <=> \E j \in Listed : j # i /\ l[j].uid = l[i].uid
    BY <1>7, <1>8 DEF Twins
  <2>2. \A i \in Listed' : Twins(i)' => kd'.list[i] \notin kd'.projected
    BY <1>7, <1>8, <1>12, <2>1
  <2>3. (\A i \in Listed' : ~Twins(i)') => \A i, j \in Listed : j # i => l[j].uid # l[i].uid
    BY <1>8, <2>1
  <2> QED BY <1>7, <1>8, <1>13, <2>2, <2>3 DEF NoOrderSelectsOwner
<1> QED BY <1>1, <1>7, <1>10, <1>11, <1>14 DEF KcInv

\* Whatever order the API server lists the claims in, each that is valid and
\* alone with its resource and its name is provisioned, and no other is
\* (discover: conflicts are collected over all peers before any is withdrawn).
THEOREM OrderDoesNotMatter == KcSpec => []NoOrderSelectsOwner
<1>1. KcInit => KcInv
  <2> SUFFICES ASSUME NEW l \in KcLists, kd = KcStart(l) PROVE KcInv
    BY DEF KcInit
  <2>1. Len(l) \in Nat
    BY ListTyped
  <2>2. kd \in KcStates /\ kd.i = 1 /\ kd.list = l /\ kd.sources = {} /\ kd.owners = {} /\ kd.projected = {} /\ ~kd.done
    BY DEF KcStart, KcStates
  <2>3. KcPast(kd) = {}
    BY <2>1, <2>2 DEF KcPast
  <2> QED BY <2>2, <2>3 DEF KcInv, KcOwners, KcProjected, NoOrderSelectsOwner
<1>2. KcInv /\ [KcNext]_kd => KcInv'
  <2> SUFFICES ASSUME KcInv, [KcNext]_kd PROVE KcInv'
    OBVIOUS
  <2>1. CASE UNCHANGED kd
    BY <2>1 DEF KcInv, NoOrderSelectsOwner, Listed, Twins
  <2> QED BY <2>1, ObjectKeepsInv, DiscoverKeepsInv DEF KcNext
<1>3. KcInv => NoOrderSelectsOwner
  BY DEF KcInv
<1> QED BY <1>1, <1>2, <1>3, PTL DEF KcSpec

-----------------------------------------------------------------------------
(* The image store.                                                        *)

ImRels  == Nat \cup {NoIm}
ImKinds == {"none", "torn", "pulled", "baked", "sealed"}
ImOps   == {"none", "pull", "bake", "seal", "rebake"}
ImCodes == {"ok", "upstream", "input", "unavailable", "customize", "state", "marker", "invariant"}
ImPcs   == {"idle", "exit", "resolve", "download", "aliases", "bake", "staging", "customize", "markBaked",
            "prepareSeal", "checkSeal", "seal", "lock", "publish", "markSealed"}
ImFiles == [kind : ImKinds, rel : ImRels, ver : Nat]
ImTagEntries == [baked : BOOLEAN, sealed : BOOLEAN, ver : Nat]
ImManifests == [rel : ImRels, tags : [ImTags -> ImTagEntries \cup {NoIm}]]
ImClis == [op : ImOps, force : BOOLEAN, alias : ImAliases \cup {NoIm}, tag : ImTags \cup {NoIm},
           pc : ImPcs, rel : ImRels, todo : SUBSET ImAliases, code : ImCodes]
ImStores == [ImAliases -> ImManifests \cup {NoIm}]
ImRaws  == [ImTags -> ImFiles]
ImBits  == [ImTags -> BOOLEAN]
ImObjects == SUBSET ImRels
ImStates == [up : Nat, ver : Nat, objects : ImObjects, manifest : ImStores, baked : ImRaws, sealed : ImRaws,
             readonly : ImBits, marker : ImBits, appliance : BOOLEAN, cli : ImClis]

\* Aliases name published objects, also the one that a pull is about to name;
\* a marker together with a read-only raw vouches for the raw, so a raw that is
\* being customised has lost one of the two.
Named(s) ==
  /\ \A a \in ImAliases : s.manifest[a] # NoIm => s.manifest[a].rel \in s.objects
  /\ s.cli.pc = "aliases" => s.cli.rel \in s.objects
Vouched(s) == \A t \in ImTags : s.marker[t] /\ s.readonly[t] => s.sealed[t].kind = "sealed"
AtWork(s) ==
  /\ s.cli.pc \notin {"idle", "exit"} => s.cli.alias \in ImAliases /\ s.cli.tag \in ImTags
  /\ s.cli.pc = "seal" => ~(s.marker[s.cli.tag] /\ s.readonly[s.cli.tag])
  /\ s.cli.pc = "checkSeal" /\ s.cli.force => ~s.readonly[s.cli.tag]
  /\ s.cli.pc \in {"lock", "publish"} => s.sealed[s.cli.tag].kind = "sealed"

ImGood(s) == s \in ImStates /\ Named(s) /\ Vouched(s) /\ AtWork(s)

Sealing == {"seal", "checkSeal", "lock", "publish"}

LEMMA ImIdleTyped == ImIdle \in ImClis
BY DEF ImIdle, ImClis, ImRels, ImOps, ImPcs, ImCodes

\* A command ends; Goto moves it on.
LEMMA ExitFacts ==
  ASSUME im \in ImStates, NEW s \in ImStates, NEW c \in ImCodes
  PROVE  /\ Exit(s, c) \in ImStates /\ Exit(s, c).cli.pc = "exit"
         /\ Exit(s, c).objects = s.objects /\ Exit(s, c).manifest = s.manifest /\ Exit(s, c).sealed = s.sealed
         /\ Exit(s, c).readonly = s.readonly /\ Exit(s, c).marker = s.marker
<1> DEFINE cli == [ImIdle EXCEPT !.pc = "exit", !.op = im.cli.op, !.code = c]
<1>1. im.cli \in ImClis
  BY DEF ImStates
<1>2. cli \in ImClis /\ cli.pc = "exit"
  BY <1>1, ImIdleTyped DEF ImClis, ImPcs, ImOps
<1>3. Exit(s, c) = [s EXCEPT !.cli = cli]
  BY DEF Exit
<1> HIDE DEF cli
<1> QED BY <1>2, <1>3 DEF ImStates

LEMMA GotoFacts ==
  ASSUME NEW s \in ImStates, NEW pc \in ImPcs
  PROVE  /\ Goto(s, pc) \in ImStates /\ Goto(s, pc).cli.pc = pc
         /\ Goto(s, pc).cli.alias = s.cli.alias /\ Goto(s, pc).cli.tag = s.cli.tag /\ Goto(s, pc).cli.force = s.cli.force
         /\ Goto(s, pc).cli.rel = s.cli.rel
         /\ Goto(s, pc).objects = s.objects /\ Goto(s, pc).manifest = s.manifest /\ Goto(s, pc).sealed = s.sealed
         /\ Goto(s, pc).readonly = s.readonly /\ Goto(s, pc).marker = s.marker
<1> DEFINE cli == [s.cli EXCEPT !.pc = pc]
<1>1. s.cli \in ImClis
  BY DEF ImStates
<1>2. /\ cli \in ImClis /\ cli.pc = pc /\ cli.alias = s.cli.alias /\ cli.tag = s.cli.tag /\ cli.force = s.cli.force
      /\ cli.rel = s.cli.rel
  BY <1>1 DEF ImClis
<1>3. Goto(s, pc) = [s EXCEPT !.cli = cli]
  BY DEF Goto
<1> HIDE DEF cli
<1> QED BY <1>2, <1>3 DEF ImStates

\* A store that nothing sealed changes in, with a command that neither names
\* objects nor seals.
LEMMA ImCalm ==
  ASSUME ImGood(im), NEW s \in ImStates, s.objects = im.objects, s.manifest = im.manifest, s.sealed = im.sealed,
         s.readonly = im.readonly, s.marker = im.marker, s.cli.pc \notin Sealing \cup {"aliases"},
         s.cli.pc \in {"idle", "exit"} \/ (s.cli.alias \in ImAliases /\ s.cli.tag \in ImTags)
  PROVE  ImGood(s)
BY DEF ImGood, Named, Vouched, AtWork, Sealing

LEMMA ImExits == ASSUME ImGood(im), NEW c \in ImCodes PROVE ImGood(Exit(im, c))
BY ExitFacts, ImCalm DEF ImGood, Sealing

\* Commands begin and end, and are killed; the world moves on.
LEMMA ImCommandStep ==
  ASSUME ImGood(im), NEW op \in {"pull", "bake", "seal", "rebake"}, NEW f \in BOOLEAN, NEW a \in ImAliases, NEW t \in ImTags,
         image_command(op, f, a, t)
  PROVE  ImGood(im')
<1> DEFINE pc == CASE op = "pull" -> "resolve" [] op = "seal" -> "prepareSeal" [] OTHER -> "bake"
           cli == [ImIdle EXCEPT !.op = op, !.force = f \/ op = "rebake", !.alias = a, !.tag = t, !.pc = pc]
<1>1. pc \in {"resolve", "prepareSeal", "bake"}
  OBVIOUS
<1>2. im' = [im EXCEPT !.cli = cli] /\ im \in ImStates
  BY DEF image_command, ImGood
<1> HIDE DEF pc
<1>3. cli \in ImClis /\ cli.pc = pc /\ cli.alias = a /\ cli.tag = t
  BY ZenonT(40), <1>1, ImIdleTyped DEF ImClis, ImPcs, ImOps
<1> HIDE DEF cli
<1>4. /\ im' \in ImStates /\ im'.cli = cli /\ im'.objects = im.objects /\ im'.manifest = im.manifest /\ im'.sealed = im.sealed
      /\ im'.readonly = im.readonly /\ im'.marker = im.marker
  BY <1>2, <1>3 DEF ImStates
<1> QED BY <1>1, <1>3, <1>4, ImCalm DEF Sealing

LEMMA ImWorldStep ==
  ASSUME ImGood(im), image_command_ends \/ image_killed \/ Publish \/ UpgradeToolkit PROVE ImGood(im')
<1>1. im \in ImStates
  BY DEF ImGood
<1>2. CASE image_command_ends \/ image_killed
  <2>1. im' = [im EXCEPT !.cli = ImIdle] /\ ImIdle.pc = "idle"
    BY <1>2 DEF image_command_ends, image_killed, ImIdle
  <2>2. /\ im' \in ImStates /\ im'.cli = ImIdle /\ im'.objects = im.objects /\ im'.manifest = im.manifest
        /\ im'.sealed = im.sealed /\ im'.readonly = im.readonly /\ im'.marker = im.marker
    BY <1>1, <2>1, ImIdleTyped DEF ImStates
  <2> QED BY <2>1, <2>2, ImCalm DEF Sealing
<1>3. CASE Publish \/ UpgradeToolkit
  <2>1. im' = [im EXCEPT !.up = @ + 1] \/ im' = [im EXCEPT !.ver = @ + 1]
    BY <1>3 DEF Publish, UpgradeToolkit
  <2>2. im' \in ImStates
    BY <1>1, <2>1 DEF ImStates
  <2>3. /\ im'.cli = im.cli /\ im'.objects = im.objects /\ im'.manifest = im.manifest
        /\ im'.sealed = im.sealed /\ im'.readonly = im.readonly /\ im'.marker = im.marker
    BY <1>1, <2>1 DEF ImStates
  <2> QED BY <2>2, <2>3 DEF ImGood, Named, Vouched, AtWork
<1> QED BY <1>2, <1>3

\* Pull.
LEMMA ResolvedTyped == ASSUME im \in ImStates, NEW m PROVE resolve_source(m) \in ImRels
<1>1. im.up \in Nat /\ 1 \in ImRels /\ NoIm \in ImRels /\ Nat \subseteq ImRels
  BY DEF ImStates, ImRels
<1>2. resolve_github_asset(m) \in ImRels /\ resolve_github_pinned_asset(m) \in ImRels
  BY <1>1 DEF resolve_github_asset, resolve_github_pinned_asset
<1> QED BY <1>1, <1>2, ImagesAssumption DEF resolve_source

LEMMA PullStep ==
  ASSUME ImGood(im), pull_resolve \/ download_verify \/ pull_with PROVE ImGood(im')
<1>1. im \in ImStates /\ im.cli \in ImClis
  BY DEF ImGood, ImStates
<1>2. CASE pull_resolve
  <2>1. PICK rel \in ImRels : im' = Exit(im, "upstream") \/ im' = Exit(im, "ok") \/ im' = [im EXCEPT !.cli.rel = rel, !.cli.pc = "download"]
    BY <1>1, <1>2, ResolvedTyped DEF pull_resolve
  <2>2. CASE im' = [im EXCEPT !.cli.rel = rel, !.cli.pc = "download"]
    <3> DEFINE cli == [im.cli EXCEPT !.rel = rel, !.pc = "download"]
    <3>1. cli \in ImClis /\ cli.pc = "download" /\ cli.alias = im.cli.alias /\ cli.tag = im.cli.tag
      BY <1>1 DEF ImClis, ImPcs
    <3>2. im' = [im EXCEPT !.cli = cli]
      BY <1>1, <2>2 DEF ImStates, ImClis
    <3> HIDE DEF cli
    <3>3. /\ im' \in ImStates /\ im'.cli = cli /\ im'.objects = im.objects /\ im'.manifest = im.manifest
          /\ im'.sealed = im.sealed /\ im'.readonly = im.readonly /\ im'.marker = im.marker
      BY <1>1, <3>1, <3>2 DEF ImStates
    <3>4. im.cli.alias \in ImAliases /\ im.cli.tag \in ImTags
      BY <1>2 DEF pull_resolve, At, ImGood, AtWork
    <3> QED BY <3>1, <3>3, <3>4, ImCalm DEF Sealing
  <2> QED BY <2>1, <2>2, ImExits DEF ImCodes
<1>3. CASE download_verify
  <2>1. im' = Exit(im, "upstream") \/ im' = [im EXCEPT !.objects = @ \cup {im.cli.rel}, !.cli.pc = "aliases", !.cli.todo = ImAliases]
    BY <1>3 DEF download_verify
  <2>2. CASE im' = [im EXCEPT !.objects = @ \cup {im.cli.rel}, !.cli.pc = "aliases", !.cli.todo = ImAliases]
    <3> DEFINE cli == [im.cli EXCEPT !.pc = "aliases", !.todo = ImAliases]
               objects == im.objects \cup {im.cli.rel}
    <3>1. cli \in ImClis /\ cli.pc = "aliases" /\ cli.alias = im.cli.alias /\ cli.tag = im.cli.tag /\ cli.rel = im.cli.rel
      BY <1>1 DEF ImClis, ImPcs
    <3>2. objects \in ImObjects /\ im.objects \subseteq objects /\ im.cli.rel \in objects
      BY <1>1 DEF ImObjects, ImStates, ImClis
    <3>3. im' = [im EXCEPT !.objects = objects, !.cli = cli]
      BY <1>1, <2>2 DEF ImStates, ImClis
    <3> HIDE DEF cli, objects
    <3>4. /\ im' \in ImStates /\ im'.cli = cli /\ im'.objects = objects /\ im'.manifest = im.manifest
          /\ im'.sealed = im.sealed /\ im'.readonly = im.readonly /\ im'.marker = im.marker
      BY <1>1, <3>1, <3>2, <3>3 DEF ImStates
    <3>5. im.cli.alias \in ImAliases /\ im.cli.tag \in ImTags
      BY <1>3 DEF download_verify, At, ImGood, AtWork
    <3> QED BY <3>1, <3>2, <3>4, <3>5 DEF ImGood, Named, Vouched, AtWork
  <2> QED BY <2>1, <2>2, ImExits DEF ImCodes
<1>4. CASE pull_with
  <2>1. im.cli.pc = "aliases" /\ im.cli.rel \in im.objects /\ im.cli.alias \in ImAliases /\ im.cli.tag \in ImTags
    BY <1>4 DEF pull_with, At, ImGood, AtWork, Named
  <2>2. CASE im' = Exit(im, "ok")
    BY <2>2, ImExits DEF ImCodes
  <2>3. ASSUME NEW a \in im.cli.todo, im' = [im EXCEPT !.manifest[a] = alias_manifest(im.cli.rel), !.cli.todo = @ \ {a}]
        PROVE  ImGood(im')
    <3> DEFINE cli == [im.cli EXCEPT !.todo = @ \ {a}]
               entry == alias_manifest(im.cli.rel)
               manifest == [im.manifest EXCEPT ![a] = entry]
    <3>1. cli \in ImClis /\ cli.pc = "aliases" /\ cli.alias = im.cli.alias /\ cli.tag = im.cli.tag /\ cli.rel = im.cli.rel
      BY <1>1, <2>1 DEF ImClis
    <3>2. entry \in ImManifests /\ entry.rel = im.cli.rel /\ a \in ImAliases
      BY <1>1, <2>3 DEF alias_manifest, ImManifests, ImClis
    <3>3. im' = [im EXCEPT !.manifest = manifest, !.cli = cli]
      BY <1>1, <2>3 DEF ImStates, ImClis
    <3> HIDE DEF cli, entry
    <3>4. manifest \in ImStores /\ \A x \in ImAliases : manifest[x] = IF x = a THEN entry ELSE im.manifest[x]
      BY <1>1, <3>2 DEF ImStates, ImStores
    <3> HIDE DEF manifest
    <3>5. /\ im' \in ImStates /\ im'.cli = cli /\ im'.objects = im.objects /\ im'.manifest = manifest
          /\ im'.sealed = im.sealed /\ im'.readonly = im.readonly /\ im'.marker = im.marker
      BY <1>1, <3>1, <3>3, <3>4 DEF ImStates
    <3> QED BY <2>1, <3>1, <3>2, <3>4, <3>5 DEF ImGood, Named, Vouched, AtWork
  <2>4. im.cli.todo # {} => (CHOOSE x \in im.cli.todo : TRUE) \in im.cli.todo
    OBVIOUS
  <2> QED BY <1>4, <2>2, <2>3, <2>4 DEF pull_with
<1> QED BY <1>2, <1>3, <1>4


\* What leaves the store's seals and names alone.
SameStore(s) ==
  /\ s.objects = im.objects /\ s.manifest = im.manifest /\ s.sealed = im.sealed
  /\ s.readonly = im.readonly /\ s.marker = im.marker

\* The backend: a result for the raw, or the end of the command.
LEMMA CustomizeFacts ==
  ASSUME im \in ImStates, NEW before \in ImFiles, NEW after \in ImFiles, NEW r \in customize(before, after)
  PROVE  /\ r[1] \in ImStates /\ SameStore(r[1]) /\ (r[1].cli.pc = "exit" \/ r[1].cli = im.cli)
         /\ r[2].file \in ImFiles /\ (r[2].ok => r[2].file = after)
<1> DEFINE Fine(s) == s \in ImStates /\ SameStore(s) /\ (s.cli.pc = "exit" \/ s.cli = im.cli)
           RawOk(q) == q.file \in ImFiles /\ (q.ok => q.file = after)
<1>1. Fine(im) /\ Fine(Exit(im, "unavailable"))
  BY ExitFacts DEF SameStore, ImCodes
<1>2. ASSUME NEW s \in ensure_builder_image(im) PROVE Fine(s)
  <2>1. s = im \/ s = [im EXCEPT !.appliance = TRUE] \/ s = Exit(im, "unavailable")
    BY <1>2 DEF ensure_builder_image, provision_builder_image
  <2>2. Fine([im EXCEPT !.appliance = TRUE])
    BY DEF ImStates, SameStore
  <2> QED BY <1>1, <2>1, <2>2
<1>3. Torn \in ImFiles
  BY DEF Torn, ImFiles, ImKinds, ImRels
<1>4. ASSUME NEW q \in run_builder_vm(before, after) \cup run_virt_customize(before, after) PROVE RawOk(q)
  <2>1. CASE q \in run_builder_vm(before, after)
    <3>1. q \in {[ok |-> TRUE, file |-> after]} \/ q \in [ok : {FALSE}, file : {before, Torn}]
      BY <2>1 DEF run_builder_vm
    <3>2. CASE q \in [ok : {FALSE}, file : {before, Torn}]
      <4>1. q.ok = FALSE /\ q.file \in {before, Torn}
        BY <3>2
      <4> QED BY <1>3, <4>1
    <3>3. CASE q = [ok |-> TRUE, file |-> after]
      <4>1. q.ok = TRUE /\ q.file = after
        BY <3>3
      <4> QED BY <4>1
    <3> QED BY <3>1, <3>2, <3>3
  <2>2. CASE q \in run_virt_customize(before, after)
    BY <1>3, <2>2 DEF run_virt_customize
  <2> QED BY <1>4, <2>1, <2>2
<1>5. \/ r = <<Exit(im, "unavailable"), [ok |-> FALSE, file |-> before]>>
      \/ r \in {im} \X run_virt_customize(before, after)
      \/ r \in ensure_builder_image(im) \X run_builder_vm(before, after)
  BY DEF customize, select_backend_kind
<1> HIDE DEF Fine
<1>6. Fine(r[1])
  BY <1>1, <1>2, <1>5
<1>7. RawOk(r[2])
  BY <1>4, <1>5
<1> QED BY <1>6, <1>7 DEF Fine

\* A raw of a tag is replaced.
LEMMA BakedWritten ==
  ASSUME NEW s \in ImStates, NEW t \in ImTags, NEW f \in ImFiles
  PROVE  LET u == [s EXCEPT !.baked[t] = f]
         IN  /\ u \in ImStates /\ u.cli = s.cli /\ u.objects = s.objects /\ u.manifest = s.manifest /\ u.sealed = s.sealed
             /\ u.readonly = s.readonly /\ u.marker = s.marker
<1> DEFINE b == [s.baked EXCEPT ![t] = f]
           u == [s EXCEPT !.baked[t] = f]
<1>1. b \in ImRaws
  BY DEF ImStates, ImRaws
<1>2. u = [s EXCEPT !.baked = b]
  BY DEF ImStates
<1> HIDE DEF b
<1>3. u \in ImStates
  BY <1>1, <1>2 DEF ImStates
<1>4. /\ u.cli = s.cli /\ u.objects = s.objects /\ u.manifest = s.manifest /\ u.sealed = s.sealed
      /\ u.readonly = s.readonly /\ u.marker = s.marker
  BY <1>2 DEF ImStates
<1> QED BY <1>3, <1>4

LEMMA SealedWritten ==
  ASSUME NEW s \in ImStates, NEW t \in ImTags, NEW f \in ImFiles
  PROVE  LET u == [s EXCEPT !.sealed[t] = f]
         IN  /\ u \in ImStates /\ u.cli = s.cli /\ u.objects = s.objects /\ u.manifest = s.manifest
             /\ u.readonly = s.readonly /\ u.marker = s.marker
             /\ \A x \in ImTags : u.sealed[x] = IF x = t THEN f ELSE s.sealed[x]
<1> DEFINE b == [s.sealed EXCEPT ![t] = f]
           u == [s EXCEPT !.sealed[t] = f]
<1>1. b \in ImRaws /\ \A x \in ImTags : b[x] = IF x = t THEN f ELSE s.sealed[x]
  BY DEF ImStates, ImRaws
<1>2. u = [s EXCEPT !.sealed = b]
  BY DEF ImStates
<1> HIDE DEF b
<1>3. u \in ImStates
  BY <1>1, <1>2 DEF ImStates
<1>4. /\ u.cli = s.cli /\ u.objects = s.objects /\ u.manifest = s.manifest /\ u.sealed = b
      /\ u.readonly = s.readonly /\ u.marker = s.marker
  BY <1>2 DEF ImStates
<1> QED BY <1>1, <1>3, <1>4

LEMMA ReadonlyWritten ==
  ASSUME NEW s \in ImStates, NEW t \in ImTags, NEW f \in BOOLEAN
  PROVE  LET u == [s EXCEPT !.readonly[t] = f]
         IN  /\ u \in ImStates /\ u.cli = s.cli /\ u.objects = s.objects /\ u.manifest = s.manifest
             /\ u.sealed = s.sealed /\ u.marker = s.marker
             /\ \A x \in ImTags : u.readonly[x] = IF x = t THEN f ELSE s.readonly[x]
<1> DEFINE b == [s.readonly EXCEPT ![t] = f]
           u == [s EXCEPT !.readonly[t] = f]
<1>1. b \in ImBits /\ \A x \in ImTags : b[x] = IF x = t THEN f ELSE s.readonly[x]
  BY DEF ImStates, ImBits
<1>2. u = [s EXCEPT !.readonly = b]
  BY DEF ImStates
<1> HIDE DEF b
<1>3. u \in ImStates
  BY <1>1, <1>2 DEF ImStates
<1>4. /\ u.cli = s.cli /\ u.objects = s.objects /\ u.manifest = s.manifest /\ u.sealed = s.sealed
      /\ u.readonly = b /\ u.marker = s.marker
  BY <1>2 DEF ImStates
<1> QED BY <1>1, <1>3, <1>4

\* The loop over the aliases begins.
LEMMA LoopBegins ==
  ASSUME NEW s \in ImStates, NEW pc \in ImPcs
  PROVE  LET u == [s EXCEPT !.cli.pc = pc, !.cli.todo = ImAliases]
         IN  /\ u \in ImStates /\ u.cli.pc = pc /\ u.cli.alias = s.cli.alias /\ u.cli.tag = s.cli.tag
             /\ u.objects = s.objects /\ u.manifest = s.manifest /\ u.sealed = s.sealed
             /\ u.readonly = s.readonly /\ u.marker = s.marker
<1> DEFINE cli == [s.cli EXCEPT !.pc = pc, !.todo = ImAliases]
           u == [s EXCEPT !.cli.pc = pc, !.cli.todo = ImAliases]
<1>1. s.cli \in ImClis
  BY DEF ImStates
<1>2. cli \in ImClis /\ cli.pc = pc /\ cli.alias = s.cli.alias /\ cli.tag = s.cli.tag
  BY <1>1 DEF ImClis
<1>3. u = [s EXCEPT !.cli = cli]
  BY <1>1 DEF ImStates, ImClis
<1> HIDE DEF cli
<1>4. u \in ImStates
  BY <1>2, <1>3 DEF ImStates
<1>5. u.cli = cli /\ u.objects = s.objects /\ u.manifest = s.manifest /\ u.sealed = s.sealed
      /\ u.readonly = s.readonly /\ u.marker = s.marker
  BY <1>3 DEF ImStates
<1> QED BY <1>2, <1>4, <1>5

\* Bake: the sealed raw is not touched.
LEMMA BakeStep ==
  ASSUME ImGood(im), prepare_alias_for_bake \/ build_staging \/ bake_image PROVE ImGood(im')
<1>1. im \in ImStates /\ im.cli.alias \in ImAliases /\ im.cli.tag \in ImTags
  BY DEF ImGood, AtWork, prepare_alias_for_bake, build_staging, bake_image, At
<1>2. ASSUME NEW s \in ImStates, SameStore(s), NEW c \in ImCodes PROVE ImGood(Exit(s, c))
  BY <1>1, <1>2, ExitFacts, ImCalm DEF SameStore, Sealing
<1>3. CASE prepare_alias_for_bake
  <2> DEFINE f == [kind |-> "pulled", rel |-> im.manifest[im.cli.alias].rel, ver |-> 0]
  <2>1. \/ im' = Exit(im, "ok") \/ im' = Exit(im, "input")
        \/ im' = Exit([im EXCEPT !.baked[im.cli.tag] = Torn], "input")
        \/ resolve_alias_pulled(im.cli.alias) /\ im' = Goto([im EXCEPT !.baked[im.cli.tag] = f], "staging")
    BY <1>3 DEF prepare_alias_for_bake
  <2>2. Torn \in ImFiles /\ (resolve_alias_pulled(im.cli.alias) => f \in ImFiles)
    <3>1. resolve_alias_pulled(im.cli.alias) => im.manifest[im.cli.alias].rel \in ImRels
      BY <1>1 DEF resolve_alias_pulled, read_alias_manifest, ImStates, ImStores, ImManifests
    <3> QED BY <3>1 DEF Torn, ImFiles, ImKinds, ImRels
  <2> HIDE DEF f
  <2>3. ASSUME NEW g \in ImFiles PROVE /\ [im EXCEPT !.baked[im.cli.tag] = g] \in ImStates /\ SameStore([im EXCEPT !.baked[im.cli.tag] = g])
                                      /\ [im EXCEPT !.baked[im.cli.tag] = g].cli = im.cli
    BY <1>1, <2>3, BakedWritten DEF SameStore
  <2>4. CASE resolve_alias_pulled(im.cli.alias) /\ im' = Goto([im EXCEPT !.baked[im.cli.tag] = f], "staging")
    <3> DEFINE s == [im EXCEPT !.baked[im.cli.tag] = f]
    <3>1. s \in ImStates /\ SameStore(s) /\ s.cli = im.cli /\ im' = Goto(s, "staging")
      BY <2>2, <2>3, <2>4
    <3> HIDE DEF s
    <3>2. /\ im' \in ImStates /\ im'.cli.pc = "staging" /\ im'.cli.alias = im.cli.alias /\ im'.cli.tag = im.cli.tag
          /\ SameStore(im')
      BY <3>1, GotoFacts DEF SameStore, ImPcs
    <3> QED BY <1>1, <3>2, ImCalm DEF SameStore, Sealing
  <2>5. CASE im' = Exit([im EXCEPT !.baked[im.cli.tag] = Torn], "input")
    BY <1>2, <2>2, <2>3, <2>5 DEF ImCodes
  <2> QED BY <2>1, <2>4, <2>5, ImExits DEF ImCodes
<1>4. CASE build_staging
  <2>1. im' = Goto(im, "customize") \/ im' = Exit(im, "unavailable")
    BY <1>4 DEF build_staging
  <2>2. ImGood(Goto(im, "customize"))
    BY <1>1, GotoFacts, ImCalm DEF Sealing, ImPcs
  <2> QED BY <2>1, <2>2, ImExits DEF ImCodes
<1>5. CASE bake_image
  <2> DEFINE t == im.cli.tag
             after == [im.baked[t] EXCEPT !.kind = "baked", !.ver = im.ver]
  <2>1. im.baked[t] \in ImFiles /\ after \in ImFiles
    <3>1. im.baked[t] \in ImFiles /\ im.ver \in Nat
      BY <1>1 DEF ImStates, ImRaws
    <3> QED BY <3>1 DEF ImFiles, ImKinds
  <2>2. PICK r \in customize(im.baked[t], after) :
          LET s == [r[1] EXCEPT !.baked[t] = r[2].file]
          IN  im' = CASE r[1].cli.pc = "exit" -> r[1]
                      [] r[1].cli.pc # "exit" /\ r[2].ok -> [s EXCEPT !.cli.pc = "markBaked", !.cli.todo = ImAliases]
                      [] OTHER -> Exit(s, "customize")
    BY <1>5 DEF bake_image
  <2> HIDE DEF after
  <2>3. /\ r[1] \in ImStates /\ SameStore(r[1]) /\ (r[1].cli.pc = "exit" \/ r[1].cli = im.cli) /\ r[2].file \in ImFiles
    BY <1>1, <2>1, <2>2, CustomizeFacts
  <2> DEFINE s == [r[1] EXCEPT !.baked[t] = r[2].file]
  <2>4. s \in ImStates /\ SameStore(s) /\ s.cli = r[1].cli
    BY <1>1, <2>3, BakedWritten DEF SameStore
  <2>5. \/ r[1].cli.pc = "exit" /\ im' = r[1]
        \/ r[1].cli.pc # "exit" /\ im' = [s EXCEPT !.cli.pc = "markBaked", !.cli.todo = ImAliases]
        \/ im' = Exit(s, "customize")
    BY <2>2
  <2> HIDE DEF s
  <2>6. CASE r[1].cli.pc = "exit" /\ im' = r[1]
    BY <2>3, <2>6, ImCalm DEF SameStore, Sealing
  <2>7. CASE r[1].cli.pc # "exit" /\ im' = [s EXCEPT !.cli.pc = "markBaked", !.cli.todo = ImAliases]
    <3>1. /\ im' \in ImStates /\ im'.cli.pc = "markBaked" /\ im'.cli.alias = s.cli.alias /\ im'.cli.tag = s.cli.tag
          /\ im'.objects = s.objects /\ im'.manifest = s.manifest /\ im'.sealed = s.sealed
          /\ im'.readonly = s.readonly /\ im'.marker = s.marker
      <4>1. "markBaked" \in ImPcs
        BY DEF ImPcs
      <4> QED BY <2>4, <2>7, <4>1, LoopBegins
    <3> QED BY <1>1, <2>3, <2>4, <2>7, <3>1, ImCalm DEF SameStore, Sealing
  <2>8. CASE im' = Exit(s, "customize")
    BY <1>2, <2>4, <2>8 DEF ImCodes
  <2> QED BY <2>5, <2>6, <2>7, <2>8
<1> QED BY <1>3, <1>4, <1>5

\* The manifests, alias by alias: their objects stay.
TagSaved(s, a, t, e, m) ==
  /\ s = [im EXCEPT !.cli.todo = @ \ {a}]
  /\ im' = [s EXCEPT !.marker = m, !.manifest[a].tags[t] = e]

LEMMA TagWritten ==
  ASSUME ImGood(im), NEW a \in im.cli.todo, NEW t \in ImTags, NEW e \in ImTagEntries, im.manifest[a] # NoIm, NEW m \in ImBits,
         im.cli.pc \in {"markBaked", "markSealed"}, \A x \in ImTags : m[x] => im.marker[x],
         NEW s \in ImStates, TagSaved(s, a, t, e, m)
  PROVE  ImGood(im')
<1>0. s = [im EXCEPT !.cli.todo = @ \ {a}] /\ im' = [s EXCEPT !.marker = m, !.manifest[a].tags[t] = e]
  BY DEF TagSaved
<1>1. im \in ImStates /\ im.cli \in ImClis /\ a \in ImAliases
  BY DEF ImGood, ImStates, ImClis
<1>2. s.cli.pc = im.cli.pc /\ s.cli.alias = im.cli.alias /\ s.cli.tag = im.cli.tag
  BY <1>0, <1>1 DEF ImStates, ImClis
<1>3. s.objects = im.objects /\ s.manifest = im.manifest /\ s.sealed = im.sealed /\ s.readonly = im.readonly
  BY <1>0, <1>1 DEF ImStates
<1> DEFINE g == [im.manifest[a].tags EXCEPT ![t] = e]
           h == [im.manifest[a] EXCEPT !.tags = g]
           b == [im.manifest EXCEPT ![a] = h]
<1>4. im.manifest[a] \in ImManifests /\ im.manifest \in ImStores
  BY <1>1 DEF ImStates, ImStores
<1>5. g \in [ImTags -> ImTagEntries \cup {NoIm}]
  BY <1>4 DEF ImManifests
<1>6. im' = [s EXCEPT !.marker = m, !.manifest = b]
  BY <1>0, <1>1, <1>3, <1>4 DEF ImStates, ImStores, ImManifests
<1> HIDE DEF g
<1>7. h \in ImManifests /\ h.rel = im.manifest[a].rel
  BY <1>4, <1>5 DEF ImManifests
<1> HIDE DEF h
<1>8. b \in ImStores /\ \A x \in ImAliases : b[x] = IF x = a THEN h ELSE im.manifest[x]
  BY <1>1, <1>4, <1>7 DEF ImStores
<1> HIDE DEF b
<1>9. im' \in ImStates
  BY <1>6, <1>8 DEF ImStates
<1>10. im'.cli = s.cli /\ im'.objects = im.objects /\ im'.manifest = b /\ im'.sealed = im.sealed /\ im'.readonly = im.readonly /\ im'.marker = m
  BY <1>3, <1>6, <1>9 DEF ImStates
<1>11. Named(im')
  BY <1>2, <1>7, <1>8, <1>10 DEF Named, ImGood
<1>12. Vouched(im') /\ AtWork(im')
  BY <1>2, <1>10 DEF Vouched, AtWork, ImGood
<1> QED BY <1>9, <1>11, <1>12 DEF ImGood


\* Marking the aliases as baked or sealed.
LEMMA MarkStep ==
  ASSUME ImGood(im), mark_aliases_baked \/ mark_aliases_sealed PROVE ImGood(im')
<1>1. /\ im \in ImStates /\ im.cli \in ImClis /\ im.cli.alias \in ImAliases /\ im.cli.tag \in ImTags
      /\ im.cli.pc \in {"markBaked", "markSealed"}
  BY DEF ImGood, AtWork, ImStates, mark_aliases_baked, mark_aliases_sealed, At
<1>2. ImGood(Goto(im, "prepareSeal")) /\ ImGood(Exit(im, "ok"))
  BY <1>1, GotoFacts, ImCalm, ImExits DEF Sealing, ImPcs, ImCodes
<1>3. ASSUME NEW a \in im.cli.todo
      PROVE  LET s == [im EXCEPT !.cli.todo = @ \ {a}] IN s \in ImStates /\ ImGood(s) /\ s.marker = im.marker
  <2> DEFINE cli == [im.cli EXCEPT !.todo = @ \ {a}]
             s == [im EXCEPT !.cli.todo = @ \ {a}]
  <2>1. cli \in ImClis /\ cli.pc = im.cli.pc /\ cli.alias = im.cli.alias /\ cli.tag = im.cli.tag
    BY <1>1 DEF ImClis
  <2>2. s = [im EXCEPT !.cli = cli]
    BY <1>1 DEF ImStates, ImClis
  <2> HIDE DEF cli
  <2>3. s \in ImStates
    BY <1>1, <2>1, <2>2 DEF ImStates
  <2>4. s.cli = cli /\ s.objects = im.objects /\ s.manifest = im.manifest /\ s.sealed = im.sealed
        /\ s.readonly = im.readonly /\ s.marker = im.marker
    BY <1>1, <2>2 DEF ImStates
  <2> HIDE DEF s
  <2>5. ImGood(s)
    BY <1>1, <2>1, <2>3, <2>4, ImCalm DEF Sealing
  <2> QED BY <2>3, <2>4, <2>5 DEF s
<1>4. CASE mark_aliases_baked
  <2> DEFINE t == im.cli.tag
  <2>1. ASSUME NEW a \in im.cli.todo, im.manifest[a] # NoIm,
               im' = [[im EXCEPT !.cli.todo = @ \ {a}] EXCEPT !.marker[t] = @ /\ ~(tag_entry(a, t) # NoIm /\ tag_entry(a, t).sealed),
                        !.manifest[a].tags[t] = [baked |-> TRUE, sealed |-> FALSE, ver |-> im.ver]]
        PROVE  ImGood(im')
    <3> DEFINE e == [baked |-> TRUE, sealed |-> FALSE, ver |-> im.ver]
               q == im.marker[t] /\ ~(tag_entry(a, t) # NoIm /\ tag_entry(a, t).sealed)
               m == [im.marker EXCEPT ![t] = q]
               s == [im EXCEPT !.cli.todo = @ \ {a}]
    <3>1. e \in ImTagEntries
      BY <1>1 DEF ImTagEntries, ImStates
    <3>2. q \in BOOLEAN /\ (q => im.marker[t])
      OBVIOUS
    <3>3. s \in ImStates /\ s.marker = im.marker /\ im.marker \in ImBits
      BY <1>1, <1>3 DEF ImStates
    <3>4. im' = [s EXCEPT !.marker[t] = q, !.manifest[a].tags[t] = e]
      BY <2>1, <3>3
    <3> HIDE DEF q
    <3>5. m \in ImBits /\ \A x \in ImTags : m[x] => im.marker[x]
      BY <1>1, <3>2, <3>3 DEF ImBits
    <3>6. im' = [s EXCEPT !.marker = m, !.manifest[a].tags[t] = e]
      BY <3>3, <3>4 DEF ImStates
    <3> HIDE DEF e, m
    <3>7. TagSaved(s, a, t, e, m)
      BY <3>6 DEF TagSaved
    <3> HIDE DEF s
    <3> QED BY <1>1, <2>1, <3>1, <3>3, <3>5, <3>7, TagWritten
  <2> QED BY <1>2, <1>3, <1>4, <2>1 DEF mark_aliases_baked
<1>5. CASE mark_aliases_sealed
  <2> DEFINE t == im.cli.tag
  <2>1. ASSUME NEW a \in im.cli.todo, im.manifest[a] # NoIm,
               im' = [[im EXCEPT !.cli.todo = @ \ {a}] EXCEPT
                        !.manifest[a].tags[t] = [baked |-> TRUE, sealed |-> TRUE, ver |-> IF tag_entry(a, t) = NoIm THEN 0 ELSE tag_entry(a, t).ver]]
        PROVE  ImGood(im')
    <3> DEFINE v == IF tag_entry(a, t) = NoIm THEN 0 ELSE tag_entry(a, t).ver
               e == [baked |-> TRUE, sealed |-> TRUE, ver |-> v]
               m == im.marker
               s == [im EXCEPT !.cli.todo = @ \ {a}]
    <3>1. a \in ImAliases /\ im.manifest[a] \in ImManifests
      BY <1>1, <2>1 DEF ImClis, ImStates, ImStores
    <3>2. v \in Nat
      <4>1. tag_entry(a, t) \in ImTagEntries \cup {NoIm}
        BY <1>1, <3>1 DEF tag_entry, read_alias_manifest, ImManifests
      <4> QED BY <4>1 DEF ImTagEntries
    <3>3. e \in ImTagEntries
      BY <3>2 DEF ImTagEntries
    <3>4. s \in ImStates /\ s.marker = m /\ m \in ImBits
      BY <1>1, <1>3 DEF ImStates
    <3>5. im' = [s EXCEPT !.manifest[a].tags[t] = e]
      BY <2>1
    <3> HIDE DEF e
    <3>6. im' = [s EXCEPT !.marker = m, !.manifest[a].tags[t] = e]
      BY <3>4, <3>5 DEF ImStates
    <3>7. TagSaved(s, a, t, e, m)
      BY <3>6 DEF TagSaved
    <3>8. \A x \in ImTags : m[x] => im.marker[x]
      OBVIOUS
    <3> HIDE DEF s, m
    <3> QED BY <1>1, <2>1, <3>3, <3>4, <3>7, <3>8, TagWritten
  <2> QED BY <1>2, <1>3, <1>5, <2>1 DEF mark_aliases_sealed
<1> QED BY <1>4, <1>5

\* Seal: the copy makes the raw writable, so it vouches for nothing.
LEMMA PrepareSealStep ==
  ASSUME ImGood(im), prepare_alias_for_seal PROVE ImGood(im')
<1> DEFINE t == im.cli.tag
           e == tag_entry(im.cli.alias, t)
           source == IF e # NoIm /\ e.baked THEN im.baked[t]
                     ELSE [kind |-> "pulled", rel |-> im.manifest[im.cli.alias].rel, ver |-> 0]
           w == [im EXCEPT !.readonly[t] = FALSE]
<1>1. im \in ImStates /\ im.cli.alias \in ImAliases /\ t \in ImTags
  BY DEF ImGood, AtWork, prepare_alias_for_seal, At
<1>2. \/ im' \in {Exit(im, "input"), Exit(im, "state")}
      \/ ~im.cli.force /\ im' = Goto(im, "checkSeal")
      \/ /\ im.manifest[im.cli.alias] # NoIm
         /\ im' = Goto([w EXCEPT !.sealed[t] = source], "checkSeal") \/ im' = Exit([w EXCEPT !.sealed[t] = Torn], "state")
  BY DEF prepare_alias_for_seal
<1>3. CASE ~im.cli.force /\ im' = Goto(im, "checkSeal")
  <2>1. /\ im' \in ImStates /\ im'.cli.pc = "checkSeal" /\ im'.cli.alias = im.cli.alias /\ im'.cli.tag = t /\ im'.cli.force = im.cli.force
        /\ SameStore(im')
    BY <1>1, <1>3, GotoFacts DEF SameStore, ImPcs
  <2> QED BY <1>1, <1>3, <2>1 DEF ImGood, Named, Vouched, AtWork, SameStore
<1>4. /\ w \in ImStates /\ w.cli = im.cli /\ w.objects = im.objects /\ w.manifest = im.manifest /\ w.sealed = im.sealed
      /\ w.marker = im.marker /\ \A x \in ImTags : w.readonly[x] = IF x = t THEN FALSE ELSE im.readonly[x]
  BY <1>1, ReadonlyWritten
<1> HIDE DEF w
<1>5. ASSUME NEW f \in ImFiles, NEW s, s = [w EXCEPT !.sealed[t] = f]
      PROVE  /\ s \in ImStates /\ s.cli = im.cli /\ Vouched(s) /\ ~s.readonly[t]
             /\ s.objects = im.objects /\ s.manifest = im.manifest
  <2>1. /\ s \in ImStates /\ s.cli = w.cli /\ s.objects = w.objects /\ s.manifest = w.manifest
        /\ s.readonly = w.readonly /\ s.marker = w.marker
        /\ \A x \in ImTags : s.sealed[x] = IF x = t THEN f ELSE w.sealed[x]
    BY <1>1, <1>4, <1>5, SealedWritten
  <2>2. Vouched(im) /\ ~w.readonly[t]
    BY <1>1, <1>4 DEF ImGood
  <2>3. ASSUME NEW x \in ImTags, s.marker[x], s.readonly[x] PROVE s.sealed[x].kind = "sealed"
    <3>1. w.readonly[x] /\ im.marker[x]
      BY <1>4, <2>1, <2>3
    <3>2. x # t
      BY <2>2, <3>1
    <3>3. im.readonly[x] /\ s.sealed[x] = im.sealed[x]
      BY <1>4, <2>1, <3>1, <3>2
    <3> QED BY <2>2, <3>1, <3>3 DEF Vouched
  <2>4. Vouched(s)
    BY <2>3 DEF Vouched
  <2> QED BY <1>1, <1>4, <2>1, <2>2, <2>4
<1>6. CASE im.manifest[im.cli.alias] # NoIm /\ im' = Goto([w EXCEPT !.sealed[t] = source], "checkSeal")
  <2> DEFINE s == [w EXCEPT !.sealed[t] = source]
  <2>1. source \in ImFiles
    <3>1. im.baked[t] \in ImFiles /\ im.manifest[im.cli.alias].rel \in ImRels
      BY <1>1, <1>6 DEF ImStates, ImRaws, ImStores, ImManifests
    <3> QED BY <3>1 DEF ImFiles, ImKinds
  <2>2. im' = Goto(s, "checkSeal")
    BY <1>6
  <2> HIDE DEF source
  <2>3. s \in ImStates /\ s.cli = im.cli /\ Vouched(s) /\ ~s.readonly[t] /\ s.objects = im.objects /\ s.manifest = im.manifest
    BY <1>5, <2>1
  <2> HIDE DEF s
  <2>4. /\ im' \in ImStates /\ im'.cli.pc = "checkSeal" /\ im'.cli.alias = im.cli.alias /\ im'.cli.tag = t
        /\ im'.objects = im.objects /\ im'.manifest = im.manifest /\ im'.sealed = s.sealed
        /\ im'.readonly = s.readonly /\ im'.marker = s.marker
    BY <2>2, <2>3, GotoFacts DEF ImPcs
  <2> QED BY <1>1, <2>3, <2>4 DEF ImGood, Named, Vouched, AtWork
<1>7. CASE im' = Exit([w EXCEPT !.sealed[t] = Torn], "state")
  <2> DEFINE s == [w EXCEPT !.sealed[t] = Torn]
  <2>1. Torn \in ImFiles
    BY DEF Torn, ImFiles, ImKinds, ImRels
  <2>2. im' = Exit(s, "state")
    BY <1>7
  <2>3. s \in ImStates /\ Vouched(s) /\ s.objects = im.objects /\ s.manifest = im.manifest
    BY <1>5, <2>1
  <2> HIDE DEF s
  <2>4. /\ im' \in ImStates /\ im'.cli.pc = "exit" /\ im'.objects = im.objects /\ im'.manifest = im.manifest
        /\ im'.sealed = s.sealed /\ im'.readonly = s.readonly /\ im'.marker = s.marker
    BY <1>1, <2>2, <2>3, ExitFacts DEF ImCodes
  <2> QED BY <2>3, <2>4 DEF ImGood, Named, Vouched, AtWork
<1> QED BY <1>2, <1>3, <1>6, <1>7, ImExits DEF ImCodes

\* The pipeline runs only on a raw without marker or without its read-only bit.
LEMMA CheckSealStep ==
  ASSUME ImGood(im), seal_image_in_dir PROVE ImGood(im')
<1>1. im \in ImStates /\ im.cli.pc = "checkSeal" /\ im.cli.alias \in ImAliases /\ im.cli.tag \in ImTags
  BY DEF ImGood, AtWork, seal_image_in_dir, At
<1>2. \/ im' \in {Exit(im, "marker"), Exit(im, "ok")}
      \/ im' = [im EXCEPT !.cli.pc = "markSealed", !.cli.todo = ImAliases]
      \/ (~im.marker[im.cli.tag] \/ im.cli.force) /\ im' = Goto(im, "seal")
  BY DEF seal_image_in_dir, read_existing_seal
<1>3. CASE im' = [im EXCEPT !.cli.pc = "markSealed", !.cli.todo = ImAliases]
  <2>1. "markSealed" \in ImPcs
    BY DEF ImPcs
  <2>2. /\ im' \in ImStates /\ im'.cli.pc = "markSealed" /\ im'.cli.alias = im.cli.alias /\ im'.cli.tag = im.cli.tag
        /\ im'.objects = im.objects /\ im'.manifest = im.manifest /\ im'.sealed = im.sealed
        /\ im'.readonly = im.readonly /\ im'.marker = im.marker
    BY <1>1, <1>3, <2>1, LoopBegins
  <2> QED BY <1>1, <2>2, ImCalm DEF Sealing
<1>4. CASE (~im.marker[im.cli.tag] \/ im.cli.force) /\ im' = Goto(im, "seal")
  <2>1. /\ im' \in ImStates /\ im'.cli.pc = "seal" /\ im'.cli.alias = im.cli.alias /\ im'.cli.tag = im.cli.tag
        /\ SameStore(im')
    BY <1>1, <1>4, GotoFacts DEF SameStore, ImPcs
  <2>2. ~(im.marker[im.cli.tag] /\ im.readonly[im.cli.tag])
    BY <1>1, <1>4 DEF ImGood, AtWork
  <2> QED BY <1>1, <2>1, <2>2 DEF ImGood, Named, Vouched, AtWork, SameStore
<1> QED BY <1>2, <1>3, <1>4, ImExits DEF ImCodes

LEMMA SealPipelineStep ==
  ASSUME ImGood(im), seal_pipeline PROVE ImGood(im')
<1> DEFINE t == im.cli.tag
           after == [im.sealed[t] EXCEPT !.kind = "sealed"]
<1>1. /\ im \in ImStates /\ im.cli.pc = "seal" /\ im.cli.alias \in ImAliases /\ t \in ImTags
      /\ ~(im.marker[t] /\ im.readonly[t])
  BY DEF ImGood, AtWork, seal_pipeline, At
<1>2. im.sealed[t] \in ImFiles /\ after \in ImFiles /\ after.kind = "sealed"
  <2>1. im.sealed[t] \in ImFiles
    BY <1>1 DEF ImStates, ImRaws
  <2> QED BY <2>1 DEF ImFiles, ImKinds
<1>3. PICK r \in customize(im.sealed[t], after) :
        LET s == [r[1] EXCEPT !.sealed[t] = r[2].file]
        IN  \/ r[1].cli.pc = "exit" /\ im' = r[1]
            \/ im' = Exit(r[1], "invariant")
            \/ r[1].cli.pc # "exit" /\ r[2].ok /\ im' = Goto(s, "lock")
            \/ im' = Exit(s, "customize")
  BY DEF seal_pipeline
<1>4. /\ r[1] \in ImStates /\ SameStore(r[1]) /\ (r[1].cli.pc = "exit" \/ r[1].cli = im.cli) /\ r[2].file \in ImFiles
      /\ r[2].ok => r[2].file.kind = "sealed"
  <2> HIDE DEF after
  <2> QED BY <1>1, <1>2, <1>3, CustomizeFacts
<1> DEFINE s == [r[1] EXCEPT !.sealed[t] = r[2].file]
<1>5. /\ s \in ImStates /\ s.cli = r[1].cli /\ s.objects = im.objects /\ s.manifest = im.manifest
      /\ s.readonly = im.readonly /\ s.marker = im.marker
      /\ \A x \in ImTags : s.sealed[x] = IF x = t THEN r[2].file ELSE im.sealed[x]
  BY <1>1, <1>4, SealedWritten DEF SameStore
<1>6. \/ r[1].cli.pc = "exit" /\ im' = r[1]
      \/ im' = Exit(r[1], "invariant")
      \/ r[1].cli.pc # "exit" /\ r[2].ok /\ im' = Goto(s, "lock")
      \/ im' = Exit(s, "customize")
  BY <1>3
<1> HIDE DEF s, after
<1>7. Vouched(s)
  BY <1>1, <1>5 DEF ImGood, Vouched
<1>8. CASE r[1].cli.pc = "exit" /\ im' = r[1]
  BY <1>4, <1>8, ImCalm DEF SameStore, Sealing
<1>9. CASE im' = Exit(r[1], "invariant")
  BY <1>1, <1>4, <1>9, ExitFacts, ImCalm DEF SameStore, Sealing, ImCodes
<1>10. CASE r[1].cli.pc # "exit" /\ r[2].ok /\ im' = Goto(s, "lock")
  <2>1. /\ im' \in ImStates /\ im'.cli.pc = "lock" /\ im'.cli.alias = im.cli.alias /\ im'.cli.tag = t
        /\ im'.objects = im.objects /\ im'.manifest = im.manifest /\ im'.sealed = s.sealed
        /\ im'.readonly = s.readonly /\ im'.marker = s.marker
    BY <1>4, <1>5, <1>10, GotoFacts DEF ImPcs
  <2>2. im'.sealed[t].kind = "sealed"
    BY <1>1, <1>4, <1>5, <1>10, <2>1
  <2> QED BY <1>1, <1>7, <2>1, <2>2 DEF ImGood, Named, Vouched, AtWork
<1>11. CASE im' = Exit(s, "customize")
  <2>1. /\ im' \in ImStates /\ im'.cli.pc = "exit" /\ im'.objects = im.objects /\ im'.manifest = im.manifest
        /\ im'.sealed = s.sealed /\ im'.readonly = s.readonly /\ im'.marker = s.marker
    BY <1>1, <1>5, <1>11, ExitFacts DEF ImCodes
  <2> QED BY <1>7, <2>1 DEF ImGood, Named, Vouched, AtWork
<1> QED BY <1>6, <1>8, <1>9, <1>10, <1>11

\* Read-only first, then the marker.
LEMMA LockStep ==
  ASSUME ImGood(im), write_seal_marker_and_lock PROVE ImGood(im')
<1> DEFINE t == im.cli.tag
<1>1. /\ im \in ImStates /\ im.cli.pc \in {"lock", "publish"} /\ im.cli.alias \in ImAliases /\ t \in ImTags
      /\ im.sealed[t].kind = "sealed"
  BY DEF ImGood, AtWork, write_seal_marker_and_lock, At
<1>2. ASSUME NEW f \in BOOLEAN, NEW w, w = [im EXCEPT !.readonly[t] = f]
      PROVE  /\ w \in ImStates /\ w.cli = im.cli /\ Vouched(w) /\ w.sealed = im.sealed
             /\ w.objects = im.objects /\ w.manifest = im.manifest
  <2>1. /\ w \in ImStates /\ w.cli = im.cli /\ w.objects = im.objects /\ w.manifest = im.manifest /\ w.sealed = im.sealed
        /\ w.marker = im.marker /\ \A x \in ImTags : w.readonly[x] = IF x = t THEN f ELSE im.readonly[x]
    BY <1>1, <1>2, ReadonlyWritten
  <2> QED BY <1>1, <2>1 DEF ImGood, Vouched
<1>3. CASE im' = Goto([im EXCEPT !.readonly[t] = TRUE], "publish")
  <2> DEFINE w == [im EXCEPT !.readonly[t] = TRUE]
  <2>1. /\ w \in ImStates /\ w.cli = im.cli /\ Vouched(w) /\ w.sealed = im.sealed /\ w.objects = im.objects
        /\ w.manifest = im.manifest /\ im' = Goto(w, "publish")
    BY <1>2, <1>3
  <2> HIDE DEF w
  <2>2. /\ im' \in ImStates /\ im'.cli.pc = "publish" /\ im'.cli.alias = im.cli.alias /\ im'.cli.tag = t
        /\ im'.objects = im.objects /\ im'.manifest = im.manifest /\ im'.sealed = w.sealed
        /\ im'.readonly = w.readonly /\ im'.marker = w.marker
    BY <2>1, GotoFacts DEF ImPcs
  <2> QED BY <1>1, <2>1, <2>2 DEF ImGood, Named, Vouched, AtWork
<1>4. CASE im' = Exit([im EXCEPT !.readonly[t] = FALSE], "state")
  <2> DEFINE w == [im EXCEPT !.readonly[t] = FALSE]
  <2>1. w \in ImStates /\ Vouched(w) /\ w.objects = im.objects /\ w.manifest = im.manifest /\ im' = Exit(w, "state")
    BY <1>2, <1>4
  <2> HIDE DEF w
  <2>2. /\ im' \in ImStates /\ im'.cli.pc = "exit" /\ im'.objects = im.objects /\ im'.manifest = im.manifest
        /\ im'.sealed = w.sealed /\ im'.readonly = w.readonly /\ im'.marker = w.marker
    BY <1>1, <2>1, ExitFacts DEF ImCodes
  <2> QED BY <2>1, <2>2 DEF ImGood, Named, Vouched, AtWork
<1>5. CASE im' = [im EXCEPT !.marker[t] = TRUE, !.cli.pc = "markSealed", !.cli.todo = ImAliases]
  <2> DEFINE m == [im.marker EXCEPT ![t] = TRUE]
             s == [im EXCEPT !.marker = m]
  <2>1. m \in ImBits /\ \A x \in ImTags : x # t => m[x] = im.marker[x]
    BY <1>1 DEF ImStates, ImBits
  <2>2. im' = [s EXCEPT !.cli.pc = "markSealed", !.cli.todo = ImAliases]
    BY <1>1, <1>5 DEF ImStates
  <2> HIDE DEF m
  <2>3. s \in ImStates
    BY <1>1, <2>1 DEF ImStates
  <2>4. s.cli = im.cli /\ s.objects = im.objects /\ s.manifest = im.manifest /\ s.sealed = im.sealed /\ s.readonly = im.readonly /\ s.marker = m
    BY <1>1 DEF ImStates
  <2> HIDE DEF s
  <2>5. "markSealed" \in ImPcs
    BY DEF ImPcs
  <2>6. /\ im' \in ImStates /\ im'.cli.pc = "markSealed" /\ im'.cli.alias = im.cli.alias /\ im'.cli.tag = t
        /\ im'.objects = im.objects /\ im'.manifest = im.manifest /\ im'.sealed = im.sealed
        /\ im'.readonly = im.readonly /\ im'.marker = m
    BY ZenonT(40), <2>2, <2>3, <2>4, <2>5, LoopBegins
  <2> QED BY <1>1, <2>1, <2>6 DEF ImGood, Named, Vouched, AtWork
<1> QED BY <1>3, <1>4, <1>5, ImExits DEF write_seal_marker_and_lock, ImCodes

\* For any aliases, tags, releases and versions, whatever fails or is killed
\* between two steps of pull, bake, seal and rebake: every alias names a
\* published object, and a base that vm create accepts went through the whole
\* seal pipeline (image.rs: objects by rename, read-only before the marker).
THEOREM BasesStayUsable == ImSpec => []BasesUsable
<1> DEFINE Inv == ImGood(im)
<1>1. ImInit => Inv
  <2> SUFFICES ASSUME ImInit PROVE ImGood(im)
    OBVIOUS
  <2>1. im \in ImStates
    <3>1. NoFile \in ImFiles
      BY DEF NoFile, ImFiles, ImKinds, ImRels
    <3>2. [t \in ImTags |-> NoFile] \in ImRaws /\ [t \in ImTags |-> FALSE] \in ImBits /\ [a \in ImAliases |-> NoIm] \in ImStores
          /\ {} \in ImObjects
      BY <3>1 DEF ImRaws, ImBits, ImStores, ImObjects
    <3> QED BY <3>2, ImIdleTyped DEF ImInit, ImStates
  <2> QED BY <2>1 DEF ImInit, ImGood, Named, Vouched, AtWork, ImIdle
<1>2. Inv /\ [ImNext]_im => Inv'
  <2> SUFFICES ASSUME ImGood(im), [ImNext]_im PROVE ImGood(im')
    OBVIOUS
  <2>1. CASE UNCHANGED im
    BY <2>1
  <2>2. CASE ImNext
    BY <2>2, ImCommandStep, ImWorldStep, PullStep, BakeStep, MarkStep, PrepareSealStep, CheckSealStep, SealPipelineStep,
       LockStep DEF ImNext
  <2> QED BY <2>1, <2>2
<1>3. Inv => BasesUsable
  <2>1. ASSUME ImGood(im) PROVE VmBaseIsSealed
    BY <2>1, ImagesAssumption DEF ImGood, Vouched, VmBaseIsSealed, resolve_alias_for_vm, read_existing_seal
  <2>2. ASSUME ImGood(im) PROVE AliasNamesObject
    BY <2>2 DEF ImGood, Named, AliasNamesObject
  <2> QED BY <2>1, <2>2 DEF BasesUsable
<1> QED BY <1>1, <1>2, <1>3, PTL DEF ImSpec

-----------------------------------------------------------------------------
(* Service claims.                                                         *)

ScKinds   == {"postgres", "s3", "ingress"}
ScPcs     == {"idle", "exited", "lock", "begin", "edge", "claim", "discover", "node_port", "ingress", "secret", "provision", "provisioning", "verify", "deliver",
              "deliver_ingress", "status_get", "status_patch", "record", "end"}
ScEdges   == {NoSc, "DiscoveryIncomplete", "routed", "KubernetesUnavailable", "GuestUnavailable", "IngressUnavailable",
              "RegistrationRevoked", "RegistrationUnavailable", "InvalidClaim"}
ScReasons == ScEdges \cup {"ProviderUnavailable", "CredentialCheckFailed", "Reconciled", "BindingDeliveryFailed"}
ScNums    == Nat \cup {NoSc}
ScStatus  == [uid : Nat, gen : Nat, state : {"Ready", "Degraded"}] \cup {NoSc}
ScClaims  == [uid : Nat, gen : Nat, status : ScStatus]
ScObjs    == ScClaims \cup {NoSc}
ScProcs   == [pc : ScPcs, gen : Nat, ok : BOOLEAN, late : Nat, obj : ScObjs, edge : ScEdges, pass : ScNums]
ScTables  == [Drivers -> ScProcs]
ScStages  == {"none", "check", "store", "tag", "account", "done", "denied", "failed"}
ScJobs    == [stage : ScStages, pass : ScNums, made : BOOLEAN]
ScJobTable == [Drivers -> ScJobs]
ScBackends == [by : {"vzctl", "other"}, tag : {"vzctl", NoSc}]
ScStores  == ScBackends \cup {NoSc}
ScRecs    == [state : {"Ready", "Degraded", NoSc}, reason : ScReasons, resource : ScNums]
ScStates  == [kind : ScKinds, reg : Nat, gens : Nat, lock : Drivers \cup {NoSc}, p : ScTables, secret : ScNums, rand : Nat,
              job : ScJobTable, account : ScNums, store : ScStores, touched : BOOLEAN, obj : ScObjs, uids : Nat,
              nodeport : BOOLEAN, route : ScNums, rec : ScRecs, binding : ScNums, shown : ScNums]

\* A driver: a run whose registration was revoked has had its last operation;
\* a credential it carries is the stored one; login and delivery follow a
\* provisioning that has left account and store; an edge verdict is about an
\* object.
Counted(s, q) == q.gen <= s.gens /\ (q.late # 0 => q.late = 1 /\ ~q.ok /\ q.gen # 0 /\ q.gen # s.reg)
Keyed(s, q)   == q.pc \in {"provision", "provisioning", "verify", "deliver"} => q.pass = s.secret /\ s.secret # NoSc
Ready(s, q)   == q.pc \in {"verify", "deliver"} => s.account # NoSc /\ s.store # NoSc
Edged(q) ==
  /\ q.edge \notin {NoSc, "DiscoveryIncomplete"} \/ q.pc = "node_port" => q.obj # NoSc
  /\ q.pc \in {"idle", "exited", "lock", "begin", "discover"} => q.edge = NoSc
ProcOk(s, q) == Counted(s, q) /\ Keyed(s, q) /\ Ready(s, q) /\ Edged(q)

\* A script in a guest, whether or not its driver still lives.
JobOk(s, j) ==
  /\ j.stage # "none" => j.pass = s.secret /\ s.secret # NoSc
  /\ j.stage \in {"tag", "account", "done"} => s.store # NoSc
  /\ j.stage = "done" => s.account # NoSc
  /\ s.kind = "postgres" /\ j.stage \in {"store", "tag"} => s.account # NoSc

\* Until somebody else touches the provider, what is there is ours.
ProviderOk(s) ==
  ~s.touched => s.account \in {NoSc, s.secret} /\ (s.store # NoSc => s.store.by = "vzctl")

\* What was delivered is the stored credential, and finds account and store.
BindOk(s) == s.binding # NoSc => s.binding = s.secret /\ s.account # NoSc /\ s.store # NoSc

StatusOk(o) == o # NoSc /\ o.status # NoSc => o.status.uid = o.uid /\ o.status.gen <= o.gen

ScGood(s) ==
  /\ s \in ScStates /\ s.reg <= s.gens /\ s.shown \in {NoSc, s.reg}
  /\ \A x \in Drivers : ProcOk(s, s.p[x])
  /\ \A x \in Drivers : JobOk(s, s.job[x])
  /\ ProviderOk(s) /\ StatusOk(s.obj) /\ BindOk(s)

\* What the drivers' invariant speaks of, besides themselves.
SameClaim(s) ==
  /\ s.reg = sc.reg /\ s.gens = sc.gens /\ s.secret = sc.secret /\ s.job = sc.job /\ s.account = sc.account
  /\ s.store = sc.store /\ s.touched = sc.touched /\ s.obj = sc.obj /\ s.kind = sc.kind /\ s.shown = sc.shown
SameDriver(q, r) == q.gen = r.gen /\ q.ok = r.ok /\ q.late = r.late /\ q.pass = r.pass

LEMMA ScIdleFacts == ScIdle \in ScProcs /\ \A s \in ScStates : ProcOk(s, ScIdle)
<1>1. ScIdle \in ScProcs
  BY DEF ScIdle, ScProcs, ScPcs, ScObjs, ScEdges, ScNums
<1>2. ASSUME NEW s \in ScStates PROVE ProcOk(s, ScIdle)
  <2>1. s.gens \in Nat
    BY DEF ScStates
  <2> QED BY <2>1 DEF ScIdle, ProcOk, Counted, Keyed, Ready, Edged
<1> QED BY <1>1, <1>2

\* A step of one driver that leaves the claim's backend alone.
LEMMA DriverSteps ==
  ASSUME ScGood(sc), NEW x \in Drivers, NEW t \in ScStates, SameClaim(t), \A y \in Drivers \ {x} : t.p[y] = sc.p[y],
         ProcOk(sc, t.p[x]), t.binding = sc.binding \/ BindOk(t)
  PROVE  ScGood(t)
<1>1. ASSUME NEW y \in Drivers PROVE ProcOk(t, t.p[y])
  <2>1. ProcOk(sc, t.p[y])
    BY DEF ScGood
  <2> QED BY <2>1 DEF ProcOk, Counted, Keyed, Ready, SameClaim
<1>2. ASSUME NEW y \in Drivers PROVE JobOk(t, t.job[y])
  BY DEF ScGood, JobOk, SameClaim
<1>3. ProviderOk(t) /\ StatusOk(t.obj)
  BY DEF ScGood, ProviderOk, SameClaim
<1>4. BindOk(t)
  BY DEF ScGood, BindOk, SameClaim
<1> QED BY <1>1, <1>2, <1>3, <1>4 DEF ScGood, SameClaim

\* The driver's entry is replaced.
LEMMA EntryWritten ==
  ASSUME NEW s \in ScStates, NEW x \in Drivers, NEW q \in ScProcs
  PROVE  LET t == [s EXCEPT !.p[x] = q]
         IN  /\ t \in ScStates /\ t.p[x] = q /\ \A y \in Drivers \ {x} : t.p[y] = s.p[y]
             /\ t.kind = s.kind /\ t.reg = s.reg /\ t.gens = s.gens /\ t.lock = s.lock /\ t.secret = s.secret /\ t.job = s.job
             /\ t.account = s.account /\ t.store = s.store /\ t.touched = s.touched /\ t.obj = s.obj /\ t.binding = s.binding /\ t.shown = s.shown
<1> DEFINE p == [s.p EXCEPT ![x] = q]
           t == [s EXCEPT !.p = p]
<1>1. s.p \in ScTables
  BY DEF ScStates
<1>2. p \in ScTables /\ p[x] = q /\ \A y \in Drivers \ {x} : p[y] = s.p[y]
  BY <1>1 DEF ScTables
<1>3. [s EXCEPT !.p[x] = q] = t
  BY DEF ScStates
<1> HIDE DEF p
<1>4. t \in ScStates
  BY <1>2 DEF ScStates
<1>5. /\ t.p = p /\ t.kind = s.kind /\ t.reg = s.reg /\ t.gens = s.gens /\ t.lock = s.lock /\ t.secret = s.secret /\ t.job = s.job
      /\ t.account = s.account /\ t.store = s.store /\ t.touched = s.touched /\ t.obj = s.obj /\ t.binding = s.binding /\ t.shown = s.shown
  BY DEF ScStates
<1> HIDE DEF t
<1> QED BY <1>2, <1>3, <1>4, <1>5

\* A run that is over.
LEMMA RunEnds ==
  ASSUME ScGood(sc), NEW x \in Drivers
  PROVE  ScGood(Ended(x, sc))
<1> DEFINE l == IF sc.lock = x THEN NoSc ELSE sc.lock
           q == IF x = "worker" THEN [ScIdle EXCEPT !.pc = "exited", !.gen = sc.p[x].gen] ELSE ScIdle
           s == [sc EXCEPT !.p[x] = q]
           t == [s EXCEPT !.lock = l]
<1>1. sc \in ScStates /\ l \in Drivers \cup {NoSc} /\ sc.p[x] \in ScProcs /\ Counted(sc, sc.p[x]) /\ sc.gens \in Nat
  BY DEF ScGood, ScStates, ScTables, ProcOk
<1>2. q \in ScProcs /\ ProcOk(sc, q)
  <2>1. ScIdle \in ScProcs /\ sc.p[x].gen \in Nat /\ sc.p[x].gen <= sc.gens
    BY <1>1, ScIdleFacts DEF ScProcs, Counted
  <2> DEFINE e == [ScIdle EXCEPT !.pc = "exited", !.gen = sc.p[x].gen]
  <2>2. e \in ScProcs /\ e.pc = "exited" /\ e.gen = sc.p[x].gen /\ e.late = 0 /\ e.edge = NoSc
    BY <2>1 DEF ScIdle, ScProcs, ScPcs
  <2>3. q = e \/ q = ScIdle
    OBVIOUS
  <2> HIDE DEF e, q
  <2>4. ProcOk(sc, e)
    BY <2>1, <2>2 DEF ProcOk, Counted, Keyed, Ready, Edged
  <2> QED BY <1>1, <2>2, <2>3, <2>4, ScIdleFacts
<1>3. Ended(x, sc) = t
  BY <1>1 DEF Ended, ScStates
<1> HIDE DEF l, q
<1>4. /\ s \in ScStates /\ s.p[x] = q /\ \A y \in Drivers \ {x} : s.p[y] = sc.p[y]
      /\ SameClaim(s) /\ s.binding = sc.binding
  BY <1>1, <1>2, EntryWritten DEF SameClaim
<1> HIDE DEF s
<1>5. t \in ScStates
  BY <1>1, <1>4 DEF ScStates
<1>6. t.p = s.p /\ t.binding = s.binding /\ SameClaim(t)
  BY <1>4 DEF ScStates, SameClaim
<1> HIDE DEF t
<1> QED BY <1>2, <1>3, <1>4, <1>5, <1>6, DriverSteps

LEMMA RegistrationStep ==
  ASSUME ScGood(sc), register \/ unregister \/ tick \/ worker_finished PROVE ScGood(sc')
<1> DEFINE a == [ScIdle EXCEPT !.pc = "lock"]
           w == [ScIdle EXCEPT !.pc = "lock", !.gen = sc.reg]
<1>1. sc \in ScStates /\ sc.gens \in Nat /\ sc.reg \in Nat /\ sc.reg <= sc.gens /\ "apply" \in Drivers /\ "worker" \in Drivers
  BY DEF ScGood, ScStates, Drivers
<1>2. /\ a \in ScProcs /\ a.pc = "lock" /\ a.gen = 0 /\ a.late = 0 /\ a.edge = NoSc
      /\ w \in ScProcs /\ w.pc = "lock" /\ w.gen = sc.reg /\ w.late = 0 /\ w.edge = NoSc
  BY <1>1, ScIdleFacts DEF ScIdle, ScProcs, ScPcs
<1>3. CASE register
  <2> DEFINE s == [sc EXCEPT !.p["apply"] = a]
             n == sc.gens + 1
  <2>1. sc' = [s EXCEPT !.gens = n, !.reg = n, !.shown = NoSc]
    BY <1>1, <1>3 DEF register, ScStates
  <2> HIDE DEF a
  <2>2. /\ s \in ScStates /\ s.p["apply"] = a /\ \A y \in Drivers \ {"apply"} : s.p[y] = sc.p[y]
        /\ SameClaim(s) /\ s.binding = sc.binding
    BY <1>1, <1>2, EntryWritten DEF SameClaim
  <2> HIDE DEF s
  <2>3. n \in Nat /\ n > sc.gens
    BY <1>1
  <2> HIDE DEF n
  <2>4. sc' \in ScStates
    BY <2>1, <2>2, <2>3 DEF ScStates, ScNums
  <2>5. /\ sc'.shown = NoSc /\ sc'.kind = s.kind /\ sc'.gens = n /\ sc'.reg = n /\ sc'.p = s.p /\ sc'.secret = s.secret /\ sc'.job = s.job /\ sc'.account = s.account
        /\ sc'.store = s.store /\ sc'.touched = s.touched /\ sc'.obj = s.obj /\ sc'.binding = s.binding
    BY <2>1, <2>2 DEF ScStates
  <2>6. ASSUME NEW y \in Drivers PROVE ProcOk(sc', sc'.p[y])
    <3>1. CASE y = "apply"
      BY <1>2, <2>2, <2>3, <2>5, <3>1 DEF ProcOk, Counted, Keyed, Ready, Edged
    <3>2. CASE y # "apply"
      <4>1. sc'.p[y] = sc.p[y] /\ ProcOk(sc, sc.p[y]) /\ sc.p[y].gen \in Nat
        BY <1>1, <2>2, <2>5, <3>2 DEF ScGood, ScStates, ScTables, ScProcs
      <4>2. Counted(sc', sc.p[y])
        BY <1>1, <2>3, <2>5, <4>1 DEF ProcOk, Counted
      <4>3. Keyed(sc', sc.p[y]) /\ Ready(sc', sc.p[y]) /\ Edged(sc.p[y])
        BY <2>2, <2>5, <4>1 DEF ProcOk, Keyed, Ready, SameClaim
      <4> QED BY <4>1, <4>2, <4>3 DEF ProcOk
    <3> QED BY <3>1, <3>2
  <2>7. ASSUME NEW y \in Drivers PROVE JobOk(sc', sc'.job[y])
    BY <2>2, <2>5 DEF ScGood, JobOk, SameClaim
  <2>8. ProviderOk(sc') /\ StatusOk(sc'.obj) /\ BindOk(sc')
    BY <2>2, <2>5 DEF ScGood, ProviderOk, BindOk, SameClaim
  <2>9. sc'.reg <= sc'.gens /\ sc'.shown \in {NoSc, sc'.reg}
    BY <2>3, <2>5
  <2> QED BY <2>4, <2>6, <2>7, <2>8, <2>9 DEF ScGood
<1>4. CASE unregister
  <2>1. sc' = [sc EXCEPT !.reg = 0, !.shown = NoSc]
    BY <1>4 DEF unregister
  <2>2. sc' \in ScStates
    BY <1>1, <2>1 DEF ScStates, ScNums
  <2>3. /\ sc'.shown = NoSc /\ sc'.kind = sc.kind /\ sc'.gens = sc.gens /\ sc'.reg = 0 /\ sc'.p = sc.p /\ sc'.secret = sc.secret /\ sc'.job = sc.job /\ sc'.account = sc.account
        /\ sc'.store = sc.store /\ sc'.touched = sc.touched /\ sc'.obj = sc.obj /\ sc'.binding = sc.binding
    BY <1>1, <2>1 DEF ScStates
  <2>4. ASSUME NEW y \in Drivers PROVE ProcOk(sc', sc'.p[y])
    BY <2>3 DEF ScGood, ProcOk, Counted, Keyed, Ready
  <2>5. ASSUME NEW y \in Drivers PROVE JobOk(sc', sc'.job[y])
    BY <2>3 DEF ScGood, JobOk
  <2>6. ProviderOk(sc') /\ StatusOk(sc'.obj) /\ BindOk(sc')
    BY <2>3 DEF ScGood, ProviderOk, BindOk
  <2> QED BY <1>1, <2>2, <2>3, <2>4, <2>5, <2>6 DEF ScGood
<1>5. CASE tick
  <2>1. sc' = [sc EXCEPT !.p["worker"] = w]
    BY <1>5 DEF tick
  <2> HIDE DEF w
  <2>2. /\ sc' \in ScStates /\ sc'.p["worker"] = w /\ \A y \in Drivers \ {"worker"} : sc'.p[y] = sc.p[y]
        /\ SameClaim(sc') /\ sc'.binding = sc.binding
    BY <1>1, <1>2, <2>1, EntryWritten DEF SameClaim
  <2>3. ProcOk(sc, w)
    BY <1>1, <1>2 DEF ProcOk, Counted, Keyed, Ready, Edged
  <2> QED BY <1>1, <2>2, <2>3, DriverSteps
<1>6. CASE worker_finished
  <2> DEFINE n == IF sc.p["worker"].gen = sc.reg THEN sc.reg ELSE sc.shown
             s == [sc EXCEPT !.p["worker"] = ScIdle]
  <2>1. sc' = [s EXCEPT !.shown = n]
    BY <1>1, <1>6 DEF worker_finished, P, ScStates
  <2>2. n \in {NoSc, sc.reg} /\ n \in ScNums
    BY <1>1 DEF ScGood, ScStates, ScNums
  <2>3. /\ s \in ScStates /\ s.p["worker"] = ScIdle /\ \A y \in Drivers \ {"worker"} : s.p[y] = sc.p[y]
        /\ SameClaim(s) /\ s.binding = sc.binding
    BY <1>1, ScIdleFacts, EntryWritten DEF SameClaim
  <2>4. ProcOk(sc, s.p["worker"])
    BY <1>1, <2>3, ScIdleFacts
  <2> HIDE DEF s, n
  <2>5. ScGood(s)
    BY <1>1, <2>3, <2>4, DriverSteps
  <2>6. sc' \in ScStates
    BY <2>1, <2>2, <2>3 DEF ScStates
  <2>7. /\ sc'.shown = n /\ sc'.kind = s.kind /\ sc'.gens = s.gens /\ sc'.reg = s.reg /\ sc'.p = s.p /\ sc'.secret = s.secret
        /\ sc'.job = s.job /\ sc'.account = s.account /\ sc'.store = s.store /\ sc'.touched = s.touched
        /\ sc'.obj = s.obj /\ sc'.binding = s.binding /\ s.reg = sc.reg
    BY <2>1, <2>3 DEF ScStates, SameClaim
  <2>8. ASSUME NEW y \in Drivers PROVE ProcOk(sc', sc'.p[y])
    BY <2>5, <2>7 DEF ScGood, ProcOk, Counted, Keyed, Ready
  <2>9. ASSUME NEW y \in Drivers PROVE JobOk(sc', sc'.job[y])
    BY <2>5, <2>7 DEF ScGood, JobOk
  <2>10. ProviderOk(sc') /\ StatusOk(sc'.obj) /\ BindOk(sc') /\ sc'.reg <= sc'.gens
    BY <2>5, <2>7 DEF ScGood, ProviderOk, BindOk
  <2> QED BY <2>2, <2>6, <2>7, <2>8, <2>9, <2>10 DEF ScGood
<1> QED BY <1>3, <1>4, <1>5, <1>6

\* The driver's entry moves on, and nothing else does.
LEMMA EntrySteps ==
  ASSUME ScGood(sc), NEW x \in Drivers, NEW q \in ScProcs, ProcOk(sc, q), sc' = [sc EXCEPT !.p[x] = q]
  PROVE  ScGood(sc')
<1>1. sc \in ScStates
  BY DEF ScGood
<1>2. /\ sc' \in ScStates /\ sc'.p[x] = q /\ \A y \in Drivers \ {x} : sc'.p[y] = sc.p[y]
      /\ SameClaim(sc') /\ sc'.binding = sc.binding
  BY <1>1, EntryWritten DEF SameClaim
<1> QED BY <1>2, DriverSteps

\* The lock, and the end.
LEMMA DriverBegins ==
  ASSUME ScGood(sc), NEW x \in Drivers, acquire(x) \/ driver_killed(x) PROVE ScGood(sc')
<1>1. sc \in ScStates /\ sc.p[x] \in ScProcs /\ ProcOk(sc, sc.p[x])
  BY DEF ScGood, ScStates, ScTables
<1>2. CASE acquire(x) /\ sc.lock = NoSc
  <2> DEFINE q == [sc.p[x] EXCEPT !.pc = "begin"]
             s == [sc EXCEPT !.p[x] = q]
  <2>1. q \in ScProcs /\ q.pc = "begin" /\ SameDriver(q, sc.p[x]) /\ q.edge = sc.p[x].edge
    BY <1>1 DEF ScProcs, ScPcs, SameDriver
  <2>2. sc' = [s EXCEPT !.lock = x]
    BY <1>1, <1>2 DEF acquire, ScStates, ScTables, ScProcs
  <2> HIDE DEF q
  <2>3. /\ s \in ScStates /\ s.p[x] = q /\ \A y \in Drivers \ {x} : s.p[y] = sc.p[y]
        /\ SameClaim(s) /\ s.binding = sc.binding
    BY <1>1, <2>1, EntryWritten DEF SameClaim
  <2> HIDE DEF s
  <2>4. sc' \in ScStates
    BY <2>2, <2>3 DEF ScStates
  <2>5. sc'.p = s.p /\ sc'.binding = s.binding /\ SameClaim(sc')
    BY <2>2, <2>3 DEF ScStates, SameClaim
  <2>6. ProcOk(sc, q)
    BY <1>1, <1>2, <2>1 DEF acquire, Pc, ProcOk, Counted, Keyed, Ready, Edged, SameDriver
  <2> QED BY <2>3, <2>4, <2>5, <2>6, DriverSteps
<1> QED BY <1>2, RunEnds DEF acquire, driver_killed

\* The run's own checks.
LEMMA CheckStep ==
  ASSUME ScGood(sc), NEW x \in Drivers, reconcile_guarded_check(x) PROVE ScGood(sc')
<1>1. sc \in ScStates /\ sc.p[x] \in ScProcs /\ ProcOk(sc, sc.p[x]) /\ sc.p[x].pc \in {"begin", "edge", "claim"}
  BY DEF ScGood, ScStates, ScTables, reconcile_guarded_check, P
<1>2. CASE sc' = [sc EXCEPT !.p[x].pc = AfterCheck(x)]
  <2> DEFINE pc == AfterCheck(x)
             q == [sc.p[x] EXCEPT !.pc = pc]
  <2>1. /\ pc \in {"discover", "node_port", "ingress", "secret", "deliver_ingress", "claim", "end"}
        /\ pc = "node_port" => sc.p[x].obj # NoSc
        /\ pc = "discover" => sc.p[x].pc = "begin"
    <3>1. CASE sc.p[x].pc = "begin"
      BY <3>1 DEF AfterCheck, Pc
    <3>2. CASE sc.p[x].pc = "claim"
      BY <3>2 DEF AfterCheck, Pc
    <3>3. CASE sc.p[x].pc = "edge"
      BY <3>3 DEF AfterCheck, Pc, P, ClaimOrEnd
    <3> QED BY <1>1, <3>1, <3>2, <3>3
  <2>2. sc' = [sc EXCEPT !.p[x] = q]
    BY <1>1, <1>2 DEF ScStates, ScTables, ScProcs
  <2> HIDE DEF pc
  <2>3. q \in ScProcs /\ q.pc = pc /\ q.obj = sc.p[x].obj /\ q.edge = sc.p[x].edge /\ SameDriver(q, sc.p[x])
    BY <1>1, <2>1 DEF ScProcs, ScPcs, SameDriver
  <2> HIDE DEF q
  <2>4. ProcOk(sc, q)
    BY <1>1, <2>1, <2>3 DEF ProcOk, Counted, Keyed, Ready, Edged, SameDriver
  <2> QED BY <2>2, <2>3, <2>4, EntrySteps
<1> QED BY <1>2, RunEnds DEF reconcile_guarded_check

\* An operation in a guest that was allowed: the last one of a revoked run.
LEMMA OperationDone ==
  ASSUME ScGood(sc), NEW x \in Drivers, sc.p[x].ok, NEW s \in ScStates, SameClaim(s),
         \A y \in Drivers \ {x} : s.p[y] = sc.p[y], SameDriver(s.p[x], sc.p[x]), NEW pc \in ScPcs
  PROVE  /\ Done(x, pc, s) \in ScStates /\ SameClaim(Done(x, pc, s)) /\ Done(x, pc, s).binding = s.binding
         /\ \A y \in Drivers \ {x} : Done(x, pc, s).p[y] = sc.p[y]
         /\ Done(x, pc, s).p[x].pc = pc /\ Done(x, pc, s).p[x].obj = s.p[x].obj /\ Done(x, pc, s).p[x].edge = s.p[x].edge
         /\ Done(x, pc, s).p[x].pass = sc.p[x].pass
         /\ Counted(sc, Done(x, pc, s).p[x])
<1> DEFINE l == IF Revoked(x) THEN s.p[x].late + 1 ELSE s.p[x].late
           q == [s.p[x] EXCEPT !.pc = pc, !.ok = FALSE, !.late = l]
<1>1. s.p[x] \in ScProcs /\ sc.p[x] \in ScProcs /\ Counted(sc, sc.p[x])
  BY DEF ScGood, ScStates, ScTables, ProcOk
<1>2. sc.p[x].late = 0 /\ s.p[x].late = 0
  BY <1>1 DEF Counted, SameDriver
<1>3. l \in Nat /\ l <= 1 /\ (l # 0 => Revoked(x))
  BY <1>2
<1>4. Done(x, pc, s) = [s EXCEPT !.p[x] = q]
  BY ZenonT(40), <1>1 DEF Done, ScStates, ScTables, ScProcs
<1> HIDE DEF l
<1>5. /\ q \in ScProcs /\ q.pc = pc /\ q.late = l /\ q.gen = s.p[x].gen /\ q.obj = s.p[x].obj
      /\ q.edge = s.p[x].edge /\ q.pass = s.p[x].pass /\ ~q.ok
  BY <1>1, <1>3 DEF ScProcs
<1> HIDE DEF q
<1>6. Counted(sc, q)
  BY <1>1, <1>3, <1>5 DEF Counted, Revoked, P, SameDriver
<1> QED BY <1>4, <1>5, <1>6, EntryWritten DEF SameClaim, SameDriver

\* The end of a run with a record.
EndedWith(x, s, t) ==
  /\ t \in ScStates /\ \A y \in Drivers \ {x} : t.p[y] = s.p[y]
  /\ t.p[x].pc = "end" /\ SameDriver(t.p[x], s.p[x]) /\ t.p[x].obj = s.p[x].obj /\ t.p[x].edge = s.p[x].edge
  /\ t.reg = s.reg /\ t.gens = s.gens /\ t.secret = s.secret /\ t.job = s.job
  /\ t.account = s.account /\ t.store = s.store /\ t.touched = s.touched /\ t.obj = s.obj
  /\ t.kind = s.kind /\ t.binding = s.binding /\ t.shown = s.shown

LEMMA RecordWritten ==
  ASSUME sc \in ScStates, NEW x \in Drivers, NEW s \in ScStates, NEW state \in {"Ready", "Degraded"}, NEW reason \in ScReasons
  PROVE  EndedWith(x, s, Recorded(x, s, state, reason))
<1> DEFINE q == [s.p[x] EXCEPT !.pc = "end"]
           n == IF state = "Ready" THEN Identity(x) ELSE s.rec.resource
           r == [state |-> state, reason |-> reason, resource |-> n]
           u == [s EXCEPT !.p[x] = q]
           t == [u EXCEPT !.rec = r]
<1>1. s.p[x] \in ScProcs /\ s.rec \in ScRecs /\ sc.p[x].obj \in ScObjs
  BY DEF ScStates, ScTables, ScProcs
<1>2. n \in ScNums
  BY <1>1 DEF Identity, P, ScNums, ScObjs, ScClaims, ScRecs
<1>3. Recorded(x, s, state, reason) = t
  BY <1>1 DEF Recorded, ScStates, ScTables, ScProcs
<1> HIDE DEF n
<1>4. r \in ScRecs
  BY <1>2 DEF ScRecs
<1> HIDE DEF r
<1>5. q \in ScProcs /\ q.pc = "end" /\ SameDriver(q, s.p[x]) /\ q.obj = s.p[x].obj /\ q.edge = s.p[x].edge
  BY <1>1 DEF ScProcs, ScPcs, SameDriver
<1> HIDE DEF q
<1>6. /\ u \in ScStates /\ u.p[x] = q /\ \A y \in Drivers \ {x} : u.p[y] = s.p[y]
      /\ u.reg = s.reg /\ u.gens = s.gens /\ u.secret = s.secret /\ u.job = s.job
      /\ u.account = s.account /\ u.store = s.store /\ u.touched = s.touched /\ u.obj = s.obj
      /\ u.kind = s.kind /\ u.binding = s.binding /\ u.shown = s.shown
  BY <1>5, EntryWritten
<1> HIDE DEF u
<1>7. t \in ScStates
  BY <1>4, <1>6 DEF ScStates
<1>8. /\ t.p = u.p /\ t.reg = u.reg /\ t.gens = u.gens /\ t.secret = u.secret /\ t.job = u.job
      /\ t.account = u.account /\ t.store = u.store /\ t.touched = u.touched /\ t.obj = u.obj
      /\ t.kind = u.kind /\ t.binding = u.binding /\ t.shown = u.shown
  BY <1>6 DEF ScStates
<1> HIDE DEF t
<1> QED BY <1>3, <1>4, <1>5, <1>6, <1>7, <1>8 DEF EndedWith

\* Discovery and the edge.
LEMMA DiscoverStep ==
  ASSUME ScGood(sc), NEW x \in Drivers, discover_claims(x) PROVE ScGood(sc')
<1>1. /\ sc \in ScStates /\ sc.p[x] \in ScProcs /\ ProcOk(sc, sc.p[x]) /\ sc.p[x].ok /\ sc.p[x].edge = NoSc
      /\ sc.obj \in ScObjs
  BY DEF ScGood, ScStates, ScTables, discover_claims, Allowed, Pc, P, ProcOk, Edged
<1>2. ASSUME NEW pc \in {"edge"}, NEW o \in ScObjs, NEW e \in {NoSc, "DiscoveryIncomplete"},
             NEW q \in ScProcs, q.obj = o, q.edge = e, SameDriver(q, sc.p[x]),
             sc' = Done(x, pc, [sc EXCEPT !.p[x] = q])
      PROVE  ScGood(sc')
  <2> DEFINE s == [sc EXCEPT !.p[x] = q]
  <2>1. /\ s \in ScStates /\ s.p[x] = q /\ \A y \in Drivers \ {x} : s.p[y] = sc.p[y]
        /\ SameClaim(s) /\ s.binding = sc.binding
    BY <1>1, EntryWritten DEF SameClaim
  <2>2. sc' = Done(x, pc, s) /\ pc \in ScPcs
    BY <1>2 DEF ScPcs
  <2> HIDE DEF s
  <2>a. SameDriver(s.p[x], sc.p[x])
    BY <1>2, <2>1
  <2>b. /\ Done(x, pc, s) \in ScStates /\ SameClaim(Done(x, pc, s)) /\ Done(x, pc, s).binding = s.binding
        /\ \A y \in Drivers \ {x} : Done(x, pc, s).p[y] = sc.p[y]
        /\ Done(x, pc, s).p[x].pc = pc /\ Done(x, pc, s).p[x].obj = s.p[x].obj /\ Done(x, pc, s).p[x].edge = s.p[x].edge
        /\ Counted(sc, Done(x, pc, s).p[x])
    BY <1>1, <2>1, <2>2, <2>a, OperationDone
  <2>3. /\ sc' \in ScStates /\ SameClaim(sc') /\ sc'.binding = sc.binding /\ \A y \in Drivers \ {x} : sc'.p[y] = sc.p[y]
        /\ sc'.p[x].pc = pc /\ sc'.p[x].obj = o /\ sc'.p[x].edge = e /\ Counted(sc, sc'.p[x])
    BY <1>2, <2>1, <2>2, <2>b
  <2>4. ProcOk(sc, sc'.p[x])
    BY <1>2, <2>3 DEF ProcOk, Keyed, Ready, Edged
  <2> QED BY <2>3, <2>4, DriverSteps
<1> DEFINE q == [sc.p[x] EXCEPT !.obj = sc.obj]
           r == [sc.p[x] EXCEPT !.edge = "DiscoveryIncomplete"]
<1>3. q \in ScProcs /\ q.obj = sc.obj /\ q.edge = NoSc /\ SameDriver(q, sc.p[x])
  BY <1>1 DEF ScProcs, SameDriver
<1>4. r \in ScProcs /\ r.obj = sc.p[x].obj /\ r.edge = "DiscoveryIncomplete" /\ SameDriver(r, sc.p[x]) /\ sc.p[x].obj \in ScObjs
  BY <1>1 DEF ScProcs, ScEdges, SameDriver
<1>7. sc' = Done(x, "edge", [sc EXCEPT !.p[x] = q]) \/ sc' = Done(x, "edge", [sc EXCEPT !.p[x] = r])
  <2>1. [sc EXCEPT !.p[x].obj = sc.obj] = [sc EXCEPT !.p[x] = q]
    BY <1>1 DEF ScStates, ScTables, ScProcs
  <2>2. [sc EXCEPT !.p[x].edge = "DiscoveryIncomplete"] = [sc EXCEPT !.p[x] = r]
    BY <1>1 DEF ScStates, ScTables, ScProcs
  <2> QED BY <2>1, <2>2 DEF discover_claims
<1> HIDE DEF q, r
<1> QED BY <1>1, <1>2, <1>3, <1>4, <1>7

\* An operation at the edge: the verdict is about the object discovered.
LEMMA EdgeOperation ==
  ASSUME ScGood(sc), NEW x \in Drivers, sc.p[x].ok, NEW pc \in {"ingress", "claim", "end"},
         NEW q \in ScProcs, q.obj = sc.p[x].obj, SameDriver(q, sc.p[x]), q.edge \notin {NoSc, "DiscoveryIncomplete"} => q.obj # NoSc,
         NEW u \in ScStates, u.p = sc.p, u.binding = sc.binding, SameClaim(u), sc' = Done(x, pc, [u EXCEPT !.p[x] = q])
  PROVE  ScGood(sc')
<1> DEFINE s == [u EXCEPT !.p[x] = q]
<1>1. /\ s \in ScStates /\ s.p[x] = q /\ \A y \in Drivers \ {x} : s.p[y] = sc.p[y]
      /\ SameClaim(s) /\ s.binding = sc.binding
  BY EntryWritten DEF SameClaim
<1>2. sc' = Done(x, pc, s) /\ pc \in ScPcs
  BY DEF ScPcs
<1> HIDE DEF s
<1>a. SameDriver(s.p[x], sc.p[x])
  BY <1>1
<1>b. /\ Done(x, pc, s) \in ScStates /\ SameClaim(Done(x, pc, s)) /\ Done(x, pc, s).binding = s.binding
      /\ \A y \in Drivers \ {x} : Done(x, pc, s).p[y] = sc.p[y]
      /\ Done(x, pc, s).p[x].pc = pc /\ Done(x, pc, s).p[x].obj = s.p[x].obj /\ Done(x, pc, s).p[x].edge = s.p[x].edge
      /\ Counted(sc, Done(x, pc, s).p[x])
  BY <1>1, <1>2, <1>a, OperationDone
<1>3. /\ sc' \in ScStates /\ SameClaim(sc') /\ sc'.binding = sc.binding /\ \A y \in Drivers \ {x} : sc'.p[y] = sc.p[y]
      /\ sc'.p[x].pc = pc /\ sc'.p[x].obj = q.obj /\ sc'.p[x].edge = q.edge /\ Counted(sc, sc'.p[x])
  BY <1>1, <1>2, <1>b
<1>4. ProcOk(sc, sc'.p[x])
  BY <1>3 DEF ProcOk, Keyed, Ready, Edged
<1> QED BY <1>3, <1>4, DriverSteps

LEMMA NodePortStep ==
  ASSUME ScGood(sc), NEW x \in Drivers, node_port(x) PROVE ScGood(sc')
<1>1. /\ sc \in ScStates /\ sc.p[x] \in ScProcs /\ sc.p[x].ok /\ sc.p[x].obj # NoSc
  BY DEF ScGood, ScStates, ScTables, node_port, Allowed, Pc, P, ProcOk, Edged
<1>2. ASSUME NEW e \in ScEdges, NEW b \in BOOLEAN, sc' = Done(x, "ingress", [sc EXCEPT !.nodeport = b, !.p[x].edge = e])
      PROVE  ScGood(sc')
  <2> DEFINE q == [sc.p[x] EXCEPT !.edge = e]
             u == [sc EXCEPT !.nodeport = b]
  <2>1. q \in ScProcs /\ q.obj = sc.p[x].obj /\ SameDriver(q, sc.p[x])
    BY <1>1 DEF ScProcs, SameDriver
  <2>2. u \in ScStates /\ u.p = sc.p /\ u.binding = sc.binding /\ SameClaim(u)
    BY <1>1 DEF ScStates, SameClaim
  <2>3. sc' = Done(x, "ingress", [u EXCEPT !.p[x] = q])
    <3>1. [sc EXCEPT !.nodeport = b, !.p[x].edge = e] = [u EXCEPT !.p[x] = q]
      BY <1>1 DEF ScStates, ScTables, ScProcs
    <3> QED BY <1>2, <3>1
  <2> HIDE DEF q, u
  <2> QED BY <1>1, <2>1, <2>2, <2>3, EdgeOperation
<1>3. ASSUME NEW e \in ScEdges, sc' = Done(x, "ingress", [sc EXCEPT !.p[x].edge = e])
      PROVE  ScGood(sc')
  <2>1. [sc EXCEPT !.nodeport = sc.nodeport, !.p[x].edge = e] = [sc EXCEPT !.p[x].edge = e] /\ sc.nodeport \in BOOLEAN
    BY <1>1 DEF ScStates, ScTables
  <2> QED BY <1>2, <1>3, <2>1
<1>4. {"routed", "KubernetesUnavailable", "GuestUnavailable"} \subseteq ScEdges
  BY DEF ScEdges
<1> QED BY <1>2, <1>3, <1>4 DEF node_port

LEMMA ReconcileEdgeStep ==
  ASSUME ScGood(sc), NEW x \in Drivers, reconcile_with_edge(x) PROVE ScGood(sc')
<1> DEFINE q == sc.p[x]
           pc == ClaimOrEnd(q.obj)
           r == IF q.edge = "routed" \/ (q.edge = "KubernetesUnavailable" /\ sc.rec.resource = q.obj.uid) THEN q.obj.uid ELSE NoSc
           e == IF q.edge = "routed" THEN "IngressUnavailable" ELSE q.edge
<1>1. /\ sc \in ScStates /\ sc.p[x] \in ScProcs /\ sc.p[x].ok /\ Edged(q)
  BY DEF ScGood, ScStates, ScTables, reconcile_with_edge, Allowed, Pc, P, ProcOk
<1>2. pc \in {"ingress", "claim", "end"}
  BY DEF ClaimOrEnd
<1>3. r \in ScNums
  BY <1>1, ControllersAssumption DEF ScNums, ScProcs, ScObjs, ScClaims, Edged
<1>4. e \in ScEdges /\ (e \notin {NoSc, "DiscoveryIncomplete"} => q.obj # NoSc)
  BY <1>1, ControllersAssumption DEF ScEdges, Edged, ScProcs
<1>5. sc' = Done(x, pc, [sc EXCEPT !.route = r]) \/ sc' = Done(x, pc, [sc EXCEPT !.p[x].edge = e])
  <2>1. [sc EXCEPT !.p[x].edge = IF @ = "routed" THEN "IngressUnavailable" ELSE @] = [sc EXCEPT !.p[x].edge = e]
    BY <1>1 DEF ScStates, ScTables, ScProcs
  <2> QED BY <2>1 DEF reconcile_with_edge, P
<1> HIDE DEF pc, r, e
<1>6. CASE sc' = Done(x, pc, [sc EXCEPT !.route = r])
  <2> DEFINE u == [sc EXCEPT !.route = r]
  <2>1. u \in ScStates /\ u.p = sc.p /\ u.binding = sc.binding /\ SameClaim(u)
    BY <1>1, <1>3 DEF ScStates, SameClaim
  <2>2. u = [u EXCEPT !.p[x] = q]
    BY <1>1 DEF ScStates, ScTables
  <2>3. sc' = Done(x, pc, [u EXCEPT !.p[x] = q])
    BY <1>6, <2>2
  <2>4. SameDriver(q, sc.p[x]) /\ (q.edge \notin {NoSc, "DiscoveryIncomplete"} => q.obj # NoSc)
    BY <1>1 DEF SameDriver, Edged
  <2> HIDE DEF u, q
  <2> QED BY <1>1, <1>2, <2>1, <2>3, <2>4, EdgeOperation DEF q
<1>7. CASE sc' = Done(x, pc, [sc EXCEPT !.p[x].edge = e])
  <2> DEFINE n == [sc.p[x] EXCEPT !.edge = e]
  <2>1. n \in ScProcs /\ n.obj = sc.p[x].obj /\ n.edge = e /\ SameDriver(n, sc.p[x])
    BY <1>1, <1>4 DEF ScProcs, SameDriver
  <2>2. [sc EXCEPT !.p[x].edge = e] = [sc EXCEPT !.p[x] = n]
    BY <1>1 DEF ScStates, ScTables, ScProcs
  <2>3. sc' = Done(x, pc, [sc EXCEPT !.p[x] = n]) /\ SameClaim(sc)
    BY <1>7, <2>2 DEF SameClaim
  <2> HIDE DEF n
  <2> QED BY <1>1, <1>2, <1>4, <2>1, <2>3, EdgeOperation
<1> QED BY <1>5, <1>6, <1>7

-----------------------------------------------------------------------------
\* A script's step at the provider: what is there stays, and stays ours.
Scripted(s, x, j, a, o) == [s EXCEPT !.job[x] = j, !.account = a, !.store = o]

SameDrivers(s, t) ==
  /\ t.p = s.p /\ t.reg = s.reg /\ t.gens = s.gens /\ t.secret = s.secret
  /\ t.touched = s.touched /\ t.obj = s.obj /\ t.binding = s.binding /\ t.kind = s.kind /\ t.shown = s.shown

LEMMA BackendSteps ==
  ASSUME NEW s, ScGood(s), NEW x \in Drivers, NEW t \in ScStates, SameDrivers(s, t),
         \A y \in Drivers \ {x} : t.job[y] = s.job[y], JobOk(t, t.job[x]),
         s.account # NoSc => t.account # NoSc, s.store # NoSc => t.store # NoSc, ProviderOk(t)
  PROVE  ScGood(t)
<1>1. ASSUME NEW y \in Drivers PROVE ProcOk(t, t.p[y])
  BY DEF ScGood, ProcOk, Counted, Keyed, Ready, SameDrivers
<1>2. ASSUME NEW y \in Drivers PROVE JobOk(t, t.job[y])
  BY DEF ScGood, JobOk, SameDrivers
<1>3. StatusOk(t.obj) /\ BindOk(t) /\ t.reg <= t.gens /\ t.shown \in {NoSc, t.reg}
  BY DEF ScGood, BindOk, SameDrivers
<1> QED BY <1>1, <1>2, <1>3 DEF ScGood

\* The script's entry is replaced, and the account and the store with it.
LEMMA JobWritten ==
  ASSUME NEW s \in ScStates, NEW x \in Drivers, NEW j \in ScJobs, NEW a \in ScNums, NEW o \in ScStores
  PROVE  LET t == Scripted(s, x, j, a, o)
         IN  /\ t \in ScStates /\ t.job[x] = j /\ \A y \in Drivers \ {x} : t.job[y] = s.job[y]
             /\ t.account = a /\ t.store = o /\ SameDrivers(s, t)
<1> DEFINE b == [s.job EXCEPT ![x] = j]
           t == [s EXCEPT !.job = b, !.account = a, !.store = o]
<1>1. s.job \in ScJobTable
  BY DEF ScStates
<1>2. b \in ScJobTable /\ b[x] = j /\ \A y \in Drivers \ {x} : b[y] = s.job[y]
  BY <1>1 DEF ScJobTable
<1>3. Scripted(s, x, j, a, o) = t
  BY DEF ScStates, Scripted
<1> HIDE DEF b
<1>4. t \in ScStates
  BY <1>2 DEF ScStates
<1>5. t.job = b /\ t.account = a /\ t.store = o /\ SameDrivers(s, t)
  BY DEF ScStates, SameDrivers
<1> HIDE DEF t
<1> QED BY <1>2, <1>3, <1>4, <1>5

\* Together.
LEMMA ScriptStep ==
  ASSUME NEW s, ScGood(s), NEW x \in Drivers, NEW j \in ScJobs, NEW a \in ScNums, NEW o \in ScStores,
         j.stage # "none" => j.pass = s.secret /\ s.secret # NoSc,
         j.stage \in {"tag", "account", "done"} => o # NoSc, j.stage = "done" => a # NoSc,
         s.kind = "postgres" /\ j.stage \in {"store", "tag"} => a # NoSc,
         s.account # NoSc => a = s.account, s.account = NoSc => a \in {NoSc, s.secret},
         s.store # NoSc => o # NoSc /\ o.by = s.store.by, s.store = NoSc => o = NoSc \/ o.by = "vzctl",
         NEW t, t = Scripted(s, x, j, a, o)
  PROVE  ScGood(t)
<1>1. s \in ScStates
  BY DEF ScGood
<1>2. /\ t \in ScStates /\ t.job[x] = j /\ \A y \in Drivers \ {x} : t.job[y] = s.job[y]
      /\ t.account = a /\ t.store = o /\ SameDrivers(s, t)
  BY <1>1, JobWritten
<1>3. JobOk(t, t.job[x])
  BY <1>2 DEF JobOk, SameDrivers
<1>4. ProviderOk(t)
  BY <1>2 DEF ScGood, ProviderOk, SameDrivers
<1>5. (s.account # NoSc => t.account # NoSc) /\ (s.store # NoSc => t.store # NoSc)
  BY <1>2
<1> QED BY <1>2, <1>3, <1>4, <1>5, BackendSteps

\* The credential is drawn, or taken from the store.
LEMMA SecretStep ==
  ASSUME ScGood(sc), NEW x \in Drivers, get_or_create(x) PROVE ScGood(sc')
<1>1. /\ sc \in ScStates /\ sc.p[x] \in ScProcs /\ ProcOk(sc, sc.p[x]) /\ sc.secret \in ScNums /\ sc.p[x].pc = "secret"
      /\ sc.rand \in Nat
  BY DEF ScGood, ScStates, ScTables, get_or_create, Pc
<1>2. ASSUME NEW k \in ScNums
      PROVE  LET q == [sc.p[x] EXCEPT !.pc = "provision", !.pass = k]
             IN  /\ q \in ScProcs /\ q.pc = "provision" /\ q.pass = k /\ q.gen = sc.p[x].gen /\ (q.ok <=> sc.p[x].ok)
                 /\ q.late = sc.p[x].late /\ q.obj = sc.p[x].obj /\ q.edge = sc.p[x].edge
  BY <1>1 DEF ScProcs, ScPcs
<1>3. CASE sc.secret # NoSc
  <2> DEFINE q == [sc.p[x] EXCEPT !.pc = "provision", !.pass = sc.secret]
  <2>1. sc' = [sc EXCEPT !.p[x] = q]
    BY ZenonT(40), <1>1, <1>3 DEF get_or_create, ScStates, ScTables, ScProcs
  <2>2. /\ q \in ScProcs /\ q.pc = "provision" /\ q.pass = sc.secret /\ q.gen = sc.p[x].gen /\ (q.ok <=> sc.p[x].ok)
        /\ q.late = sc.p[x].late /\ q.obj = sc.p[x].obj /\ q.edge = sc.p[x].edge
    BY <1>1, <1>2
  <2> HIDE DEF q
  <2>3. /\ sc' \in ScStates /\ sc'.p[x] = q /\ \A y \in Drivers \ {x} : sc'.p[y] = sc.p[y]
        /\ SameClaim(sc') /\ sc'.binding = sc.binding
    BY <1>1, <2>1, <2>2, EntryWritten DEF SameClaim
  <2>4. ProcOk(sc, q)
    BY <1>1, <1>3, <2>2 DEF ProcOk, Counted, Keyed, Ready, Edged
  <2> QED BY <2>3, <2>4, DriverSteps
<1>4. CASE sc.secret = NoSc
  <2> DEFINE k == sc.rand + 1
             q == [sc.p[x] EXCEPT !.pc = "provision", !.pass = k]
             s == [sc EXCEPT !.p[x] = q]
  <2>0. sc' = [sc EXCEPT !.rand = k, !.secret = k, !.p[x].pc = "provision", !.p[x].pass = k]
    BY <1>1, <1>4 DEF get_or_create, ScStates
  <2>2. k \in Nat /\ k \in ScNums /\ k # NoSc
    BY <1>1, ControllersAssumption DEF ScNums
  <2>3. /\ q \in ScProcs /\ q.pc = "provision" /\ q.pass = k /\ q.gen = sc.p[x].gen /\ (q.ok <=> sc.p[x].ok)
        /\ q.late = sc.p[x].late /\ q.obj = sc.p[x].obj /\ q.edge = sc.p[x].edge
    BY <1>2, <2>2
  <2> HIDE DEF k
  <2>1. sc' = [s EXCEPT !.rand = k, !.secret = k]
    <3> DEFINE p == [sc.p EXCEPT ![x] = q]
    <3>1. p = [sc.p EXCEPT ![x].pc = "provision", ![x].pass = k]
      BY <1>1 DEF ScStates, ScTables, ScProcs
    <3>2. sc' = [sc EXCEPT !.rand = k, !.secret = k, !.p = p]
      BY <1>1, <2>0, <3>1 DEF ScStates
    <3>3. s = [sc EXCEPT !.p = p]
      BY <1>1 DEF ScStates
    <3> HIDE DEF p, s
    <3> QED BY <1>1, <3>2, <3>3 DEF ScStates
  <2> HIDE DEF q
  <2>4. /\ s \in ScStates /\ s.p[x] = q /\ \A y \in Drivers \ {x} : s.p[y] = sc.p[y]
        /\ SameClaim(s) /\ s.binding = sc.binding
    BY <1>1, <2>3, EntryWritten DEF SameClaim
  <2> HIDE DEF s
  <2>5. sc' \in ScStates
    BY <2>1, <2>2, <2>4 DEF ScStates
  <2>6. /\ sc'.secret = k /\ sc'.kind = s.kind /\ sc'.shown = s.shown /\ sc'.p = s.p /\ sc'.reg = s.reg /\ sc'.gens = s.gens /\ sc'.job = s.job /\ sc'.account = s.account
        /\ sc'.store = s.store /\ sc'.touched = s.touched /\ sc'.obj = s.obj /\ sc'.binding = s.binding
    BY <2>1, <2>4 DEF ScStates
  <2>7. ASSUME NEW y \in Drivers PROVE ProcOk(sc', sc'.p[y])
    <3>1. CASE y = x
      BY <1>1, <2>2, <2>3, <2>4, <2>6, <3>1 DEF ProcOk, Counted, Keyed, Ready, Edged, SameClaim
    <3>2. CASE y # x
      BY <1>4, <2>4, <2>6, <3>2 DEF ScGood, ProcOk, Counted, Keyed, Ready, SameClaim
    <3> QED BY <3>1, <3>2
  <2>8. ASSUME NEW y \in Drivers PROVE JobOk(sc', sc'.job[y])
    BY <1>4, <2>4, <2>6 DEF ScGood, JobOk, SameClaim
  <2>9. ProviderOk(sc') /\ StatusOk(sc'.obj) /\ BindOk(sc') /\ sc'.reg <= sc'.gens /\ sc'.shown \in {NoSc, sc'.reg}
    BY <1>1, <1>4, <2>4, <2>6 DEF ScGood, ProviderOk, BindOk, SameClaim
  <2> QED BY <2>5, <2>7, <2>8, <2>9 DEF ScGood
<1> QED BY <1>3, <1>4

LEMMA DoneIs ==
  ASSUME NEW s \in ScStates, NEW x \in Drivers, NEW pc
  PROVE  Done(x, pc, s) = [s EXCEPT !.p[x] = [s.p[x] EXCEPT !.pc = pc, !.ok = FALSE,
                                                !.late = IF Revoked(x) THEN s.p[x].late + 1 ELSE s.p[x].late]]
BY DEF Done, ScStates, ScTables, ScProcs

\* The script is started and its driver waits for it.
LEMMA StartStep ==
  ASSUME ScGood(sc), NEW x \in Drivers, provision_start(x) PROVE ScGood(sc')
<1> DEFINE d == Done(x, "provisioning", sc)
           j == [JobNone EXCEPT !.stage = "check", !.pass = sc.p[x].pass]
<1>1. /\ sc \in ScStates /\ sc.p[x] \in ScProcs /\ ProcOk(sc, sc.p[x]) /\ sc.p[x].ok /\ sc.p[x].pc = "provision"
      /\ sc.p[x].pass = sc.secret /\ sc.secret # NoSc /\ "provisioning" \in ScPcs /\ SameClaim(sc) /\ SameDriver(sc.p[x], sc.p[x])
  BY DEF ScGood, ScStates, ScTables, provision_start, Allowed, Pc, P, ProcOk, Keyed, ScPcs, SameClaim, SameDriver
<1>2. /\ d \in ScStates /\ SameClaim(d) /\ d.binding = sc.binding /\ \A y \in Drivers \ {x} : d.p[y] = sc.p[y]
      /\ d.p[x].pc = "provisioning" /\ d.p[x].obj = sc.p[x].obj /\ d.p[x].edge = sc.p[x].edge
      /\ d.p[x].pass = sc.p[x].pass /\ Counted(sc, d.p[x])
  BY <1>1, OperationDone
<1>6. j \in ScJobs /\ j.stage = "check" /\ j.pass = sc.secret
  BY <1>1 DEF JobNone, ScJobs, ScStages, ScProcs
<1>3. sc' = [d EXCEPT !.job[x] = j]
  <2> DEFINE s == [sc EXCEPT !.job[x] = j]
             q == [sc.p[x] EXCEPT !.pc = "provisioning", !.ok = FALSE, !.late = IF Revoked(x) THEN sc.p[x].late + 1 ELSE sc.p[x].late]
  <2>1. sc' = Done(x, "provisioning", s)
    BY DEF provision_start, P
  <2> HIDE DEF j
  <2>2. s = Scripted(sc, x, j, sc.account, sc.store) /\ sc.account \in ScNums /\ sc.store \in ScStores
    BY <1>1 DEF Scripted, ScStates
  <2>3. s \in ScStates /\ s.p = sc.p
    BY <1>1, <1>6, <2>2, JobWritten DEF SameDrivers
  <2>4. sc' = [s EXCEPT !.p[x] = q]
    <3> DEFINE r == [s.p[x] EXCEPT !.pc = "provisioning", !.ok = FALSE, !.late = IF Revoked(x) THEN s.p[x].late + 1 ELSE s.p[x].late]
    <3> HIDE DEF s
    <3>1. sc' = [s EXCEPT !.p[x] = r]
      BY <2>1, <2>3, DoneIs
    <3>2. r = q
      BY <2>3
    <3> QED BY <3>1, <3>2
  <2>5. d = [sc EXCEPT !.p[x] = q]
    BY <1>1, DoneIs
  <2> HIDE DEF q, d
  <2> QED BY <1>1, <2>4, <2>5 DEF ScStates
<1> HIDE DEF d
<1>4. ProcOk(sc, d.p[x])
  BY <1>1, <1>2 DEF ProcOk, Keyed, Ready, Edged
<1>5. ScGood(d)
  BY <1>2, <1>4, DriverSteps
<1> HIDE DEF j
<1>7. sc' = Scripted(d, x, j, d.account, d.store) /\ d.account \in ScNums /\ d.store \in ScStores
  BY <1>2, <1>3 DEF ScStates, Scripted
<1>8. d.secret = sc.secret /\ (d.store # NoSc => d.store.by = d.store.by)
  BY <1>2 DEF SameClaim
<1> QED BY <1>1, <1>5, <1>6, <1>7, <1>8, ScriptStep

\* What the script does in the guest.
LEMMA GuestStep ==
  ASSUME ScGood(sc), NEW x \in Drivers,
         provision_check(x) \/ provision_sql(x) \/ provision_tag(x) \/ provision_account(x) \/ provision_dies(x)
  PROVE  ScGood(sc')
<1> DEFINE Stage(g) == [sc.job[x] EXCEPT !.stage = g]
<1>1. /\ sc \in ScStates /\ sc.job[x] \in ScJobs /\ sc.job[x].stage # "none" /\ sc.job[x].pass = sc.secret /\ sc.secret # NoSc
      /\ sc.account \in ScNums /\ sc.store \in ScStores /\ sc.secret \in ScNums
  BY DEF ScGood, ScStates, ScJobTable, JobOk, provision_check, provision_sql, provision_tag, provision_account, provision_dies
<1>2. ASSUME NEW g \in ScStages
      PROVE  Stage(g) \in ScJobs /\ Stage(g).stage = g /\ Stage(g).pass = sc.secret
  BY <1>1 DEF ScJobs
<1>3. ASSUME sc' = [sc EXCEPT !.job[x].stage = "failed"] PROVE ScGood(sc')
  <2> DEFINE j == Stage("failed")
  <2>1. sc' = Scripted(sc, x, j, sc.account, sc.store)
    BY <1>1, <1>3 DEF Scripted, ScStates, ScJobTable, ScJobs
  <2>2. j \in ScJobs /\ j.stage = "failed" /\ j.pass = sc.secret
    BY <1>2 DEF ScStages
  <2> HIDE DEF j
  <2> QED BY <1>1, <2>1, <2>2, ScriptStep
<1>4. CASE provision_check(x) /\ sc' # [sc EXCEPT !.job[x].stage = "failed"]
  <2> DEFINE m == sc.store = NoSc
             a == IF sc.kind = "postgres" /\ sc.account = NoSc THEN sc.job[x].pass ELSE sc.account
             j == [sc.job[x] EXCEPT !.stage = "store", !.made = m]
  <2>1. sc' = [sc EXCEPT !.job[x].stage = "store", !.account = a, !.job[x].made = m]
    BY <1>4 DEF provision_check
  <2>2. /\ m \in BOOLEAN /\ a \in ScNums /\ (sc.account # NoSc => a = sc.account) /\ (sc.account = NoSc => a \in {NoSc, sc.secret})
        /\ sc.kind = "postgres" => a # NoSc
    BY <1>1
  <2> HIDE DEF m, a
  <2>3. j \in ScJobs /\ j.stage = "store" /\ j.pass = sc.secret
    BY <1>1, <2>2 DEF ScJobs, ScStages
  <2>4. sc' = Scripted(sc, x, j, a, sc.store)
    <3> DEFINE b == [sc.job EXCEPT ![x] = j]
    <3>1. b = [sc.job EXCEPT ![x].stage = "store", ![x].made = m]
      BY <1>1 DEF ScStates, ScJobTable, ScJobs
    <3>2. sc' = [sc EXCEPT !.job = b, !.account = a]
      BY <1>1, <2>1, <3>1 DEF ScStates
    <3>3. Scripted(sc, x, j, a, sc.store) = [sc EXCEPT !.job = b, !.account = a]
      BY <1>1 DEF Scripted, ScStates
    <3> QED BY <3>2, <3>3
  <2> HIDE DEF j
  <2> QED BY <1>1, <2>2, <2>3, <2>4, ScriptStep
<1>5. CASE provision_sql(x) /\ sc' # [sc EXCEPT !.job[x].stage = "failed"]
  <2> DEFINE n == [by |-> "vzctl", tag |-> NoSc]
             o == IF sc.store = NoSc THEN n ELSE sc.store
             j == Stage("tag")
  <2>1. sc' = [sc EXCEPT !.job[x].stage = "tag", !.store = o]
    BY <1>1, <1>5 DEF provision_sql, ScStates
  <2>2. n \in ScBackends /\ n.by = "vzctl" /\ n # NoSc
    BY ControllersAssumption DEF ScBackends
  <2> HIDE DEF n
  <2>3. /\ o \in ScStores /\ o # NoSc /\ (sc.store # NoSc => o # NoSc /\ o.by = sc.store.by)
        /\ (sc.store = NoSc => o = NoSc \/ o.by = "vzctl")
    BY <1>1, <2>2 DEF ScStores
  <2> HIDE DEF o
  <2>4. j \in ScJobs /\ j.stage = "tag" /\ j.pass = sc.secret
    BY <1>2 DEF ScStages
  <2>5. sc' = Scripted(sc, x, j, sc.account, o)
    BY <1>1, <2>1 DEF Scripted, ScStates, ScJobTable, ScJobs
  <2> HIDE DEF j
  <2>6. sc.kind = "postgres" => sc.account # NoSc
    BY <1>5 DEF provision_sql, ScGood, JobOk
  <2> QED BY <1>1, <2>3, <2>4, <2>5, <2>6, ScriptStep
<1>6. CASE provision_tag(x)
  <2> DEFINE o == [sc.store EXCEPT !.tag = "vzctl"]
             g == IF sc.kind = "postgres" THEN "done" ELSE "account"
             j == Stage(g)
  <2>1. sc.store # NoSc /\ sc.store \in ScBackends /\ (sc.kind = "postgres" => sc.account # NoSc)
    BY <1>1, <1>6 DEF provision_tag, ScGood, JobOk, ScStores
  <2>2. o \in ScBackends /\ o \in ScStores /\ o.by = sc.store.by /\ o # NoSc
    BY <2>1, ControllersAssumption DEF ScBackends, ScStores
  <2>3. g \in {"done", "account"} /\ (g = "done" => sc.account # NoSc)
    BY <2>1
  <2>4. sc' = [sc EXCEPT !.job[x].stage = g, !.store.tag = "vzctl"]
    BY <1>6 DEF provision_tag
  <2> HIDE DEF g
  <2>5. j \in ScJobs /\ j.stage = g /\ j.pass = sc.secret
    BY <1>2, <2>3 DEF ScStages
  <2>6. sc' = Scripted(sc, x, j, sc.account, o)
    <3>1. sc' = [sc EXCEPT !.job[x].stage = g, !.store = o]
      BY <1>1, <2>1, <2>4 DEF ScStates, ScBackends
    <3> HIDE DEF o
    <3> QED BY <1>1, <3>1 DEF Scripted, ScStates, ScJobTable, ScJobs
  <2> HIDE DEF o, j
  <2> QED BY <1>1, <2>1, <2>2, <2>3, <2>5, <2>6, ScriptStep
<1>7. CASE provision_account(x)
  <2> DEFINE a == svcacct_add(x)
  <2>1. sc.store # NoSc
    BY <1>1, <1>7 DEF provision_account, ScGood, JobOk
  <2>2. a \in ScNums /\ a # NoSc /\ (sc.account # NoSc => a = sc.account) /\ (sc.account = NoSc => a \in {NoSc, sc.secret})
    BY <1>1 DEF svcacct_add
  <2>3. PICK g \in {"done", "denied"} : sc' = [sc EXCEPT !.job[x].stage = g, !.account = a]
    BY <1>7 DEF provision_account
  <2> HIDE DEF a
  <2> DEFINE j == Stage(g)
  <2>4. j \in ScJobs /\ j.stage = g /\ j.pass = sc.secret
    BY <1>2 DEF ScStages
  <2>5. sc' = Scripted(sc, x, j, a, sc.store)
    BY <1>1, <2>3 DEF Scripted, ScStates, ScJobTable, ScJobs
  <2> HIDE DEF j
  <2> QED BY <1>1, <2>1, <2>2, <2>4, <2>5, ScriptStep
<1> QED BY <1>3, <1>4, <1>5, <1>6, <1>7 DEF provision_dies

\* A run ends with its record.
LEMMA Finished ==
  ASSUME ScGood(sc), NEW x \in Drivers, NEW s \in ScStates, SameClaim(s), \A y \in Drivers \ {x} : s.p[y] = sc.p[y],
         Counted(sc, s.p[x]), s.p[x].edge \notin {NoSc, "DiscoveryIncomplete"} => s.p[x].obj # NoSc,
         s.binding = sc.binding \/ BindOk(s), NEW state \in {"Ready", "Degraded"}, NEW reason \in ScReasons
  PROVE  ScGood(Recorded(x, s, state, reason)) /\ SameClaim(Recorded(x, s, state, reason))
<1> DEFINE t == Recorded(x, s, state, reason)
<1>1. sc \in ScStates /\ t = Recorded(x, s, state, reason)
  BY DEF ScGood
<1> HIDE DEF t
<1>0. EndedWith(x, s, t)
  BY <1>1, RecordWritten
<1>2. /\ t \in ScStates /\ \A y \in Drivers \ {x} : t.p[y] = s.p[y]
      /\ t.p[x].pc = "end" /\ SameDriver(t.p[x], s.p[x]) /\ t.p[x].obj = s.p[x].obj /\ t.p[x].edge = s.p[x].edge
      /\ t.reg = s.reg /\ t.gens = s.gens /\ t.secret = s.secret /\ t.job = s.job
      /\ t.account = s.account /\ t.store = s.store /\ t.touched = s.touched /\ t.obj = s.obj
      /\ t.kind = s.kind /\ t.binding = s.binding /\ t.shown = s.shown
  BY <1>0 DEF EndedWith
<1>3. SameClaim(t)
  BY <1>2 DEF SameClaim
<1>4. ProcOk(sc, t.p[x])
  BY <1>2 DEF ProcOk, Counted, Keyed, Ready, Edged, SameDriver
<1>5. t.binding = sc.binding \/ BindOk(t)
  BY <1>2 DEF BindOk
<1>6. \A y \in Drivers \ {x} : t.p[y] = sc.p[y]
  BY <1>2
<1>7. ScGood(t)
  BY <1>2, <1>3, <1>4, <1>5, <1>6, DriverSteps
<1> QED BY <1>1, <1>3, <1>7

\* The driver stops waiting for its script, or the script ends.
LEMMA WaitEnds ==
  ASSUME ScGood(sc), NEW x \in Drivers, provision_ends(x) \/ provision_timeout(x) PROVE ScGood(sc')
<1>1. /\ sc \in ScStates /\ sc.p[x] \in ScProcs /\ ProcOk(sc, sc.p[x]) /\ SameClaim(sc) /\ sc.account \in ScNums
      /\ sc.store \in ScStores /\ "ProviderUnavailable" \in ScReasons /\ sc.job[x] \in ScJobs
  BY DEF ScGood, ScStates, ScTables, SameClaim, ScReasons, ScJobTable
<1>2. JobNone \in ScJobs /\ JobNone.stage = "none"
  BY DEF JobNone, ScJobs, ScStages, ScNums
<1>3. ASSUME NEW g, ScGood(g), sc' = [g EXCEPT !.job[x] = JobNone] PROVE ScGood(sc')
  <2>1. g \in ScStates /\ g.account \in ScNums /\ g.store \in ScStores
    BY <1>3 DEF ScGood, ScStates
  <2>2. sc' = Scripted(g, x, JobNone, g.account, g.store)
    BY <1>3, <2>1 DEF Scripted, ScStates
  <2> QED BY <1>2, <1>3, <2>1, <2>2, ScriptStep
<1>4. ASSUME NEW reason \in {"ProviderUnavailable", "CredentialCheckFailed"}
      PROVE  ScGood(Recorded(x, sc, "Degraded", reason))
  <2>1. reason \in ScReasons /\ sc.binding = sc.binding
    BY DEF ScReasons
  <2> QED BY <1>1, <2>1, Finished DEF ProcOk, Edged
<1>5. CASE provision_timeout(x)
  BY <1>4, <1>5 DEF provision_timeout
<1>6. CASE provision_ends(x) /\ ~Pc(x, "provisioning")
  BY <1>3, <1>6 DEF provision_ends
<1>7. CASE provision_ends(x) /\ Pc(x, "provisioning") /\ sc.job[x].stage = "done"
  <2> DEFINE n == IF sc.kind = "s3" THEN "deliver" ELSE "verify"
             q == [sc.p[x] EXCEPT !.pc = n]
             g == [sc EXCEPT !.p[x] = q]
  <2>0. n \in {"deliver", "verify"}
    OBVIOUS
  <2>2. sc' = [g EXCEPT !.job[x] = JobNone]
    BY <1>1, <1>7 DEF provision_ends, ScStates, ScTables, ScProcs
  <2> HIDE DEF n
  <2>1. q \in ScProcs /\ q.pc = n /\ q.obj = sc.p[x].obj /\ q.edge = sc.p[x].edge /\ SameDriver(q, sc.p[x])
    BY <1>1, <2>0 DEF ScProcs, ScPcs, SameDriver
  <2>3. sc.account # NoSc /\ sc.store # NoSc /\ sc.p[x].pass = sc.secret /\ sc.secret # NoSc
    BY <1>1, <1>7 DEF ScGood, JobOk, ProcOk, Keyed, Pc
  <2> HIDE DEF q
  <2>4. ProcOk(sc, q)
    BY <1>1, <1>7, <2>0, <2>1, <2>3 DEF ProcOk, Counted, Keyed, Ready, Edged, SameDriver, Pc
  <2>5. /\ g \in ScStates /\ g.p[x] = q /\ \A y \in Drivers \ {x} : g.p[y] = sc.p[y]
        /\ SameClaim(g) /\ g.binding = sc.binding
    BY <1>1, <2>1, EntryWritten DEF SameClaim
  <2> HIDE DEF g
  <2>6. ScGood(g)
    BY <2>4, <2>5, DriverSteps
  <2> QED BY <1>3, <2>2, <2>6
<1>8. CASE provision_ends(x) /\ Pc(x, "provisioning") /\ sc.job[x].stage # "done"
  <2> DEFINE reason == IF sc.job[x].stage = "denied" THEN "CredentialCheckFailed" ELSE "ProviderUnavailable"
             r == Recorded(x, sc, "Degraded", reason)
  <2>1. reason \in {"ProviderUnavailable", "CredentialCheckFailed"}
    OBVIOUS
  <2>2. sc' = Recorded(x, [sc EXCEPT !.job[x] = JobNone], "Degraded", reason)
    BY <1>8 DEF provision_ends
  <2> HIDE DEF reason
  <2>3. sc' = [r EXCEPT !.job[x] = JobNone]
    BY <1>1, <2>2 DEF Recorded, ScStates
  <2>4. ScGood(r)
    BY <1>4, <2>1
  <2> HIDE DEF r
  <2> QED BY <1>3, <2>3, <2>4
<1> QED BY <1>5, <1>6, <1>7, <1>8

\* The question before an operation, and what the caller makes of a refusal.
LEMMA RefusalStep ==
  ASSUME ScGood(sc), NEW x \in Drivers, check_registration(x) PROVE ScGood(sc')
<1>1. /\ sc \in ScStates /\ sc.p[x] \in ScProcs /\ ProcOk(sc, sc.p[x]) /\ SameClaim(sc) /\ sc.p[x].pc \in GuestOps
      /\ sc.p[x].edge \in ScEdges
  BY DEF ScGood, ScStates, ScTables, ScProcs, SameClaim, check_registration, P
<1>2. CASE ~Revoked(x) /\ sc' = [sc EXCEPT !.p[x].ok = TRUE]
  <2> DEFINE q == [sc.p[x] EXCEPT !.ok = TRUE]
  <2>1. /\ q \in ScProcs /\ q.pc = sc.p[x].pc /\ q.gen = sc.p[x].gen /\ q.late = sc.p[x].late /\ q.obj = sc.p[x].obj
        /\ q.edge = sc.p[x].edge /\ q.pass = sc.p[x].pass
    BY <1>1 DEF ScProcs
  <2>2. sc' = [sc EXCEPT !.p[x] = q]
    BY <1>1, <1>2 DEF ScStates, ScTables, ScProcs
  <2> HIDE DEF q
  <2>3. sc.p[x].late = 0
    BY <1>1, <1>2 DEF Revoked, P, ProcOk, Counted
  <2>4. ProcOk(sc, q)
    BY <1>1, <2>1, <2>3 DEF ProcOk, Counted, Keyed, Ready, Edged
  <2> QED BY <2>1, <2>2, <2>4, EntrySteps
<1>3. ASSUME NEW pc \in {"edge", "ingress", "claim", "end", "record"}, NEW e \in ScEdges,
             e \notin {NoSc, "DiscoveryIncomplete"} => sc.p[x].obj # NoSc,
             sc' = [sc EXCEPT !.p[x].pc = pc, !.p[x].edge = e]
      PROVE  ScGood(sc')
  <2> DEFINE q == [sc.p[x] EXCEPT !.pc = pc, !.edge = e]
  <2>1. q \in ScProcs /\ q.pc = pc /\ q.edge = e /\ q.obj = sc.p[x].obj /\ SameDriver(q, sc.p[x])
    BY <1>1 DEF ScProcs, ScPcs, SameDriver
  <2>2. sc' = [sc EXCEPT !.p[x] = q]
    BY <1>1, <1>3 DEF ScStates, ScTables, ScProcs
  <2> HIDE DEF q
  <2>3. ProcOk(sc, q)
    BY <1>1, <1>3, <2>1 DEF ProcOk, Counted, Keyed, Ready, Edged, SameDriver
  <2> QED BY <2>1, <2>2, <2>3, EntrySteps
<1>4. ASSUME NEW reason \in ScReasons, sc' = Recorded(x, sc, "Degraded", reason) PROVE ScGood(sc')
  BY <1>1, <1>4, Finished DEF ProcOk, Edged
<1>5. Refusal(x) \in ScEdges /\ {"DiscoveryIncomplete", "InvalidClaim"} \subseteq ScEdges
  BY DEF Refusal, ScEdges
<1>6. ASSUME sc' \in Refused(x) PROVE ScGood(sc')
  <2>1. CASE sc.p[x].pc = "discover"
    BY <1>3, <1>5, <1>6, <2>1 DEF Refused, Pc
  <2>2. CASE sc.p[x].pc = "node_port"
    <3>1. sc.p[x].obj # NoSc
      BY <1>1, <2>2 DEF ProcOk, Edged
    <3> QED BY <1>3, <1>5, <1>6, <2>2, <3>1 DEF Refused, Pc
  <2>3. CASE sc.p[x].pc = "ingress"
    <3> DEFINE pc == ClaimOrEnd(sc.p[x].obj)
               e == IF sc.p[x].edge = "routed" THEN "InvalidClaim" ELSE sc.p[x].edge
    <3>1. pc \in {"claim", "end"}
      BY DEF ClaimOrEnd
    <3>2. e \in ScEdges /\ (e \notin {NoSc, "DiscoveryIncomplete"} => sc.p[x].obj # NoSc)
      BY <1>1, <1>5, ControllersAssumption DEF ProcOk, Edged
    <3>3. sc' = [sc EXCEPT !.p[x].pc = pc, !.p[x].edge = e]
      <4>1. Refused(x) = {[sc EXCEPT !.p[x].pc = ClaimOrEnd(P(x).obj),
                                     !.p[x].edge = IF @ = "routed" THEN "InvalidClaim" ELSE @]}
        BY <2>3 DEF Refused, Pc
      <4>2. sc' = [sc EXCEPT !.p[x].pc = pc, !.p[x].edge = IF @ = "routed" THEN "InvalidClaim" ELSE @]
        BY <1>6, <4>1 DEF P
      <4> HIDE DEF pc
      <4> QED BY <1>1, <4>2 DEF ScStates, ScTables, ScProcs
    <3> HIDE DEF pc, e
    <3> QED BY <1>3, <3>1, <3>2, <3>3
  <2>4. CASE sc.p[x].pc = "provision"
    <3>1. sc' = Recorded(x, sc, "Degraded", "ProviderUnavailable")
      BY <1>6, <2>4 DEF Refused, Pc
    <3> QED BY <1>4, <3>1 DEF ScReasons
  <2>5. CASE sc.p[x].pc = "verify"
    <3>1. sc' = Recorded(x, sc, "Degraded", "CredentialCheckFailed")
      BY <1>6, <2>5 DEF Refused, Pc
    <3> QED BY <1>4, <3>1 DEF ScReasons
  <2>6. CASE sc.p[x].pc = "deliver"
    <3>1. sc' = Recorded(x, sc, "Degraded", Refusal(x))
      BY <1>6, <2>6 DEF Refused, Pc
    <3> QED BY <1>4, <1>5, <3>1 DEF ScReasons
  <2>7. CASE sc.p[x].pc \in {"status_get", "status_patch"}
    <3>1. sc' = [sc EXCEPT !.p[x].pc = "record"]
      BY <1>6, <2>7 DEF Refused, Pc
    <3>2. sc' = [sc EXCEPT !.p[x].pc = "record", !.p[x].edge = sc.p[x].edge]
      BY <1>1, <3>1 DEF ScStates, ScTables, ScProcs
    <3>3. sc.p[x].edge \notin {NoSc, "DiscoveryIncomplete"} => sc.p[x].obj # NoSc
      BY <1>1 DEF ProcOk, Edged
    <3> QED BY <1>1, <1>3, <3>2, <3>3
  <2> QED BY <1>1, <2>1, <2>2, <2>3, <2>4, <2>5, <2>6, <2>7 DEF GuestOps
<1> QED BY <1>2, <1>6 DEF check_registration

\* A guest operation after which nothing but the driver has moved.
LEMMA PlainOperation ==
  ASSUME ScGood(sc), NEW x \in Drivers, sc.p[x].ok, NEW pc \in {"deliver", "status_patch", "record"},
         pc = "deliver" => sc.p[x].pass = sc.secret /\ sc.secret # NoSc /\ sc.account # NoSc /\ sc.store # NoSc
  PROVE  ScGood(Done(x, pc, sc))
<1> DEFINE d == Done(x, pc, sc)
<1>1. /\ sc \in ScStates /\ sc.p[x] \in ScProcs /\ ProcOk(sc, sc.p[x]) /\ SameClaim(sc) /\ SameDriver(sc.p[x], sc.p[x]) /\ pc \in ScPcs
  BY DEF ScGood, ScStates, ScTables, SameClaim, SameDriver, ScPcs
<1>2. /\ d \in ScStates /\ SameClaim(d) /\ d.binding = sc.binding /\ \A y \in Drivers \ {x} : d.p[y] = sc.p[y]
      /\ d.p[x].pc = pc /\ d.p[x].obj = sc.p[x].obj /\ d.p[x].edge = sc.p[x].edge
      /\ d.p[x].pass = sc.p[x].pass /\ Counted(sc, d.p[x])
  BY <1>1, OperationDone
<1> HIDE DEF d
<1>4. ProcOk(sc, d.p[x])
  BY <1>1, <1>2 DEF ProcOk, Keyed, Ready, Edged
<1>5. ScGood(d)
  BY <1>2, <1>4, DriverSteps
<1> QED BY <1>5 DEF d

\* The check of the credential and the delivery.
LEMMA VerifyStep ==
  ASSUME ScGood(sc), NEW x \in Drivers, verify_credentials(x) PROVE ScGood(sc')
<1>1. /\ sc \in ScStates /\ sc.p[x] \in ScProcs /\ ProcOk(sc, sc.p[x]) /\ sc.p[x].ok /\ sc.p[x].pc = "verify"
      /\ SameClaim(sc) /\ SameDriver(sc.p[x], sc.p[x]) /\ {"verify", "deliver"} \subseteq ScPcs
      /\ "CredentialCheckFailed" \in ScReasons
  BY DEF ScGood, ScStates, ScTables, verify_credentials, Allowed, Pc, P, SameClaim, SameDriver, ScPcs, ScReasons
<1>2. sc.p[x].pass = sc.secret /\ sc.secret # NoSc /\ sc.account # NoSc /\ sc.store # NoSc
  BY <1>1 DEF ProcOk, Keyed, Ready
<1> DEFINE d == Done(x, "verify", sc)
<1>3. CASE sc' = Done(x, "deliver", sc)
  BY <1>1, <1>2, <1>3, PlainOperation
<1>4. CASE sc' = Recorded(x, d, "Degraded", "CredentialCheckFailed")
  <2>1. /\ d \in ScStates /\ SameClaim(d) /\ d.binding = sc.binding /\ \A y \in Drivers \ {x} : d.p[y] = sc.p[y]
        /\ d.p[x].obj = sc.p[x].obj /\ d.p[x].edge = sc.p[x].edge /\ Counted(sc, d.p[x])
    BY <1>1, OperationDone
  <2>2. d.p[x].edge \notin {NoSc, "DiscoveryIncomplete"} => d.p[x].obj # NoSc
    BY <1>1, <2>1 DEF ProcOk, Edged
  <2> HIDE DEF d
  <2> QED BY <1>1, <1>4, <2>1, <2>2, Finished
<1> QED BY <1>3, <1>4 DEF verify_credentials

LEMMA DeliverStep ==
  ASSUME ScGood(sc), NEW x \in Drivers, deliver(x) PROVE ScGood(sc')
<1>1. /\ sc \in ScStates /\ sc.p[x] \in ScProcs /\ ProcOk(sc, sc.p[x]) /\ sc.p[x].ok
      /\ SameClaim(sc) /\ SameDriver(sc.p[x], sc.p[x]) /\ "deliver" \in ScPcs /\ {"Reconciled", "BindingDeliveryFailed"} \subseteq ScReasons
  BY DEF ScGood, ScStates, ScTables, deliver, Allowed, Pc, P, SameClaim, SameDriver, ScPcs, ScReasons
<1>2. ASSUME NEW s \in ScStates, SameClaim(s), s.p = sc.p, s.binding = sc.binding \/ BindOk(s), NEW state \in {"Ready", "Degraded"},
             NEW reason \in {"Reconciled", "BindingDeliveryFailed"}, sc' = Recorded(x, Done(x, "deliver", s), state, reason)
      PROVE  ScGood(sc')
  <2> DEFINE d == Done(x, "deliver", s)
  <2>1. SameDriver(s.p[x], sc.p[x]) /\ \A y \in Drivers \ {x} : s.p[y] = sc.p[y]
    BY <1>1, <1>2
  <2>2. /\ d \in ScStates /\ SameClaim(d) /\ d.binding = s.binding /\ \A y \in Drivers \ {x} : d.p[y] = sc.p[y]
        /\ d.p[x].obj = s.p[x].obj /\ d.p[x].edge = s.p[x].edge /\ Counted(sc, d.p[x])
    BY <1>1, <1>2, <2>1, OperationDone
  <2>3. d.p[x].edge \notin {NoSc, "DiscoveryIncomplete"} => d.p[x].obj # NoSc
    BY <1>1, <1>2, <2>2 DEF ProcOk, Edged
  <2>4. sc' = Recorded(x, d, state, reason)
    BY <1>2
  <2> HIDE DEF d
  <2>5. reason \in ScReasons
    BY <1>1, <1>2
  <2>6. d.binding = sc.binding \/ BindOk(d)
    BY <1>2, <2>2 DEF BindOk, SameClaim
  <2> QED BY <1>1, <2>2, <2>3, <2>4, <2>5, <2>6, Finished
<1> DEFINE u == [sc EXCEPT !.binding = sc.p[x].pass]
<1>3. u \in ScStates /\ SameClaim(u) /\ u.p = sc.p /\ u.binding = sc.p[x].pass
  BY <1>1 DEF ScStates, ScProcs, SameClaim
<1>5. BindOk(u)
  <2>1. sc.p[x].pass = sc.secret /\ sc.account # NoSc /\ sc.store # NoSc
    BY <1>1 DEF deliver, Allowed, Pc, ProcOk, Keyed, Ready
  <2> HIDE DEF u
  <2> QED BY <1>3, <2>1 DEF BindOk, SameClaim
<1>4. \/ sc' = Recorded(x, Done(x, "deliver", u), "Ready", "Reconciled")
      \/ sc' = Recorded(x, Done(x, "deliver", sc), "Degraded", "BindingDeliveryFailed")
  BY DEF deliver, P
<1> HIDE DEF u
<1> QED BY <1>1, <1>2, <1>3, <1>4, <1>5

\* The claim object changes; nothing a driver holds depends on it.
LEMMA ObjectChanges ==
  ASSUME NEW s, ScGood(s), NEW o \in ScObjs, StatusOk(o), NEW n \in Nat
  PROVE  ScGood([s EXCEPT !.obj = o, !.uids = n])
<1> DEFINE t == [s EXCEPT !.obj = o, !.uids = n]
<1>1. s \in ScStates
  BY DEF ScGood
<1>2. t \in ScStates
  BY <1>1 DEF ScStates
<1>3. /\ t.obj = o /\ t.p = s.p /\ t.reg = s.reg /\ t.gens = s.gens /\ t.secret = s.secret /\ t.job = s.job
      /\ t.account = s.account /\ t.store = s.store /\ t.touched = s.touched /\ t.binding = s.binding
      /\ t.kind = s.kind /\ t.shown = s.shown
  BY <1>1 DEF ScStates
<1> HIDE DEF t
<1>4. ASSUME NEW y \in Drivers PROVE ProcOk(t, t.p[y])
  BY <1>3 DEF ScGood, ProcOk, Counted, Keyed, Ready
<1>5. ASSUME NEW y \in Drivers PROVE JobOk(t, t.job[y])
  BY <1>3 DEF ScGood, JobOk
<1>6. ProviderOk(t) /\ BindOk(t) /\ t.reg <= t.gens /\ t.shown \in {NoSc, t.reg}
  BY <1>3 DEF ScGood, ProviderOk, BindOk
<1>7. ScGood(t)
  BY <1>2, <1>3, <1>4, <1>5, <1>6 DEF ScGood
<1> QED BY <1>7 DEF t

\* The ingress claim's status and record.
LEMMA StatusStep ==
  ASSUME ScGood(sc), NEW x \in Drivers, deliver_kubernetes(x) \/ update_status(x) \/ status_patch(x) \/ reconcile_guarded(x)
  PROVE  ScGood(sc')
<1>1. /\ sc \in ScStates /\ sc.p[x] \in ScProcs /\ ProcOk(sc, sc.p[x]) /\ SameClaim(sc)
      /\ {"status_get", "status_patch", "record"} \subseteq ScPcs /\ sc.obj \in ScObjs /\ sc.uids \in Nat
  BY DEF ScGood, ScStates, ScTables, SameClaim, ScPcs
<1>2. CASE deliver_kubernetes(x)
  <2> DEFINE q == [sc.p[x] EXCEPT !.pc = "status_get"]
  <2>1. q \in ScProcs /\ q.pc = "status_get" /\ q.obj = sc.p[x].obj /\ q.edge = sc.p[x].edge /\ SameDriver(q, sc.p[x])
    BY <1>1 DEF ScProcs, SameDriver
  <2>2. sc' = [sc EXCEPT !.p[x] = q]
    BY <1>1, <1>2 DEF deliver_kubernetes, ScStates, ScTables, ScProcs
  <2>3. ProcOk(sc, q)
    BY <1>1, <2>1 DEF ProcOk, Counted, Keyed, Ready, Edged, SameDriver
  <2> HIDE DEF q
  <2>4. /\ sc' \in ScStates /\ sc'.p[x] = q /\ \A y \in Drivers \ {x} : sc'.p[y] = sc.p[y]
        /\ SameClaim(sc') /\ sc'.binding = sc.binding
    BY <1>1, <2>1, <2>2, EntryWritten DEF SameClaim
  <2> QED BY <2>3, <2>4, DriverSteps
<1>3. ASSUME NEW pc \in {"status_patch", "record"}, sc.p[x].ok PROVE ScGood(Done(x, pc, sc))
  BY <1>3, PlainOperation
<1>4. CASE update_status(x)
  BY <1>3, <1>4 DEF update_status, Allowed, P
<1>5. CASE status_patch(x)
  <2> DEFINE st == [uid |-> sc.obj.uid, gen |-> sc.obj.gen, state |-> IngressState(x)]
             o == [sc.obj EXCEPT !.status = st]
             d == Done(x, "record", sc)
             u == [sc EXCEPT !.obj = o]
  <2>1. ScGood(d)
    BY <1>3, <1>5 DEF status_patch, Allowed, P
  <2>2. CASE sc' = d
    BY <2>1, <2>2
  <2>3. CASE sc.obj # NoSc /\ sc' = Done(x, "record", [sc EXCEPT !.obj.status = st])
    <3>1. sc.obj \in ScClaims
      BY <1>1, <2>3 DEF ScObjs
    <3>2. st \in ScStatus /\ st.uid = sc.obj.uid /\ st.gen = sc.obj.gen
      BY <3>1 DEF ScStatus, ScClaims, IngressState
    <3>3. [sc EXCEPT !.obj.status = st] = u
      BY <1>1, <3>1 DEF ScStates, ScClaims
    <3>0. sc' = Done(x, "record", u)
      BY <2>3, <3>3
    <3> HIDE DEF st
    <3>4. o \in ScClaims /\ o.uid = sc.obj.uid /\ o.gen = sc.obj.gen /\ o.status = st
      BY <3>1, <3>2 DEF ScClaims
    <3>5. StatusOk(o) /\ o \in ScObjs
      BY <3>1, <3>2, <3>4 DEF StatusOk, ScObjs, ScClaims
    <3> HIDE DEF o
    <3>6. u \in ScStates /\ u.p = sc.p
      BY <1>1, <3>5 DEF ScStates
    <3>7. sc' = [d EXCEPT !.obj = o]
      <4> DEFINE q == [sc.p[x] EXCEPT !.pc = "record", !.ok = FALSE, !.late = IF Revoked(x) THEN sc.p[x].late + 1 ELSE sc.p[x].late]
      <4>1. d = [sc EXCEPT !.p[x] = q]
        BY <1>1, DoneIs
      <4>2. sc' = [u EXCEPT !.p[x] = q]
        <5> DEFINE r == [u.p[x] EXCEPT !.pc = "record", !.ok = FALSE, !.late = IF Revoked(x) THEN u.p[x].late + 1 ELSE u.p[x].late]
        <5> HIDE DEF u
        <5>1. sc' = [u EXCEPT !.p[x] = r]
          BY <3>0, <3>6, DoneIs
        <5>2. r = q
          BY <3>6
        <5> QED BY <5>1, <5>2
      <4> HIDE DEF q, d
      <4> QED BY <1>1, <4>1, <4>2 DEF ScStates
    <3> HIDE DEF d, u
    <3>8. d.uids \in Nat /\ [d EXCEPT !.obj = o] = [d EXCEPT !.obj = o, !.uids = d.uids]
      BY <2>1 DEF ScGood, ScStates
    <3> QED BY <2>1, <3>5, <3>7, <3>8, ObjectChanges
  <2> QED BY <1>5, <2>2, <2>3 DEF status_patch
<1>6. CASE reconcile_guarded(x)
  <2>1. CASE sc' = Recorded(x, sc, IngressState(x), sc.p[x].edge)
    <3>1. IngressState(x) \in {"Ready", "Degraded"} /\ sc.p[x].edge \in ScReasons
      BY <1>1, ControllersAssumption DEF IngressState, ScProcs, ScReasons, ScEdges
    <3>2. Counted(sc, sc.p[x]) /\ (sc.p[x].edge \notin {NoSc, "DiscoveryIncomplete"} => sc.p[x].obj # NoSc)
      BY <1>1 DEF ProcOk, Edged
    <3> QED BY <1>1, <2>1, <3>1, <3>2, Finished
  <2> QED BY <1>6, <2>1, RunEnds DEF reconcile_guarded, P
<1> QED BY <1>2, <1>4, <1>5, <1>6

\* Users at the claim object, and others at the provider.
LEMMA ScWorldStep ==
  ASSUME ScGood(sc), ClaimEdited \/ ProviderTouched PROVE ScGood(sc')
<1>1. sc \in ScStates /\ sc.obj \in ScObjs /\ sc.uids \in Nat /\ StatusOk(sc.obj) /\ sc.account \in ScNums /\ sc.store \in ScStores
  BY DEF ScGood, ScStates
<1>2. CASE ClaimEdited
  <2> DEFINE n == sc.uids + 1
             fresh == [uid |-> n, gen |-> 1, status |-> NoSc]
             later == [sc.obj EXCEPT !.gen = @ + 1]
  <2>1. n \in Nat
    BY <1>1
  <2>2. CASE sc' = [sc EXCEPT !.uids = n, !.obj = fresh]
    <3>1. fresh \in ScObjs /\ StatusOk(fresh)
      BY <2>1 DEF ScObjs, ScClaims, ScStatus, StatusOk
    <3> HIDE DEF fresh, n
    <3>2. sc' = [sc EXCEPT !.obj = fresh, !.uids = n]
      BY <1>1, <2>2 DEF ScStates
    <3> QED BY <2>1, <3>1, <3>2, ObjectChanges
  <2>3. CASE sc.obj # NoSc /\ sc' = [sc EXCEPT !.obj.gen = @ + 1]
    <3>1. sc.obj \in ScClaims
      BY <1>1, <2>3 DEF ScObjs
    <3>2. later \in ScClaims /\ later.uid = sc.obj.uid /\ later.gen = sc.obj.gen + 1 /\ later.status = sc.obj.status
      BY <3>1 DEF ScClaims
    <3>3. sc' = [sc EXCEPT !.obj = later, !.uids = sc.uids]
      BY <1>1, <2>3, <3>1 DEF ScStates, ScClaims
    <3> HIDE DEF later
    <3>4. later \in ScObjs /\ StatusOk(later)
      BY <1>1, <2>3, <3>1, <3>2 DEF ScObjs, ScClaims, ScStatus, StatusOk
    <3> QED BY <1>1, <3>3, <3>4, ObjectChanges
  <2>4. CASE sc' = [sc EXCEPT !.obj = NoSc]
    <3>1. sc' = [sc EXCEPT !.obj = NoSc, !.uids = sc.uids] /\ NoSc \in ScObjs /\ StatusOk(NoSc)
      BY <1>1, <2>4 DEF ScStates, ScObjs, StatusOk
    <3> QED BY <1>1, <3>1, ObjectChanges
  <2> QED BY <1>2, <2>2, <2>3, <2>4 DEF ClaimEdited
<1>3. CASE ProviderTouched
  <2> DEFINE other == [by |-> "other", tag |-> NoSc]
  <2>1. /\ sc' \in ScStates /\ sc'.p = sc.p /\ sc'.reg = sc.reg /\ sc'.gens = sc.gens /\ sc'.secret = sc.secret /\ sc'.job = sc.job
        /\ sc'.obj = sc.obj /\ sc'.binding = sc.binding /\ sc'.kind = sc.kind /\ sc'.shown = sc.shown
    <3>1. other \in ScStores /\ 0 \in ScNums
      BY DEF ScStores, ScBackends, ScNums
    <3>2. sc' = [sc EXCEPT !.store = other, !.touched = TRUE] \/ sc' = [sc EXCEPT !.account = 0, !.touched = TRUE]
      BY <1>3 DEF ProviderTouched
    <3> HIDE DEF other
    <3>3. sc' \in ScStates
      BY ZenonT(40), <1>1, <3>1, <3>2 DEF ScStates
    <3> QED BY <1>1, <3>2, <3>3 DEF ScStates
  <2>2. sc'.touched /\ (sc.account # NoSc => sc'.account # NoSc) /\ (sc.store # NoSc => sc'.store # NoSc)
    <3>1. CASE sc.store = NoSc /\ sc' = [sc EXCEPT !.store = other, !.touched = TRUE]
      <4> HIDE DEF other
      <4>1. sc'.touched = TRUE /\ sc'.account = sc.account
        BY <1>1, <3>1 DEF ScStates
      <4> QED BY <3>1, <4>1
    <3>2. CASE sc' = [sc EXCEPT !.account = 0, !.touched = TRUE]
      <4>1. sc'.touched = TRUE /\ sc'.account = 0 /\ sc'.store = sc.store
        BY <1>1, <3>2 DEF ScStates
      <4> QED BY <4>1, ControllersAssumption
    <3> QED BY <1>3, <3>1, <3>2 DEF ProviderTouched
  <2>3. ASSUME NEW y \in Drivers PROVE ProcOk(sc', sc'.p[y])
    BY <2>1, <2>2 DEF ScGood, ProcOk, Counted, Keyed, Ready
  <2>4. ASSUME NEW y \in Drivers PROVE JobOk(sc', sc'.job[y])
    BY <2>1, <2>2 DEF ScGood, JobOk
  <2>5. ProviderOk(sc') /\ BindOk(sc') /\ StatusOk(sc'.obj) /\ sc'.reg <= sc'.gens /\ sc'.shown \in {NoSc, sc'.reg}
    BY <1>1, <2>1, <2>2 DEF ScGood, ProviderOk, BindOk
  <2> QED BY <2>1, <2>3, <2>4, <2>5 DEF ScGood
<1> QED BY <1>2, <1>3

\* For any number of registrations, claim objects and credentials, wherever
\* either driver is killed while its script runs on: a revoked worker has at
\* most the one operation it was allowed and its result is not shown as the new
\* registration's, account and binding are the stored credential's until
\* somebody else changes them, and a status is of the object it stands in
\* (RpcGuest::check_registration, FileSecretStore::get_or_create, update_status).
THEOREM ClaimsAreServedSafely == ScSpec => []ClaimsServedSafely
<1> DEFINE Inv == ScGood(sc)
<1>1. ScInit => Inv
  <2> SUFFICES ASSUME ScInit PROVE ScGood(sc)
    OBVIOUS
  <2>1. ScIdle \in ScProcs /\ JobNone \in ScJobs /\ JobNone.stage = "none" /\ NoRec \in ScRecs /\ NoRec.reason = NoSc
    BY ScIdleFacts DEF JobNone, ScJobs, ScStages, ScNums, NoRec, ScRecs, ScReasons, ScEdges
  <2>2. [x \in Drivers |-> ScIdle] \in ScTables /\ [x \in Drivers |-> JobNone] \in ScJobTable
    BY <2>1 DEF ScTables, ScJobTable
  <2>3. sc \in ScStates
    BY <2>1, <2>2 DEF ScInit, ScStates, ScKinds, ScNums, ScStores, ScObjs
  <2>4. /\ sc.reg = 0 /\ sc.gens = 0 /\ sc.p = [x \in Drivers |-> ScIdle] /\ sc.job = [x \in Drivers |-> JobNone]
        /\ sc.account = NoSc /\ sc.store = NoSc /\ sc.obj = NoSc /\ sc.binding = NoSc /\ sc.shown = NoSc
    BY DEF ScInit
  <2>5. ProviderOk(sc) /\ StatusOk(sc.obj) /\ BindOk(sc)
    BY <2>1, <2>4, ControllersAssumption DEF ProviderOk, StatusOk, BindOk
  <2>6. ASSUME NEW x \in Drivers PROVE ProcOk(sc, sc.p[x]) /\ JobOk(sc, sc.job[x])
    BY <2>1, <2>3, <2>4, ScIdleFacts DEF JobOk
  <2> QED BY <2>3, <2>4, <2>5, <2>6 DEF ScGood
<1>2. Inv /\ [ScNext]_sc => Inv'
  <2> SUFFICES ASSUME ScGood(sc), [ScNext]_sc PROVE ScGood(sc')
    OBVIOUS
  <2>1. CASE UNCHANGED sc
    BY <2>1
  <2>2. CASE ScNext
    BY <2>2, RegistrationStep, ScWorldStep, DriverBegins, CheckStep, RefusalStep, DiscoverStep, NodePortStep, ReconcileEdgeStep, SecretStep, StartStep,
       GuestStep, WaitEnds, VerifyStep, DeliverStep, StatusStep DEF ScNext
  <2> QED BY <2>1, <2>2
<1>3. Inv => ClaimsServedSafely
  <2> SUFFICES ASSUME ScGood(sc) PROVE ClaimsServedSafely
    OBVIOUS
  <2>1. RevokedWorkerStops
    <3>1. ProcOk(sc, sc.p["worker"]) /\ sc.p["worker"].late \in Nat
      BY DEF ScGood, Drivers, ScStates, ScTables, ScProcs
    <3> QED BY <3>1 DEF ScGood, RevokedWorkerStops, P, ProcOk, Counted
  <2>2. NoSelfLockout
    BY DEF ScGood, ProviderOk, BindOk, NoSelfLockout
  <2>3. StatusOfThisObject
    BY DEF ScGood, StatusOk, StatusOfThisObject
  <2> QED BY <2>1, <2>2, <2>3 DEF ClaimsServedSafely
<1> QED BY <1>1, <1>2, <1>3, PTL DEF ScSpec

-----------------------------------------------------------------------------
(* The Kubernetes cluster.                                                 *)

KbVms     == {"server", "agent"}
KbNames   == {"marker", "binary", "token", "resolver", "config", "unit"}
KbTexts   == {NoKb, "us", "them", "other", "v1", "v2", "srv", "k10", "on", "resolved", "plain", "server", "agent"}
KbImages  == [KbNames -> KbTexts]
KbHosts   == [f : KbImages, run : KbImages \cup {NoKb}]
KbTables  == [KbVms -> KbHosts]
\* The API server holds every value in the form it keeps it in.
KbVals    == {v \in [KbFields -> Nat \cup {NoKb}] : \A f \in KbFields : Stored(f, v[f]) = v[f]}
KbObjects == [uid : Nat, rv : Nat, owner : {"us", "them"}, update : SUBSET KbFields, apply : SUBSET KbFields,
              theirs : SUBSET KbFields, val : KbVals]
KbObjs    == KbObjects \cup {NoKb}
KbDeploys == [uid : Nat, rv : Nat, marker : {NoKb, "on", "off", "them"}]
KbDeps    == KbDeploys \cup {NoKb}
KbAddons  == [uid : Nat, rv : Nat]
KbNodePcs == {"install", "tidy", "wait"}
KbRollPcs == {"addon", "fresh", "patch", "status"}
KbObjPcs  == {"migrate", "bridge", "bridged", "retire", "retired", "apply", "reread"}
KbLatePcs == {"rollout", "object", "create", "record"} \cup KbRollPcs \cup KbObjPcs
KbPcs     == {"idle", "token", "write_token"} \cup KbNodePcs \cup KbLatePcs
KbProcs   == [pc : KbPcs, n : {1, 2}, file : 1..7, changed : BOOLEAN, seen : KbObjs, uid : Nat, try : Nat, dep : KbDeps,
              addon : KbAddons \cup {NoKb}, own : BOOLEAN]
KbWants   == [ver : {"v1", "v2"}, dns : {"off", "on", "other"}, man : {"ok", "bad", "labelled"}, a : Nat, b : BOOLEAN, s : BOOLEAN]
KbLasts   == [quiet : BOOLEAN] \cup {NoKb}
KbStates  == [want : KbWants, edits : Nat, foreign : Nat, ids : Nat, token : {NoKb, "torn", "srv"}, node : KbTables, obj : KbObjs,
              dep : KbDeps, addon : KbAddons, last : KbLasts, p : KbProcs, out : {NoKb, "torn", "server"}, exp : {"idle", "write"}]

\* A run is about a manifest that can be used, and about an agent that holds
\* no K3s of somebody else.
Begun(w, p) ==
  /\ p.pc # "idle" => w.man = "ok"
  /\ p.pc \in {"idle", "token", "write_token"} => p.n = 1 /\ p.file = 1
AgentOurs(h, p) ==
  /\ h.f["marker"] = "us" => h.f["binary"] # "other"
  /\ p.pc # "idle" => h.f["marker"] # "them" /\ h.f["binary"] # "other"

\* A node that is through with its installation: the binary on its disk too is
\* the pinned one, as the node may reboot.
KbSettled(w, h) == h.f["binary"] = w.ver /\ h.run # NoKb /\ h.run["binary"] = w.ver
NodesSettled(w, node, p) ==
  /\ p.pc \in KbNodePcs /\ p.n = 2 => KbSettled(w, node["server"])
  /\ p.pc \in {"tidy", "wait"} \/ (p.pc = "install" /\ p.file > 2) => node[KbNodes[p.n]].f["binary"] = w.ver
  /\ p.pc \in KbLatePcs => \A n \in KbVms : KbSettled(w, node[n])

\* The Deployment looked at was not somebody else's.
DeployOurs(p) == p.pc \in KbRollPcs => p.dep # NoKb /\ p.dep.marker # "them"

\* Identifiers of objects are drawn once, so what has the one looked at is the
\* object looked at, whoever has edited it since.
ObjectOurs(ids, o, p) ==
  /\ p.uid <= ids /\ (o # NoKb => o.uid <= ids)
  /\ p.pc \in KbObjPcs => p.seen.uid = p.uid /\ p.seen # NoKb /\ (o # NoKb /\ o.uid = p.uid => o.owner = "us")

DeclaredBy(w) == {"a"} \cup (IF w.b THEN {"b"} ELSE {}) \cup (IF w.s THEN {"s"} ELSE {})
AsDeclared(w, o) ==
  /\ o # NoKb /\ o.owner = "us"
  /\ \A f \in DeclaredBy(w) : o.val[f] = Stored(f, IF f = "a" THEN w.a ELSE 1)
ReadyRecorded(w, node, o, last, p) ==
  /\ p.pc = "record" /\ p.own => AsDeclared(w, o)
  /\ last # NoKb => p.pc = "idle"
  /\ last # NoKb /\ last.quiet => w.man = "ok" /\ AsDeclared(w, o) /\ \A n \in KbVms : KbSettled(w, node[n])

KbGood(s) ==
  /\ s \in KbStates
  /\ Begun(s.want, s.p) /\ AgentOurs(s.node["agent"], s.p) /\ NodesSettled(s.want, s.node, s.p) /\ DeployOurs(s.p)
  /\ ObjectOurs(s.ids, s.obj, s.p) /\ ReadyRecorded(s.want, s.node, s.obj, s.last, s.p)

LEMMA KbSentinel == NoKb \notin KbImages /\ NoKb \notin KbObjects /\ NoKb # "us" /\ NoKb # "them" /\ NoKb # "other"
<1>1. {KbFiles[i] : i \in 1..6} = KbNames
  BY DEF KbFiles, KbNames
<1>2. KbObjects \subseteq [uid : Nat, rv : Nat, owner : {"us", "them"}, update : SUBSET KbFields, apply : SUBSET KbFields,
                            theirs : SUBSET KbFields, val : [KbFields -> Nat \cup {NoKb}]]
  BY DEF KbObjects, KbVals
<1> QED BY <1>1, <1>2, KubernetesAssumption DEF KbImages, KbTexts

LEMMA StoredFacts ==
  ASSUME NEW f \in KbFields, NEW v \in Nat \cup {NoKb}
  PROVE  Stored(f, v) \in Nat \cup {NoKb} /\ Stored(f, Stored(f, v)) = Stored(f, v)
  BY KubernetesAssumption DEF Stored

LEMMA KeptFacts ==
  /\ Kept \subseteq KbFields /\ Theirs \in Nat
  /\ \A f \in Kept : Stored(f, Theirs) = Theirs
  /\ \A f \in KbFields : Stored(f, NoKb) = NoKb /\ (f # "s" => Stored(f, 1) = 1)
  BY KubernetesAssumption DEF Kept, KbFields, Theirs, Stored

LEMMA KbIdleFacts == KbIdle \in KbProcs /\ KbIdle.pc = "idle" /\ KbIdle.uid = 0 /\ KbIdle.n = 1 /\ KbIdle.file = 1
  BY DEF KbIdle, KbProcs, KbPcs, KbObjs, KbDeps

LEMMA KbCleanFacts == KbClean \in KbHosts /\ KbClean.f["marker"] = NoKb
<1>1. {KbFiles[i] : i \in 1..6} = KbNames
  BY DEF KbFiles, KbNames
<1>2. "marker" \in KbNames
  BY DEF KbNames
<1> QED BY <1>1, <1>2 DEF KbClean, KbHosts, KbImages, KbTexts

LEMMA KbInitGood == KbInit => KbGood(kb)
<1> SUFFICES ASSUME KbInit PROVE KbGood(kb)
  OBVIOUS
<1>1. PICK g \in {KbClean, [KbClean EXCEPT !.f["binary"] = "other"], [KbClean EXCEPT !.f["marker"] = "them"]} :
        kb = [want |-> [ver |-> "v1", dns |-> "off", man |-> "ok", a |-> 1, b |-> TRUE, s |-> FALSE], edits |-> 0, foreign |-> 0,
          ids |-> 0, token |-> NoKb, node |-> [server |-> KbClean, agent |-> g],
          obj |-> NoKb, dep |-> NoKb, addon |-> [uid |-> 1, rv |-> 1], last |-> NoKb, p |-> KbIdle, out |-> NoKb, exp |-> "idle"]
  BY DEF KbInit
<1>2. g \in KbHosts /\ (g.f["marker"] = NoKb \/ g.f["marker"] = "them")
  <2> DEFINE F(x, v) == [KbClean.f EXCEPT ![x] = v]
  <2>1. KbClean.f \in KbImages /\ KbClean.run \in KbImages \cup {NoKb} /\ KbClean.f["marker"] = NoKb
    BY KbCleanFacts DEF KbHosts
  <2>2. F("binary", "other") \in KbImages /\ F("binary", "other")["marker"] = NoKb
    BY <2>1 DEF KbImages, KbNames, KbTexts
  <2>3. F("marker", "them") \in KbImages /\ F("marker", "them")["marker"] = "them"
    BY <2>1 DEF KbImages, KbNames, KbTexts
  <2>4. ASSUME NEW x, NEW v PROVE [KbClean EXCEPT !.f[x] = v] = [f |-> F(x, v), run |-> KbClean.run]
    BY KbCleanFacts DEF KbHosts
  <2> HIDE DEF F
  <2>5. CASE g = KbClean
    BY <2>5, KbCleanFacts
  <2>6. CASE g = [KbClean EXCEPT !.f["binary"] = "other"]
    <3>1. g = [f |-> F("binary", "other"), run |-> KbClean.run]
      BY <2>4, <2>6
    <3> QED BY <2>1, <2>2, <3>1 DEF KbHosts
  <2>7. CASE g = [KbClean EXCEPT !.f["marker"] = "them"]
    <3>1. g = [f |-> F("marker", "them"), run |-> KbClean.run]
      BY <2>4, <2>7
    <3> QED BY <2>1, <2>3, <3>1 DEF KbHosts
  <2> QED BY <1>1, <2>5, <2>6, <2>7
<1> DEFINE t == [server |-> KbClean, agent |-> g]
           w == [ver |-> "v1", dns |-> "off", man |-> "ok", a |-> 1, b |-> TRUE, s |-> FALSE]
<1>3. t \in KbTables /\ t["agent"] = g
  BY <1>2, KbCleanFacts DEF KbTables, KbVms
<1>4. w \in KbWants /\ [uid |-> 1, rv |-> 1] \in KbAddons
  BY DEF KbWants, KbAddons
<1> HIDE DEF t, w
<1>5. kb \in KbStates /\ kb.node = t /\ kb.p = KbIdle /\ kb.last = NoKb /\ kb.obj = NoKb /\ kb.ids = 0
  BY <1>1, <1>3, <1>4, KbIdleFacts DEF KbStates, KbObjs, KbDeps, KbLasts, t, w
<1>6. KbIdle.pc = "idle" /\ "idle" \notin KbNodePcs \cup KbLatePcs /\ NoKb # "us"
  BY KbIdleFacts, KbSentinel DEF KbNodePcs, KbLatePcs, KbRollPcs, KbObjPcs
<1> QED BY <1>2, <1>3, <1>5, <1>6, KbIdleFacts
        DEF KbGood, Begun, AgentOurs, NodesSettled, DeployOurs, ObjectOurs, ReadyRecorded, KbNodePcs, KbLatePcs, KbRollPcs, KbObjPcs

\* What the invariant speaks of, besides the command itself.
SameCluster(t, s) ==
  /\ t.want = s.want /\ t.ids = s.ids /\ t.node = s.node /\ t.obj = s.obj /\ t.dep = s.dep /\ t.last = s.last

SameRun(q, r) ==
  /\ q.n = r.n /\ q.file = r.file /\ q.changed = r.changed /\ q.seen = r.seen /\ q.uid = r.uid /\ q.try = r.try
  /\ q.dep = r.dep /\ q.addon = r.addon /\ q.own = r.own

LEMMA ProcWritten ==
  ASSUME NEW s \in KbStates, NEW q \in KbProcs
  PROVE  LET t == [s EXCEPT !.p = q] IN t \in KbStates /\ t.p = q /\ SameCluster(t, s)
<1> DEFINE t == [s EXCEPT !.p = q]
<1>1. t \in KbStates
  BY DEF KbStates
<1>2. t.p = q /\ t.want = s.want /\ t.ids = s.ids /\ t.node = s.node /\ t.obj = s.obj /\ t.dep = s.dep /\ t.last = s.last
  BY DEF KbStates
<1> QED BY <1>1, <1>2 DEF SameCluster

LEMMA KbMoved ==
  ASSUME NEW s \in KbStates, NEW pc \in KbPcs
  PROVE  /\ KbTo(s, pc) \in KbStates /\ SameCluster(KbTo(s, pc), s)
         /\ KbTo(s, pc).p.pc = pc /\ SameRun(KbTo(s, pc).p, s.p)
<1> DEFINE q == [s.p EXCEPT !.pc = pc]
<1>1. s.p \in KbProcs
  BY DEF KbStates
<1>2. q \in KbProcs /\ q.pc = pc
  BY <1>1 DEF KbProcs
<1>3. SameRun(q, s.p)
  BY <1>1 DEF KbProcs, SameRun
<1>4. KbTo(s, pc) = [s EXCEPT !.p = q]
  BY DEF KbTo, KbStates
<1> HIDE DEF q
<1> QED BY <1>2, <1>3, <1>4, ProcWritten

\* A run that is over, or killed.
LEMMA KbFailGood ==
  ASSUME KbGood(kb) PROVE KbGood(KbFail(kb))
<1> DEFINE t == KbFail(kb)
<1>1. kb \in KbStates
  BY DEF KbGood
<1>2. t \in KbStates /\ t.p = KbIdle /\ SameCluster(t, kb)
  BY <1>1, KbIdleFacts, ProcWritten DEF KbFail
<1> HIDE DEF t
<1>3. "idle" \notin KbNodePcs \cup KbLatePcs /\ kb.ids \in Nat
  BY <1>1 DEF KbStates, KbNodePcs, KbLatePcs, KbRollPcs, KbObjPcs
<1>4. Begun(t.want, t.p) /\ AgentOurs(t.node["agent"], t.p) /\ DeployOurs(t.p) /\ NodesSettled(t.want, t.node, t.p)
  BY <1>2, <1>3, KbIdleFacts DEF KbGood, SameCluster, Begun, AgentOurs, DeployOurs, NodesSettled, KbRollPcs, KbNodePcs, KbLatePcs
<1>5. ObjectOurs(t.ids, t.obj, t.p)
  BY <1>2, <1>3, KbIdleFacts DEF KbGood, SameCluster, ObjectOurs, KbObjPcs
<1>6. ReadyRecorded(t.want, t.node, t.obj, t.last, t.p)
  BY <1>2, KbIdleFacts DEF KbGood, SameCluster, ReadyRecorded
<1> QED BY <1>2, <1>4, <1>5, <1>6 DEF KbGood, t

\* The command's facts, while nothing about the cluster changes.
ProcGood(s, q) ==
  /\ Begun(s.want, q) /\ AgentOurs(s.node["agent"], q) /\ NodesSettled(s.want, s.node, q) /\ DeployOurs(q)
  /\ ObjectOurs(s.ids, s.obj, q) /\ ReadyRecorded(s.want, s.node, s.obj, s.last, q)

LEMMA ProcGoodSame ==
  ASSUME NEW s, NEW t \in KbStates, SameCluster(t, s), ProcGood(s, t.p)
  PROVE  KbGood(t)
  BY DEF ProcGood, KbGood, SameCluster

\* From one step of the command to the next, with nothing else to show than
\* what the next step needs.
LEMMA KbAdvances ==
  ASSUME KbGood(kb), NEW q \in KbProcs, q.pc \in KbPcs, kb.p.pc # "idle", q.uid \in {0, kb.p.uid},
         q.pc \in {"idle", "token", "write_token"} => q.n = 1 /\ q.file = 1,
         q.pc \in KbNodePcs \cup KbLatePcs => NodesSettled(kb.want, kb.node, q),
         q.pc \in KbRollPcs => DeployOurs(q),
         q.pc \in KbObjPcs => ObjectOurs(kb.ids, kb.obj, q),
         q.pc = "record" => (q.own => AsDeclared(kb.want, kb.obj))
  PROVE  ProcGood(kb, q)
<1>1. Begun(kb.want, q) /\ AgentOurs(kb.node["agent"], q)
  BY DEF KbGood, Begun, AgentOurs
<1>2. NodesSettled(kb.want, kb.node, q)
  BY DEF NodesSettled, KbNodePcs
<1>3. DeployOurs(q)
  BY DEF DeployOurs
<1>4. ObjectOurs(kb.ids, kb.obj, q)
  <2>1. kb.ids \in Nat
    BY DEF KbGood, KbStates
  <2> QED BY <2>1 DEF KbGood, ObjectOurs
<1>5. ReadyRecorded(kb.want, kb.node, kb.obj, kb.last, q)
  BY DEF KbGood, ReadyRecorded
<1> QED BY <1>1, <1>2, <1>3, <1>4, <1>5 DEF ProcGood

LEMMA PreflightStep ==
  ASSUME KbGood(kb), preflight PROVE KbGood(kb')
<1>1. CASE kb' = KbFail(kb)
  BY <1>1, KbFailGood
<1>2. CASE /\ kb' = KbTo([kb EXCEPT !.last = NoKb], "token")
           /\ upstream # "refused" /\ read /\ owned
           /\ \A n \in {"server", "agent"} : file_guard(n) /\ check_node_owner(n)
  <2> DEFINE s == [kb EXCEPT !.last = NoKb]
             t == KbTo(s, "token")
  <2>1. kb \in KbStates /\ "token" \in KbPcs
    BY DEF KbGood, KbPcs
  <2>2. s \in KbStates /\ s.last = NoKb
    BY <2>1 DEF KbStates, KbLasts
  <2>3. s.want = kb.want /\ s.ids = kb.ids /\ s.node = kb.node /\ s.obj = kb.obj /\ s.dep = kb.dep /\ s.p = kb.p
    BY <2>1 DEF KbStates
  <2> HIDE DEF s
  <2>4. t \in KbStates /\ SameCluster(t, s) /\ t.p.pc = "token" /\ SameRun(t.p, s.p)
    BY <2>1, <2>2, KbMoved
  <2> HIDE DEF t
  <2>5. kb.want.man = "ok"
    <3>1. kb.want \in KbWants
      BY <2>1 DEF KbStates
    <3> QED BY <1>2, <3>1 DEF read, owned, KbWants
  <2>6. AgentOurs(kb.node["agent"], t.p)
    <3>1. check_node_owner("agent")
      BY <1>2
    <3> QED BY <3>1, KbSentinel DEF KbGood, AgentOurs, check_node_owner
  <2>7. "token" \notin KbNodePcs /\ "token" \notin KbLatePcs /\ "token" \notin KbRollPcs /\ "token" \notin KbObjPcs
    BY DEF KbNodePcs, KbLatePcs, KbRollPcs, KbObjPcs
  <2>p. kb.p.n = 1 /\ kb.p.file = 1
    BY DEF KbGood, Begun, preflight, KbAt
  <2>8. NodesSettled(kb.want, kb.node, t.p) /\ DeployOurs(t.p) /\ Begun(kb.want, t.p)
    BY <2>3, <2>4, <2>5, <2>7, <2>p DEF NodesSettled, DeployOurs, Begun, SameRun, KbNodePcs
  <2>9. ObjectOurs(kb.ids, kb.obj, t.p)
    BY <2>3, <2>4, <2>7 DEF KbGood, ObjectOurs, SameRun
  <2>10. ReadyRecorded(kb.want, kb.node, kb.obj, NoKb, t.p)
    BY <2>4 DEF ReadyRecorded
  <2> QED BY <1>2, <2>2, <2>3, <2>4, <2>6, <2>8, <2>9, <2>10 DEF KbGood, SameCluster, t, s
<1> QED BY <1>1, <1>2 DEF preflight

\* A step of the command that only moves on.
LEMMA KbMoves ==
  ASSUME KbGood(kb), NEW pc \in KbPcs, kb.p.pc # "idle", kb' = KbTo(kb, pc),
         pc \notin {"idle", "token", "write_token"},
         pc \in KbNodePcs \cup KbLatePcs => NodesSettled(kb.want, kb.node, kb'.p),
         pc \in KbRollPcs => DeployOurs(kb'.p),
         pc \in KbObjPcs => kb.p.pc \in KbObjPcs, pc # "record"
  PROVE  KbGood(kb')
<1>1. kb \in KbStates
  BY DEF KbGood
<1>2. kb' \in KbStates /\ SameCluster(kb', kb) /\ kb'.p.pc = pc /\ SameRun(kb'.p, kb.p)
  BY <1>1, KbMoved
<1>3. kb'.p \in KbProcs
  BY <1>2 DEF KbStates
<1>4. pc \in KbObjPcs => ObjectOurs(kb.ids, kb.obj, kb'.p)
  BY <1>2 DEF KbGood, ObjectOurs, SameRun
<1>5. ProcGood(kb, kb'.p)
  BY <1>2, <1>3, <1>4, KbAdvances DEF SameRun
<1> QED BY <1>2, <1>5, ProcGoodSame

LEMMA TokenStep ==
  ASSUME KbGood(kb), ensure_token PROVE KbGood(kb')
<1>1. kb \in KbStates /\ kb.p.pc # "idle" /\ kb.p.n = 1 /\ kb.p.file = 1
  BY DEF KbGood, Begun, ensure_token, KbAt
<1>2. ASSUME NEW k \in {NoKb, "torn", "srv"}, NEW pc \in {"write_token", "install"}, kb' = KbTo([kb EXCEPT !.token = k], pc)
      PROVE  KbGood(kb')
  <2> DEFINE s == [kb EXCEPT !.token = k]
  <2>1. s \in KbStates
    BY <1>1 DEF KbStates
  <2>2. s.want = kb.want /\ s.ids = kb.ids /\ s.node = kb.node /\ s.obj = kb.obj /\ s.dep = kb.dep /\ s.p = kb.p /\ s.last = kb.last
    BY <1>1 DEF KbStates
  <2>3. kb' = KbTo(s, pc) /\ pc \in KbPcs
    BY <1>2 DEF KbPcs, KbNodePcs
  <2> HIDE DEF s
  <2>4. kb' \in KbStates /\ SameCluster(kb', kb) /\ kb'.p.pc = pc /\ SameRun(kb'.p, kb.p)
    BY <2>1, <2>2, <2>3, KbMoved DEF SameCluster
  <2>5. kb'.p \in KbProcs /\ pc \notin KbLatePcs \cup KbRollPcs \cup KbObjPcs /\ pc # "record"
    BY <1>2, <2>4 DEF KbStates, KbLatePcs, KbRollPcs, KbObjPcs
  <2>6. NodesSettled(kb.want, kb.node, kb'.p)
    BY <1>1, <1>2, <2>4, <2>5 DEF NodesSettled, SameRun, KbNodePcs
  <2>7. ProcGood(kb, kb'.p)
    BY <1>1, <2>3, <2>4, <2>5, <2>6, KbAdvances DEF SameRun
  <2> QED BY <2>4, <2>7, ProcGoodSame
<1>3. kb = [kb EXCEPT !.token = kb.token] /\ kb.token \in {NoKb, "torn", "srv"}
  BY <1>1 DEF KbStates
<1> QED BY <1>2, <1>3, KbFailGood DEF ensure_token

\* A node's entry is replaced.
NodeWrite(s, v, h, q, d) == [s EXCEPT !.node = [s.node EXCEPT ![v] = h], !.p = q, !.dep = d]

LEMMA NodeWritten ==
  ASSUME NEW s \in KbStates, NEW v \in KbVms, NEW h \in KbHosts, NEW q \in KbProcs, NEW d \in KbDeps
  PROVE  LET t == NodeWrite(s, v, h, q, d)
         IN  /\ t \in KbStates /\ t.node[v] = h /\ \A n \in KbVms \ {v} : t.node[n] = s.node[n]
             /\ t.p = q /\ t.dep = d /\ t.want = s.want /\ t.ids = s.ids /\ t.obj = s.obj /\ t.last = s.last
<1> DEFINE m == [s.node EXCEPT ![v] = h]
           t == [s EXCEPT !.node = m, !.p = q, !.dep = d]
<1>1. s.node \in KbTables
  BY DEF KbStates
<1>2. m \in KbTables /\ m[v] = h /\ \A n \in KbVms \ {v} : m[n] = s.node[n]
  BY <1>1 DEF KbTables
<1> HIDE DEF m
<1>3. t \in KbStates
  BY <1>2 DEF KbStates
<1>4. t.node = m /\ t.p = q /\ t.dep = d /\ t.want = s.want /\ t.ids = s.ids /\ t.obj = s.obj /\ t.last = s.last
  BY DEF KbStates
<1>5. NodeWrite(s, v, h, q, d) = t
  BY DEF NodeWrite, m
<1> HIDE DEF t
<1> QED BY <1>2, <1>3, <1>4, <1>5

\* The node under installation is written, by files of ours.
NodeStepped(v, h, t) ==
  /\ t \in KbStates /\ t.node[v] = h /\ \A n \in KbVms \ {v} : t.node[n] = kb.node[n]
  /\ t.want = kb.want /\ t.ids = kb.ids /\ t.obj = kb.obj /\ t.last = kb.last
  /\ t.p.pc \in KbNodePcs /\ t.p.n = kb.p.n /\ t.p.uid = kb.p.uid

LEMMA NodeSteps ==
  ASSUME KbGood(kb), kb.p.pc \in KbNodePcs, NEW v, v = KbNodes[kb.p.n], NEW h, NEW t, NodeStepped(v, h, t),
         h.f["marker"] \in {"us", kb.node[v].f["marker"]}, h.f["binary"] \in {kb.want.ver, kb.node[v].f["binary"]},
         t.p.pc \in {"tidy", "wait"} \/ t.p.file > 2 => h.f["binary"] = kb.want.ver
  PROVE  KbGood(t)
<1>1. kb \in KbStates /\ kb.p \in KbProcs /\ kb.want \in KbWants /\ kb.p.pc # "idle"
  BY DEF KbGood, KbStates, KbNodePcs
<1>2. v \in KbVms /\ (v = "server" => kb.p.n = 1) /\ (v = "agent" => kb.p.n = 2)
  <2>1. kb.p.n = 1 \/ kb.p.n = 2
    BY <1>1 DEF KbProcs
  <2>2. KbNodes[1] = "server" /\ KbNodes[2] = "agent"
    BY DEF KbNodes
  <2> QED BY <2>1, <2>2 DEF KbVms
<1>3. "server" \in KbVms /\ "agent" \in KbVms /\ kb.want.ver # "other"
  BY <1>1 DEF KbVms, KbWants
<1>4. Begun(t.want, t.p) /\ DeployOurs(t.p)
  BY <1>1 DEF KbGood, NodeStepped, Begun, DeployOurs, KbNodePcs, KbRollPcs
<1>5. AgentOurs(t.node["agent"], t.p)
  <2>1. kb.node["agent"].f["marker"] # "them" /\ kb.node["agent"].f["binary"] # "other"
    BY <1>1 DEF KbGood, AgentOurs
  <2>2. CASE v = "agent"
    BY <1>3, <2>1, <2>2 DEF NodeStepped, AgentOurs
  <2>3. CASE v # "agent"
    BY <1>3, <2>1, <2>3 DEF NodeStepped, AgentOurs
  <2> QED BY <2>2, <2>3
<1>6. NodesSettled(t.want, t.node, t.p)
  <2>1. t.p.pc \notin KbLatePcs
    BY DEF NodeStepped, KbNodePcs, KbLatePcs, KbRollPcs, KbObjPcs
  <2>2. t.p.n = 2 => KbSettled(t.want, t.node["server"])
    <3>1. SUFFICES ASSUME kb.p.n = 2 PROVE KbSettled(kb.want, t.node["server"])
      BY DEF NodeStepped
    <3>2. KbSettled(kb.want, kb.node["server"]) /\ t.node["server"] = kb.node["server"]
      BY <1>2, <1>3, <3>1 DEF KbGood, NodesSettled, NodeStepped
    <3> QED BY <3>2
  <2>3. t.node[KbNodes[t.p.n]] = h
    BY DEF NodeStepped
  <2> QED BY <2>1, <2>2, <2>3 DEF NodesSettled, NodeStepped
<1>7. ObjectOurs(t.ids, t.obj, t.p)
  BY DEF KbGood, ObjectOurs, NodeStepped, KbNodePcs, KbObjPcs
<1>8. ReadyRecorded(t.want, t.node, t.obj, t.last, t.p)
  BY <1>1 DEF KbGood, ReadyRecorded, NodeStepped, KbNodePcs
<1> QED BY <1>4, <1>5, <1>6, <1>7, <1>8 DEF KbGood, NodeStepped

LEMMA WantedText ==
  ASSUME kb \in KbStates, NEW x \in KbNames
  PROVE  KbWanted(x) \in KbTexts
<1>1. kb.want \in KbWants /\ kb.p \in KbProcs /\ kb.node \in KbTables
  BY DEF KbStates
<1>2. KbVm \in KbVms /\ kb.want.ver \in {"v1", "v2"}
  BY <1>1 DEF KbVm, KbNodes, KbVms, KbProcs, KbWants
<1>3. kb.node[KbVm].f \in KbImages /\ "resolver" \in KbNames
  BY <1>1, <1>2 DEF KbTables, KbHosts, KbNames
<1>4. kb.node[KbVm].f["resolver"] \in KbTexts
  BY <1>3 DEF KbImages
<1>5. CASE x = "resolver"
  BY <1>4, <1>5 DEF KbWanted, KbTexts
<1>6. CASE x # "resolver"
  BY <1>2, <1>6 DEF KbWanted, KbTexts, KbNames, KbVms, node_config
<1> QED BY <1>5, <1>6

LEMMA GuestFileStep ==
  ASSUME KbGood(kb), guarded_guest_file PROVE KbGood(kb')
<1> DEFINE x == KbFiles[kb.p.file]
           new == KbWanted(x)
           v == KbVm
           g == [kb.node[v].f EXCEPT ![x] = new]
           h == [kb.node[v] EXCEPT !.f = g]
           c == kb.p.changed \/ (x # "marker" /\ kb.node[v].f[x] # new)
           q == [kb.p EXCEPT !.file = kb.p.file + 1, !.changed = c]
           t == NodeWrite(kb, v, h, q, kb.dep)
<1>1. /\ kb \in KbStates /\ kb.p \in KbProcs /\ kb.node \in KbTables /\ kb.dep \in KbDeps /\ kb.p.pc = "install"
      /\ kb.p.file \in 1..6 /\ kb.p.changed \in BOOLEAN
  BY DEF KbGood, KbStates, KbProcs, guarded_guest_file, KbAt, KbFiles
<1>2. v \in KbVms /\ v = KbNodes[kb.p.n]
  BY <1>1 DEF KbVm, KbNodes, KbVms, KbProcs
<1>3. x \in KbNames /\ (kb.p.file = 2 <=> x = "binary") /\ (kb.p.file = 1 <=> x = "marker")
  BY <1>1 DEF KbFiles, KbNames
<1>4. kb.node[v] \in KbHosts /\ kb.node[v].f \in KbImages
  BY <1>1, <1>2 DEF KbTables, KbHosts
<1>5. new \in KbTexts
  BY <1>1, <1>3, WantedText
<1>6. (x = "marker" => new = "us") /\ (x = "binary" => new = kb.want.ver)
  BY DEF KbWanted
<1>7. kb' = t \/ kb' = KbFail(kb)
  <2>1. [kb EXCEPT !.node[KbVm].f[x] = new, !.p.file = @ + 1, !.p.changed = @ \/ (x # "marker" /\ kb.node[KbVm].f[x] # new)] = t
    BY <1>1, <1>2, <1>4 DEF NodeWrite, KbStates, KbTables, KbHosts, KbProcs
  <2> QED BY <2>1 DEF guarded_guest_file
<1>8. q \in KbProcs /\ q.pc = "install" /\ q.n = kb.p.n /\ q.uid = kb.p.uid /\ q.file = kb.p.file + 1
  <2> DEFINE i == kb.p.file + 1
  <2>1. c \in BOOLEAN /\ i \in 1..7
    BY <1>1
  <2> HIDE DEF c, i
  <2>2. [kb.p EXCEPT !.file = i, !.changed = c] \in KbProcs
    BY <1>1, <2>1 DEF KbProcs
  <2>3. LET r == [kb.p EXCEPT !.file = i, !.changed = c] IN r.pc = "install" /\ r.n = kb.p.n /\ r.uid = kb.p.uid /\ r.file = i
    BY <1>1 DEF KbProcs
  <2> QED BY <2>2, <2>3 DEF i
<1> HIDE DEF x, new, c, q
<1>9. g \in KbImages /\ g[x] = new /\ \A y \in KbNames \ {x} : g[y] = kb.node[v].f[y]
  BY <1>3, <1>4, <1>5 DEF KbImages
<1> HIDE DEF g
<1>10. h \in KbHosts /\ h.f = g
  BY <1>4, <1>9 DEF KbHosts
<1> HIDE DEF h
<1>11. NodeStepped(v, h, t)
  BY <1>1, <1>2, <1>8, <1>10, NodeWritten DEF NodeStepped, KbNodePcs
<1>12. "marker" \in KbNames /\ "binary" \in KbNames
  BY DEF KbNames
<1>13. h.f["marker"] \in {"us", kb.node[v].f["marker"]} /\ h.f["binary"] \in {kb.want.ver, kb.node[v].f["binary"]}
  BY <1>6, <1>9, <1>10, <1>12
<1>14. t.p = q
  BY <1>1, <1>2, <1>8, <1>10, NodeWritten
<1>15. t.p.pc \in {"tidy", "wait"} \/ t.p.file > 2 => h.f["binary"] = kb.want.ver
  <2>1. CASE kb.p.file = 2
    BY <1>3, <1>6, <1>9, <1>10, <2>1
  <2>2. CASE kb.p.file = 1
    BY <1>8, <1>14, <2>2
  <2>3. CASE kb.p.file > 2
    <3>1. kb.node[v].f["binary"] = kb.want.ver
      BY <1>1, <1>2, <2>3 DEF KbGood, NodesSettled
    <3> QED BY <1>3, <1>9, <1>10, <1>12, <2>3, <3>1
  <2> QED BY <1>1, <2>1, <2>2, <2>3
<1>16. kb.p.pc \in KbNodePcs
  BY <1>1 DEF KbNodePcs
<1> HIDE DEF t
<1>17. KbGood(t)
  BY <1>2, <1>11, <1>13, <1>15, <1>16, NodeSteps
<1> QED BY <1>7, <1>17, KbFailGood

LEMMA InstallStep ==
  ASSUME KbGood(kb), install_node PROVE KbGood(kb')
<1> DEFINE v == KbVm
           r == IF kb.p.changed \/ kb.node[v].run = NoKb THEN kb.node[v].f ELSE kb.node[v].run
           d == IF kb.dep = NoKb THEN [uid |-> 1, rv |-> 1, marker |-> NoKb] ELSE kb.dep
           h == [kb.node[v] EXCEPT !.run = r]
           q == [kb.p EXCEPT !.pc = "tidy"]
           t == NodeWrite(kb, v, h, q, d)
<1>1. /\ kb \in KbStates /\ kb.p \in KbProcs /\ kb.node \in KbTables /\ kb.dep \in KbDeps /\ kb.p.pc = "install" /\ kb.p.file > 6
      /\ kb.p.file \in 1..7
  BY DEF KbGood, KbStates, KbProcs, install_node, KbAt, KbFiles
<1>2. v \in KbVms /\ v = KbNodes[kb.p.n] /\ [uid |-> 1, rv |-> 1, marker |-> NoKb] \in KbDeploys
  BY <1>1 DEF KbVm, KbNodes, KbVms, KbProcs, KbDeploys
<1>3. kb.node[v] \in KbHosts
  BY <1>1, <1>2 DEF KbTables
<1>4. r \in KbImages \cup {NoKb} /\ d \in KbDeps
  BY <1>1, <1>2, <1>3 DEF KbHosts, KbDeps
<1>5. kb' = t
  <2>1. KbTo([kb EXCEPT !.node[KbVm].run = IF kb.p.changed \/ @ = NoKb THEN kb.node[KbVm].f ELSE @,
                        !.dep = IF @ = NoKb THEN [uid |-> 1, rv |-> 1, marker |-> NoKb] ELSE @], "tidy") = t
    BY <1>1, <1>2, <1>3 DEF KbTo, NodeWrite, KbStates, KbTables, KbHosts, KbProcs
  <2> QED BY <2>1 DEF install_node
<1> HIDE DEF r, d
<1>6. h \in KbHosts /\ h.f = kb.node[v].f
  BY <1>3, <1>4 DEF KbHosts
<1>7. q \in KbProcs /\ q.pc = "tidy" /\ q.n = kb.p.n /\ q.uid = kb.p.uid
  BY <1>1 DEF KbProcs, KbPcs, KbNodePcs
<1> HIDE DEF h, q
<1>w. /\ t \in KbStates /\ t.node[v] = h /\ \A n \in KbVms \ {v} : t.node[n] = kb.node[n]
      /\ t.p = q /\ t.want = kb.want /\ t.ids = kb.ids /\ t.obj = kb.obj /\ t.last = kb.last
  BY <1>1, <1>2, <1>4, <1>6, <1>7, NodeWritten
<1> HIDE DEF v
<1>8. NodeStepped(v, h, t)
  BY <1>w, <1>7 DEF NodeStepped, KbNodePcs
<1>9. kb.node[v].f["binary"] = kb.want.ver
  BY <1>1, <1>2 DEF KbGood, NodesSettled
<1>10. kb.p.pc \in KbNodePcs
  BY <1>1 DEF KbNodePcs
<1> HIDE DEF t
<1>11. KbGood(t)
  BY <1>2, <1>6, <1>8, <1>9, <1>10, NodeSteps
<1> QED BY <1>5, <1>11

LEMMA ResolverStep ==
  ASSUME KbGood(kb), remove_resolver PROVE KbGood(kb')
<1> DEFINE v == KbVm
           x == IF upstream = "stack" THEN kb.node[v].f["resolver"] ELSE NoKb
           g == [kb.node[v].f EXCEPT !["resolver"] = x]
           h == [kb.node[v] EXCEPT !.f = g]
           q == [kb.p EXCEPT !.pc = "wait"]
           t == NodeWrite(kb, v, h, q, kb.dep)
<1>1. kb \in KbStates /\ kb.p \in KbProcs /\ kb.node \in KbTables /\ kb.dep \in KbDeps /\ kb.p.pc = "tidy"
  BY DEF KbGood, KbStates, remove_resolver, KbAt
<1>2. v \in KbVms /\ v = KbNodes[kb.p.n] /\ {"resolver", "marker", "binary"} \subseteq KbNames
  BY <1>1 DEF KbVm, KbNodes, KbVms, KbProcs, KbNames
<1>3. kb.node[v] \in KbHosts /\ kb.node[v].f \in KbImages
  BY <1>1, <1>2 DEF KbTables, KbHosts
<1>4. x \in KbTexts
  BY <1>2, <1>3 DEF KbImages, KbTexts
<1>5. kb' = t
  <2>1. KbTo([kb EXCEPT !.node[KbVm].f["resolver"] = IF upstream = "stack" THEN @ ELSE NoKb], "wait") = t
    BY <1>1, <1>2, <1>3 DEF KbTo, NodeWrite, KbStates, KbTables, KbHosts, KbProcs
  <2> QED BY <2>1 DEF remove_resolver
<1> HIDE DEF x
<1>6. g \in KbImages /\ \A y \in KbNames \ {"resolver"} : g[y] = kb.node[v].f[y]
  BY <1>2, <1>3, <1>4 DEF KbImages
<1> HIDE DEF g
<1>7. h \in KbHosts /\ h.f = g
  BY <1>3, <1>6 DEF KbHosts
<1>8. q \in KbProcs /\ q.pc = "wait" /\ q.n = kb.p.n /\ q.uid = kb.p.uid
  BY <1>1 DEF KbProcs, KbPcs, KbNodePcs
<1> HIDE DEF h, q
<1>9. NodeStepped(v, h, t)
  BY <1>1, <1>2, <1>7, <1>8, NodeWritten DEF NodeStepped, KbNodePcs
<1>10. h.f["binary"] = kb.node[v].f["binary"] /\ h.f["marker"] = kb.node[v].f["marker"] /\ kb.node[v].f["binary"] = kb.want.ver
  BY <1>1, <1>2, <1>6, <1>7 DEF KbGood, NodesSettled
<1>11. kb.p.pc \in KbNodePcs
  BY <1>1 DEF KbNodePcs
<1> HIDE DEF t
<1>12. KbGood(t)
  BY <1>2, <1>9, <1>10, <1>11, NodeSteps
<1> QED BY <1>5, <1>12

LEMMA WaitStep ==
  ASSUME KbGood(kb), wait_ready PROVE KbGood(kb')
<1>1. kb \in KbStates /\ kb.p \in KbProcs /\ kb.p.pc = "wait" /\ kb.p.n \in {1, 2}
  BY DEF KbGood, KbStates, KbProcs, wait_ready, KbAt
<1>2. KbNodePcs \subseteq KbPcs /\ KbLatePcs \subseteq KbPcs /\ "wait" \in KbNodePcs /\ "install" \in KbNodePcs \ KbLatePcs
      /\ "rollout" \in KbLatePcs \ (KbNodePcs \cup KbRollPcs \cup KbObjPcs) /\ "install" \notin KbRollPcs \cup KbObjPcs
  BY DEF KbPcs, KbNodePcs, KbLatePcs, KbRollPcs, KbObjPcs
<1>3. CASE node_ready(KbVm, kb.want.ver) /\ kb.p.n = 1 /\ kb' = [kb EXCEPT !.p = [KbIdle EXCEPT !.pc = "install", !.n = 2, !.own = kb.p.own]]
  <2> DEFINE q == [KbIdle EXCEPT !.pc = "install", !.n = 2, !.own = kb.p.own]
  <2>1. q \in KbProcs /\ q.pc = "install" /\ q.n = 2 /\ q.file = 1 /\ q.uid = 0
    BY <1>1, <1>2, KbIdleFacts DEF KbProcs
  <2> HIDE DEF q
  <2>2. kb' \in KbStates /\ kb'.p = q /\ SameCluster(kb', kb)
    BY <1>1, <1>3, <2>1, ProcWritten DEF q
  <2>3. KbSettled(kb.want, kb.node["server"])
    <3>1. KbVm = "server"
      BY <1>3 DEF KbVm, KbNodes
    <3>2. kb.node["server"].f["binary"] = kb.want.ver
      BY <1>1, <1>3 DEF KbGood, NodesSettled, KbNodes
    <3> QED BY <1>3, <3>1, <3>2 DEF KbSettled, node_ready
  <2>4. NodesSettled(kb.want, kb.node, q)
    BY <1>2, <2>1, <2>3 DEF NodesSettled
  <2>5. ProcGood(kb, q)
    BY <1>1, <1>2, <2>1, <2>4, KbAdvances
  <2> QED BY <2>2, <2>5, ProcGoodSame
<1>4. CASE node_ready(KbVm, kb.want.ver) /\ kb.p.n = 2 /\ kb' = KbTo(kb, "rollout")
  <2>1. kb'.p.pc = "rollout"
    BY <1>1, <1>2, <1>4, KbMoved
  <2>2. KbSettled(kb.want, kb.node["server"]) /\ KbSettled(kb.want, kb.node["agent"])
    <3>1. KbVm = "agent"
      BY <1>4 DEF KbVm, KbNodes
    <3>2. kb.node["agent"].f["binary"] = kb.want.ver
      BY <1>1, <1>4 DEF KbGood, NodesSettled, KbNodes
    <3> QED BY <1>1, <1>2, <1>4, <3>1, <3>2 DEF KbGood, NodesSettled, KbSettled, node_ready
  <2>3. NodesSettled(kb.want, kb.node, kb'.p)
    BY <1>2, <2>1, <2>2 DEF NodesSettled, KbVms
  <2> QED BY <1>1, <1>2, <1>4, <2>3, KbMoves
<1> QED BY <1>1, <1>3, <1>4, KbFailGood DEF wait_ready

-----------------------------------------------------------------------------
\* From the rollout on, nothing about the nodes is left to do.
LEMMA LateSettled ==
  ASSUME KbGood(kb), kb.p.pc \in KbLatePcs, NEW q, q.pc \in KbLatePcs
  PROVE  NodesSettled(kb.want, kb.node, q)
<1>1. q.pc \notin KbNodePcs
  BY DEF KbNodePcs, KbLatePcs, KbRollPcs, KbObjPcs
<1> QED BY <1>1 DEF KbGood, NodesSettled, KbNodePcs

LEMMA KbPcSets ==
  /\ KbRollPcs \subseteq KbLatePcs /\ KbObjPcs \subseteq KbLatePcs /\ KbLatePcs \subseteq KbPcs
  /\ {"rollout", "object", "create", "record"} \subseteq KbLatePcs
  /\ {"rollout", "object", "create", "record"} \cap KbObjPcs = {} /\ {"rollout", "object", "create", "record"} \cap KbRollPcs = {}
  /\ KbRollPcs \cap KbObjPcs = {} /\ KbLatePcs \cap {"idle", "token", "write_token"} = {} /\ KbLatePcs \cap KbNodePcs = {}
  BY DEF KbPcs, KbNodePcs, KbLatePcs, KbRollPcs, KbObjPcs

\* A step of the rollout: only what the command remembers of it changes.
LEMMA RolloutMoves ==
  ASSUME KbGood(kb), kb.p.pc \in KbLatePcs, NEW q \in KbProcs, q.pc \in KbRollPcs \cup {"object", "create"}, q.uid = kb.p.uid,
         q.pc \in KbRollPcs => DeployOurs(q), NEW t \in KbStates, SameCluster(t, kb) \/ (t.want = kb.want /\ t.ids = kb.ids
         /\ t.node = kb.node /\ t.obj = kb.obj /\ t.last = kb.last), t.p = q
  PROVE  KbGood(t)
<1>1. q.pc \in KbLatePcs /\ q.pc \in KbPcs /\ q.pc \notin KbObjPcs /\ q.pc # "record" /\ kb.p.pc # "idle"
      /\ q.pc \notin {"idle", "token", "write_token"}
  BY KbPcSets DEF KbRollPcs
<1>2. NodesSettled(kb.want, kb.node, q)
  BY <1>1, LateSettled
<1>3. ProcGood(kb, q)
  BY <1>1, <1>2, KbAdvances
<1> QED BY <1>3 DEF SameCluster, ProcGood, KbGood

LEMMA RolloutStep ==
  ASSUME KbGood(kb), rollout_read \/ rollout_addon \/ rollout_fresh \/ rollout_patch \/ rollout_after
  PROVE  KbGood(kb')
<1>1. /\ kb \in KbStates /\ kb.p \in KbProcs /\ kb.p.pc \in KbRollPcs \cup {"rollout"} /\ kb.p.pc \in KbLatePcs
      /\ kb.dep \in KbDeps /\ kb.addon \in KbAddons
  BY DEF KbGood, KbStates, rollout_read, rollout_addon, rollout_fresh, rollout_patch, rollout_after, KbAt, KbRollPcs, KbLatePcs
<1>2. ASSUME NEW pc \in KbRollPcs \cup {"object"}, kb' = KbTo(kb, pc), pc \in KbRollPcs => kb.p.pc \in KbRollPcs
      PROVE  KbGood(kb')
  <2>1. kb' \in KbStates /\ SameCluster(kb', kb) /\ kb'.p.pc = pc /\ SameRun(kb'.p, kb.p)
    BY <1>1, <1>2, KbMoved, KbPcSets
  <2>2. kb'.p \in KbProcs
    BY <2>1 DEF KbStates
  <2>3. pc \in KbRollPcs => DeployOurs(kb'.p)
    BY <1>2, <2>1 DEF KbGood, DeployOurs, SameRun
  <2> QED BY <1>1, <2>1, <2>2, <2>3, RolloutMoves DEF SameRun
<1>3. CASE rollout_read
  <2>1. CASE kb.dep # NoKb /\ kb.dep.marker # "them" /\ kb' = KbTo([kb EXCEPT !.p.dep = kb.dep], "addon")
    <3> DEFINE q == [kb.p EXCEPT !.dep = kb.dep, !.pc = "addon"]
    <3>1. q \in KbProcs /\ q.pc = "addon" /\ q.uid = kb.p.uid /\ q.dep = kb.dep
      BY <1>1 DEF KbProcs, KbPcs, KbLatePcs, KbRollPcs
    <3>2. kb' = [kb EXCEPT !.p = q]
      BY <1>1, <2>1 DEF KbTo, KbStates, KbProcs
    <3> HIDE DEF q
    <3>3. kb' \in KbStates /\ kb'.p = q /\ SameCluster(kb', kb)
      BY <1>1, <3>1, <3>2, ProcWritten
    <3>4. DeployOurs(q) /\ q.pc \in KbRollPcs
      BY <2>1, <3>1 DEF DeployOurs, KbRollPcs
    <3> QED BY <1>1, <3>1, <3>3, <3>4, RolloutMoves
  <2>2. \/ kb' = KbFail(kb) \/ kb' = KbTo(kb, "object")
        \/ kb.dep # NoKb /\ kb.dep.marker # "them" /\ kb' = KbTo([kb EXCEPT !.p.dep = kb.dep], "addon")
    BY <1>3 DEF rollout_read
  <2> QED BY <1>2, <2>1, <2>2, KbFailGood, KbPcSets
<1>4. CASE rollout_addon
  <2>1. ASSUME NEW pc \in {"status", "fresh"}, kb' = KbTo([kb EXCEPT !.p.addon = kb.addon], pc) PROVE KbGood(kb')
    <3> DEFINE q == [kb.p EXCEPT !.addon = kb.addon, !.pc = pc]
    <3>1. pc \in KbRollPcs /\ pc \in KbPcs /\ kb.p.pc \in KbRollPcs
      BY <1>4 DEF KbRollPcs, KbLatePcs, KbPcs, rollout_addon, KbAt
    <3>2. q \in KbProcs /\ q.pc = pc /\ q.uid = kb.p.uid /\ q.dep = kb.p.dep
      BY <1>1, <3>1 DEF KbProcs
    <3>3. kb' = [kb EXCEPT !.p = q]
      BY <1>1, <2>1 DEF KbTo, KbStates, KbProcs
    <3> HIDE DEF q
    <3>4. kb' \in KbStates /\ kb'.p = q /\ SameCluster(kb', kb)
      BY <1>1, <3>2, <3>3, ProcWritten
    <3>5. DeployOurs(q)
      BY <3>1, <3>2 DEF KbGood, DeployOurs
    <3> QED BY <1>1, <3>1, <3>2, <3>4, <3>5, RolloutMoves
  <2> QED BY <1>4, <2>1, KbFailGood DEF rollout_addon
<1>5. CASE rollout_fresh
  <2>1. "patch" \in KbRollPcs /\ kb.p.pc \in KbRollPcs
    BY <1>5 DEF KbRollPcs, rollout_fresh, KbAt
  <2> QED BY <1>2, <1>5, <2>1, KbFailGood DEF rollout_fresh
<1>6. CASE rollout_patch
  <2>1. CASE kb.dep = kb.p.dep /\ kb' = KbTo([kb EXCEPT !.dep.marker = marker, !.dep.rv = @ + 1], "status")
    <3> DEFINE d == [kb.dep EXCEPT !.marker = marker, !.rv = @ + 1]
               s == [kb EXCEPT !.dep = d]
    <3>1. kb.dep \in KbDeploys /\ kb.p.pc \in KbRollPcs
      BY <1>1, <1>6, <2>1 DEF KbGood, DeployOurs, KbDeps, rollout_patch, KbAt, KbRollPcs
    <3>2. marker \in {"on", "off"}
      BY DEF marker
    <3>3. d \in KbDeps
      <4>1. kb.dep.rv + 1 \in Nat
        BY <3>1 DEF KbDeploys
      <4>2. d \in KbDeploys
        BY <3>1, <3>2, <4>1 DEF KbDeploys
      <4> QED BY <4>2 DEF KbDeps
    <3>4. kb' = KbTo(s, "status")
      BY <1>1, <2>1 DEF KbStates
    <3> HIDE DEF d
    <3>5. s \in KbStates
      BY <1>1, <3>3 DEF KbStates
    <3>6. s.p = kb.p /\ s.want = kb.want /\ s.ids = kb.ids /\ s.node = kb.node /\ s.obj = kb.obj /\ s.last = kb.last
      BY <1>1 DEF KbStates
    <3>7. "status" \in KbRollPcs /\ "status" \in KbPcs
      BY DEF KbRollPcs, KbLatePcs, KbPcs
    <3> HIDE DEF s
    <3>8. kb' \in KbStates /\ SameCluster(kb', s) /\ kb'.p.pc = "status" /\ SameRun(kb'.p, s.p)
      BY <3>4, <3>5, <3>7, KbMoved
    <3>9. kb'.p \in KbProcs /\ DeployOurs(kb'.p)
      BY <3>1, <3>6, <3>8 DEF KbGood, DeployOurs, SameRun, KbStates
    <3>10. /\ kb'.want = kb.want /\ kb'.ids = kb.ids /\ kb'.node = kb.node /\ kb'.obj = kb.obj /\ kb'.last = kb.last
           /\ kb'.p.uid = kb.p.uid
      BY <3>6, <3>8 DEF SameCluster, SameRun
    <3> QED BY <1>1, <3>7, <3>8, <3>9, <3>10, RolloutMoves
  <2> QED BY <1>6, <2>1, KbFailGood DEF rollout_patch
<1>7. CASE rollout_after
  BY <1>2, <1>7, KbFailGood, KbPcSets DEF rollout_after
<1> QED BY <1>3, <1>4, <1>5, <1>6, <1>7

-----------------------------------------------------------------------------
\* A step on the object: nodes, YAML and record stay.
LEMMA ObjectMoves ==
  ASSUME KbGood(kb), kb.p.pc \in KbLatePcs, NEW t \in KbStates, t.p.pc \in KbObjPcs \cup {"record"},
         t.want = kb.want, t.node = kb.node, t.last = kb.last, ObjectOurs(t.ids, t.obj, t.p),
         t.p.pc = "record" => AsDeclared(t.want, t.obj)
  PROVE  KbGood(t)
<1>1. t.p.pc \in KbLatePcs /\ t.p.pc \notin KbRollPcs /\ kb.p.pc # "idle" /\ t.p.pc \notin {"idle", "token", "write_token"}
  BY KbPcSets
<1>2. NodesSettled(kb.want, kb.node, t.p)
  BY <1>1, LateSettled
<1>3. Begun(t.want, t.p) /\ AgentOurs(t.node["agent"], t.p) /\ DeployOurs(t.p)
  BY <1>1 DEF KbGood, Begun, AgentOurs, DeployOurs
<1>4. ReadyRecorded(t.want, t.node, t.obj, t.last, t.p)
  BY <1>1 DEF KbGood, ReadyRecorded
<1> QED BY <1>2, <1>3, <1>4 DEF KbGood

\* The object, the identifiers and what the command remembers are replaced.
ObjectWrite(s, o, i, q) == [s EXCEPT !.obj = o, !.ids = i, !.p = q]

LEMMA ObjectWritten ==
  ASSUME NEW s \in KbStates, NEW o \in KbObjs, NEW i \in Nat, NEW q \in KbProcs
  PROVE  LET t == ObjectWrite(s, o, i, q)
         IN  /\ t \in KbStates /\ t.obj = o /\ t.ids = i /\ t.p = q
             /\ t.want = s.want /\ t.node = s.node /\ t.last = s.last /\ t.dep = s.dep
<1> DEFINE t == [s EXCEPT !.obj = o, !.ids = i, !.p = q]
<1>1. t \in KbStates
  BY DEF KbStates
<1>2. t.obj = o /\ t.ids = i /\ t.p = q /\ t.want = s.want /\ t.node = s.node /\ t.last = s.last /\ t.dep = s.dep
  BY DEF KbStates
<1> QED BY <1>1, <1>2 DEF ObjectWrite

\* What the command remembers of the object: where it goes on, what it saw.
Remembered(pc, o, u, n) == [kb.p EXCEPT !.pc = pc, !.seen = o, !.uid = u, !.try = n]

LEMMA RememberedFacts ==
  ASSUME kb \in KbStates, NEW pc \in KbPcs, NEW o \in KbObjs, NEW u \in Nat, NEW n \in Nat
  PROVE  LET q == Remembered(pc, o, u, n) IN q \in KbProcs /\ q.pc = pc /\ q.seen = o /\ q.uid = u
<1>1. kb.p \in KbProcs
  BY DEF KbStates
<1> QED BY <1>1 DEF Remembered, KbProcs

\* Every step on the object has this form.
ObjectStepped(t, o, i, pc, seen, u, n) == t = ObjectWrite(kb, o, i, Remembered(pc, seen, u, n))

LEMMA ObjectSteps ==
  ASSUME KbGood(kb), kb.p.pc \in KbLatePcs, NEW o \in KbObjs, NEW i \in Nat, NEW pc \in KbObjPcs \cup {"record"}, NEW seen \in KbObjs,
         NEW u \in Nat, NEW n \in Nat, NEW t, ObjectStepped(t, o, i, pc, seen, u, n),
         u <= i, o # NoKb => o.uid <= i, pc # "record" => seen # NoKb /\ seen.uid = u /\ (o # NoKb /\ o.uid = u => o.owner = "us"),
         pc = "record" => AsDeclared(kb.want, o)
  PROVE  KbGood(t)
<1>1. kb \in KbStates /\ pc \in KbPcs /\ "record" \notin KbObjPcs
  BY KbPcSets DEF KbGood
<1> DEFINE q == Remembered(pc, seen, u, n)
<1>2. q \in KbProcs /\ q.pc = pc /\ q.seen = seen /\ q.uid = u
  BY <1>1, RememberedFacts
<1>3. t = ObjectWrite(kb, o, i, q)
  BY DEF ObjectStepped
<1> HIDE DEF q
<1>4. t \in KbStates /\ t.obj = o /\ t.ids = i /\ t.p = q /\ t.want = kb.want /\ t.node = kb.node /\ t.last = kb.last
  BY <1>1, <1>2, <1>3, ObjectWritten
<1>5. ObjectOurs(t.ids, t.obj, t.p)
  BY <1>1, <1>2, <1>4 DEF ObjectOurs
<1> QED BY <1>2, <1>4, <1>5, ObjectMoves

LEMMA KbObjTypes ==
  ASSUME KbGood(kb)
  PROVE  /\ kb \in KbStates /\ kb.obj \in KbObjs /\ kb.ids \in Nat /\ kb.p \in KbProcs /\ kb.p.seen \in KbObjs /\ kb.p.uid \in Nat
         /\ kb.p.try \in Nat /\ kb.p.uid <= kb.ids /\ (kb.obj # NoKb => kb.obj \in KbObjects /\ kb.obj.uid \in Nat /\ kb.obj.uid <= kb.ids)
         /\ (kb.p.pc \in KbObjPcs => /\ kb.p.seen # NoKb /\ kb.p.seen \in KbObjects /\ kb.p.seen.uid = kb.p.uid
                                     /\ (kb.obj # NoKb /\ kb.obj.uid = kb.p.uid => kb.obj.owner = "us"))
<1>1. kb \in KbStates /\ kb.obj \in KbObjs /\ kb.ids \in Nat /\ kb.p \in KbProcs
  BY DEF KbGood, KbStates
<1>2. kb.p.seen \in KbObjs /\ kb.p.uid \in Nat /\ kb.p.try \in Nat
  BY <1>1 DEF KbProcs
<1>3. kb.obj # NoKb => kb.obj \in KbObjects /\ kb.obj.uid \in Nat
  BY <1>1 DEF KbObjs, KbObjects
<1> QED BY <1>1, <1>2, <1>3 DEF KbGood, ObjectOurs, KbObjs

LEMMA ObjectForm ==
  ASSUME kb \in KbStates, NEW o, NEW i, NEW pc, NEW seen, NEW u
  PROVE  ObjectStepped(KbTo([kb EXCEPT !.obj = o, !.ids = i, !.p.seen = seen, !.p.uid = u], pc), o, i, pc, seen, u, kb.p.try)
<1> DEFINE q == [kb.p EXCEPT !.seen = seen, !.uid = u]
           s == [kb EXCEPT !.obj = o, !.ids = i, !.p = q]
<1>1. kb.p \in KbProcs
  BY DEF KbStates
<1>2. [q EXCEPT !.pc = pc] = Remembered(pc, seen, u, kb.p.try)
  BY <1>1 DEF KbProcs, Remembered
<1>3. [kb EXCEPT !.obj = o, !.ids = i, !.p.seen = seen, !.p.uid = u] = s
  BY <1>1 DEF KbStates, KbProcs
<1> HIDE DEF q
<1>4. KbTo(s, pc) = [kb EXCEPT !.obj = o, !.ids = i, !.p = [q EXCEPT !.pc = pc]]
  BY DEF KbTo, KbStates
<1> QED BY <1>2, <1>3, <1>4 DEF ObjectStepped, ObjectWrite

\* Steps that leave the object, and those that fail.
LEMMA ObjectSeen ==
  ASSUME KbGood(kb), kb.p.pc \in KbLatePcs, NEW pc \in KbObjPcs, NEW seen \in KbObjects, NEW n \in Nat,
         seen.uid \in Nat, seen.uid <= kb.ids, kb.obj # NoKb /\ kb.obj.uid = seen.uid => kb.obj.owner = "us",
         NEW t, ObjectStepped(t, kb.obj, kb.ids, pc, seen, seen.uid, n)
  PROVE  KbGood(t)
<1>1. seen \in KbObjs /\ seen # NoKb /\ pc # "record"
  BY KbSentinel, KbPcSets DEF KbObjs
<1> QED BY <1>1, KbObjTypes, ObjectSteps

LEMMA ApplyReadStep ==
  ASSUME KbGood(kb), apply_read PROVE KbGood(kb')
<1>1. kb.p.pc = "object" /\ "object" \in KbLatePcs
  BY KbPcSets DEF apply_read, KbAt
<1>2. CASE kb' = KbTo(kb, "create")
  <2>1. kb \in KbStates /\ "create" \in KbPcs
    BY KbPcSets DEF KbGood
  <2>2. kb' \in KbStates /\ SameCluster(kb', kb) /\ kb'.p.pc = "create" /\ SameRun(kb'.p, kb.p)
    BY <1>2, <2>1, KbMoved
  <2>3. kb'.p \in KbProcs
    BY <2>2 DEF KbStates
  <2> QED BY <1>1, <2>2, <2>3, KbPcSets, RolloutMoves DEF SameRun
<1>3. CASE kb.obj # NoKb /\ check_existing(kb.obj) /\ kb' = KbTo([kb EXCEPT !.p.seen = kb.obj, !.p.uid = kb.obj.uid], "migrate")
  <2>1. ObjectStepped(kb', kb.obj, kb.ids, "migrate", kb.obj, kb.obj.uid, kb.p.try)
    BY <1>3, KbObjTypes DEF ObjectStepped, ObjectWrite, Remembered, KbTo, KbStates, KbProcs
  <2>2. "migrate" \in KbObjPcs /\ kb.obj.owner = "us"
    BY <1>3 DEF KbObjPcs, check_existing
  <2> QED BY <1>1, <1>3, <2>1, <2>2, KbObjTypes, ObjectSeen
<1> QED BY <1>2, <1>3, KbFailGood DEF apply_read

LEMMA ApplyCreateStep ==
  ASSUME KbGood(kb), apply_create PROVE KbGood(kb')
<1> DEFINE fields == (Declared \union {"d"}) \intersect Kept
           vals == [f \in KbFields |-> IF f \in Declared THEN Stored(f, KbDesired[f]) ELSE IF f = "d" THEN 1 ELSE NoKb]
           o == [uid |-> kb.ids + 1, rv |-> 1, owner |-> "us", update |-> fields, apply |-> {}, theirs |-> {}, val |-> vals]
<1>1. kb.p.pc = "create" /\ "create" \in KbLatePcs
  BY KbPcSets DEF apply_create, KbAt
<1>2. Declared \subseteq KbFields /\ kb.want \in KbWants
  BY KbObjTypes DEF Declared, KbFields, Kept, KbStates
<1>3. \A f \in Declared : KbDesired[f] \in Nat
  BY <1>2 DEF KbDesired, KbWants
<1>4. vals \in KbVals /\ fields \subseteq KbFields
  <2>1. ASSUME NEW f \in KbFields PROVE vals[f] \in Nat \cup {NoKb} /\ Stored(f, vals[f]) = vals[f]
    <3>1. CASE f \in Declared
      <4>1. KbDesired[f] \in Nat \cup {NoKb} /\ vals[f] = Stored(f, KbDesired[f])
        BY <1>3, <3>1
      <4> QED BY <4>1, StoredFacts
    <3>2. CASE f \notin Declared
      BY <3>2, KeptFacts
    <3> QED BY <3>1, <3>2
  <2>2. vals \in [KbFields -> Nat \cup {NoKb}]
    BY <2>1
  <2> QED BY <2>1, <2>2, KeptFacts DEF KbVals
<1> HIDE DEF vals, fields
<1>5. kb.ids + 1 \in Nat /\ kb.ids < kb.ids + 1
  BY KbObjTypes
<1>6. o \in KbObjects /\ o.uid = kb.ids + 1 /\ o.owner = "us"
  BY <1>4, <1>5 DEF KbObjects
<1>7. CASE kb' = KbTo([kb EXCEPT !.obj = o, !.ids = @ + 1, !.p.seen = o, !.p.uid = o.uid], "migrate")
  <2> HIDE DEF o
  <2> DEFINE i == kb.ids + 1
             u == o.uid
  <2>a. kb' = KbTo([kb EXCEPT !.obj = o, !.ids = i, !.p.seen = o, !.p.uid = u], "migrate")
    BY <1>7, KbObjTypes DEF KbStates
  <2> HIDE DEF i, u
  <2>b. ObjectStepped(kb', o, i, "migrate", o, u, kb.p.try)
    BY <2>a, KbObjTypes, ObjectForm
  <2>1. ObjectStepped(kb', o, kb.ids + 1, "migrate", o, o.uid, kb.p.try)
    BY <2>b DEF i, u
  <2>2. "migrate" \in KbObjPcs /\ "migrate" # "record" /\ o \in KbObjs /\ o # NoKb /\ o.uid <= kb.ids + 1
    BY <1>5, <1>6, KbSentinel DEF KbObjPcs, KbObjs
  <2> QED BY <1>1, <1>5, <1>6, <2>1, <2>2, KbObjTypes, ObjectSteps
<1> QED BY <1>7, KbFailGood DEF apply_create, fields, vals

LEMMA MigrateStep ==
  ASSUME KbGood(kb), migrate_create_ownership \/ migrate_reread \/ migrate_verify \/ apply_reread PROVE KbGood(kb')
<1>1. kb.p.pc \in KbObjPcs /\ kb.p.pc \in KbLatePcs
  BY KbPcSets DEF migrate_create_ownership, migrate_reread, migrate_verify, apply_reread, KbAt, KbObjPcs
<1>2. ASSUME NEW pc \in KbObjPcs, kb' = KbTo(kb, pc) PROVE KbGood(kb')
  <2>1. ObjectStepped(kb', kb.obj, kb.ids, pc, kb.p.seen, kb.p.seen.uid, kb.p.try)
    BY <1>1, <1>2, KbObjTypes DEF ObjectStepped, ObjectWrite, Remembered, KbTo, KbStates, KbProcs
  <2> QED BY <1>1, <2>1, KbObjTypes, ObjectSeen
<1>3. ASSUME NEW pc \in KbObjPcs, KbStillOurs(kb.obj), kb' = KbTo([kb EXCEPT !.p.seen = kb.obj], pc) PROVE KbGood(kb')
  <2>1. kb.obj # NoKb /\ kb.obj.uid = kb.p.uid /\ kb.obj.owner = "us"
    BY <1>3 DEF KbStillOurs, check_existing
  <2> DEFINE o == kb.obj
             u == kb.p.uid
  <2>a. kb \in KbStates /\ kb.p \in KbProcs
    BY KbObjTypes DEF KbStates
  <2>b. [kb EXCEPT !.p.seen = o] = [kb EXCEPT !.obj = o, !.ids = kb.ids, !.p.seen = o, !.p.uid = u]
    BY <2>a DEF KbStates, KbProcs
  <2>c. kb' = KbTo([kb EXCEPT !.obj = o, !.ids = kb.ids, !.p.seen = o, !.p.uid = u], pc)
    BY <1>3, <2>b
  <2> HIDE DEF o, u
  <2>d. ObjectStepped(kb', o, kb.ids, pc, o, u, kb.p.try)
    BY <2>a, <2>c, ObjectForm
  <2>2. ObjectStepped(kb', kb.obj, kb.ids, pc, kb.obj, kb.obj.uid, kb.p.try)
    BY <2>1, <2>d DEF o, u
  <2> QED BY <1>1, <2>1, <2>2, KbObjTypes, ObjectSeen
<1>4. {"apply", "bridge", "retire", "migrate"} \subseteq KbObjPcs
  BY DEF KbObjPcs
<1>5. CASE migrate_create_ownership
  <2>1. kb' = KbTo(kb, "apply") \/ kb' = KbTo(kb, "bridge") \/ kb' = KbTo(kb, "retire")
    BY <1>5 DEF migrate_create_ownership
  <2> QED BY <1>2, <1>4, <2>1
<1>6. CASE migrate_reread
  BY <1>3, <1>4, <1>6, KbFailGood DEF migrate_reread
<1>7. CASE migrate_verify
  BY <1>3, <1>4, <1>7, KbFailGood DEF migrate_verify
<1>8. CASE apply_reread
  BY <1>3, <1>4, <1>8, KbFailGood DEF apply_reread
<1> QED BY <1>5, <1>6, <1>7, <1>8

\* What the API server makes of an apply: an object with the payload's values,
\* in which the fields of other managers are as they were unless the payload
\* has them.
LEMMA AppliedObject ==
  ASSUME NEW o \in KbObjects, NEW D \in SUBSET KbFields, NEW payload \in [D -> Nat \cup {NoKb}]
  PROVE  LET r == ssa(o, payload)
         IN  /\ r \in KbObjects /\ r.uid = o.uid /\ r.owner = o.owner /\ r.theirs = o.theirs
             /\ \A f \in D : r.val[f] = Stored(f, payload[f])
             /\ \A f \in o.theirs \ D : r.val[f] = o.val[f]
<1> DEFINE dropped == o.apply \ DOMAIN payload
           val == [f \in KbFields |-> IF f \in DOMAIN payload THEN Stored(f, payload[f])
                                      ELSE IF f \in dropped \ (o.update \union o.theirs) THEN NoKb ELSE o.val[f]]
           new == [o EXCEPT !.val = val, !.apply = DOMAIN payload]
           next == [new EXCEPT !.rv = @ + 1]
<1>1. DOMAIN payload = D /\ o.theirs \subseteq KbFields /\ o.val \in KbVals /\ o.rv \in Nat
  BY DEF KbObjects
<1>2. val \in KbVals
  <2>1. ASSUME NEW f \in KbFields PROVE val[f] \in Nat \cup {NoKb} /\ Stored(f, val[f]) = val[f]
    <3>1. CASE f \in D
      BY <1>1, <3>1, StoredFacts
    <3>2. CASE f \notin D
      BY <1>1, <3>2, KeptFacts DEF KbVals
    <3> QED BY <3>1, <3>2
  <2> QED BY <2>1 DEF KbVals
<1>3. (\A f \in D : val[f] = Stored(f, payload[f])) /\ (\A f \in o.theirs \ D : val[f] = o.val[f])
  BY <1>1
<1> HIDE DEF val
<1>4. new \in KbObjects
  BY <1>1, <1>2 DEF KbObjects
<1>5. new.uid = o.uid /\ new.owner = o.owner /\ new.theirs = o.theirs /\ new.val = val /\ new.rv \in Nat
  BY <1>1 DEF KbObjects
<1>6. ssa(o, payload) = IF new = o THEN o ELSE next
  BY DEF ssa, val
<1> HIDE DEF new
<1>7. new.rv + 1 \in Nat
  BY <1>5
<1>8. next \in KbObjects /\ next.uid = new.uid /\ next.owner = new.owner /\ next.theirs = new.theirs /\ next.val = new.val
  BY <1>4, <1>7 DEF KbObjects
<1> HIDE DEF next
<1> QED BY <1>3, <1>4, <1>5, <1>6, <1>8

LEMMA DesiredFacts ==
  ASSUME kb \in KbStates
  PROVE  /\ Declared \in SUBSET KbFields /\ KbDesired \in [Declared -> Nat \cup {NoKb}] /\ Declared = DeclaredBy(kb.want)
         /\ \A f \in Declared : KbDesired[f] = IF f = "a" THEN kb.want.a ELSE 1
<1>1. kb.want.a \in Nat
  BY DEF KbStates, KbWants
<1> QED BY <1>1 DEF Declared, KbDesired, KbFields, Kept, DeclaredBy

\* What is read of an object.
LEMMA ProjectFacts ==
  ASSUME NEW o \in KbObjects, NEW D \in SUBSET KbFields, project(o, D) # NoKb
  PROVE  project(o, D) \in [D -> Nat \cup {NoKb}]
<1>1. o.val \in [KbFields -> Nat \cup {NoKb}]
  BY DEF KbObjects, KbVals
<1> QED BY <1>1 DEF project

LEMMA TransferredFacts ==
  ASSUME NEW o \in KbObjects
  PROVE  Transferred(o) \in SUBSET KbFields /\ o.apply \in SUBSET KbFields /\ o.update \in SUBSET KbFields
  BY DEF KbObjects, Transferred, merge_fields, intended, field_intersection

\* An apply of ours changes no field of another manager, for otherwise it is a conflict.
LEMMA AppliedKeepsTheirs ==
  ASSUME NEW o \in KbObjects, NEW D \in SUBSET KbFields, NEW payload \in [D -> Nat \cup {NoKb}], ~ssa_conflict(o, payload)
  PROVE  \A f \in o.theirs : ssa(o, payload).val[f] = o.val[f]
<1>1. DOMAIN payload = D /\ o.theirs \subseteq KbFields /\ \A f \in KbFields : Stored(f, o.val[f]) = o.val[f]
  BY DEF KbObjects, KbVals
<1>2. \A f \in D : f \in o.theirs => o.val[f] = Stored(f, payload[f])
  BY <1>1 DEF ssa_conflict
<1> QED BY <1>1, <1>2, AppliedObject

\* The bridge writes the object that was read, and nothing else.
LEMMA BridgeFacts ==
  ASSUME KbGood(kb), migrate_bridge, kb' # KbFail(kb)
  PROVE  LET o == kb.p.seen
             payload == project(o, merge_fields(o.apply, Transferred(o)))
         IN  /\ kb.p.pc \in KbObjPcs /\ kb.obj \in KbObjects /\ kb.obj.uid = kb.p.uid /\ ~ssa_conflict(kb.obj, payload)
             /\ merge_fields(o.apply, Transferred(o)) \in SUBSET KbFields
             /\ payload \in [merge_fields(o.apply, Transferred(o)) -> Nat \cup {NoKb}]
             /\ kb' = KbTo([kb EXCEPT !.obj = ssa(@, payload)], "bridged")
<1> DEFINE o == kb.p.seen
           D == merge_fields(o.apply, Transferred(o))
           payload == project(o, D)
<1>1. kb.p.pc \in KbObjPcs
  BY DEF migrate_bridge, KbAt, KbObjPcs
<1>2. o \in KbObjects /\ o.uid = kb.p.uid
  BY <1>1, KbObjTypes
<1>3. D \in SUBSET KbFields
  BY <1>2, TransferredFacts DEF merge_fields
<1>4. /\ payload # NoKb /\ kb.obj # NoKb /\ kb.obj.uid = o.uid /\ ~ssa_conflict(kb.obj, payload)
      /\ kb' = KbTo([kb EXCEPT !.obj = ssa(@, payload)], "bridged")
  BY DEF migrate_bridge
<1>5. payload \in [D -> Nat \cup {NoKb}]
  BY <1>2, <1>3, <1>4, ProjectFacts
<1> QED BY <1>1, <1>2, <1>3, <1>4, <1>5, KbObjTypes

LEMMA BridgeStep ==
  ASSUME KbGood(kb), migrate_bridge PROVE KbGood(kb')
<1>1. CASE kb' # KbFail(kb)
  <2> DEFINE o == kb.p.seen
             D == merge_fields(o.apply, Transferred(o))
             payload == project(o, D)
             r == ssa(kb.obj, payload)
  <2>1. /\ kb.p.pc \in KbObjPcs /\ kb.obj \in KbObjects /\ kb.obj.uid = kb.p.uid /\ D \in SUBSET KbFields
        /\ payload \in [D -> Nat \cup {NoKb}] /\ kb' = KbTo([kb EXCEPT !.obj = ssa(@, payload)], "bridged")
    BY <1>1, BridgeFacts
  <2> HIDE DEF payload, D
  <2>2. r \in KbObjects /\ r.uid = kb.obj.uid /\ r.owner = kb.obj.owner
    BY <2>1, AppliedObject
  <2>3. kb' = KbTo([kb EXCEPT !.obj = r], "bridged") /\ o.uid = kb.p.uid
    BY <2>1, KbObjTypes DEF KbStates
  <2> HIDE DEF r
  <2>4. ObjectStepped(kb', r, kb.ids, "bridged", o, o.uid, kb.p.try)
    <3>1. [kb EXCEPT !.obj = r] = [kb EXCEPT !.obj = r, !.ids = kb.ids, !.p.seen = kb.p.seen, !.p.uid = kb.p.uid]
      BY KbObjTypes DEF KbStates, KbProcs
    <3>2. ObjectStepped(KbTo([kb EXCEPT !.obj = r, !.ids = kb.ids, !.p.seen = kb.p.seen, !.p.uid = kb.p.uid], "bridged"), r, kb.ids,
                        "bridged", kb.p.seen, kb.p.uid, kb.p.try)
      BY KbObjTypes, ObjectForm
    <3> QED BY <2>3, <3>1, <3>2
  <2>5. "bridged" \in KbObjPcs /\ "bridged" # "record" /\ r \in KbObjs /\ r # NoKb /\ kb.p.pc \in KbLatePcs /\ kb.obj # NoKb
    BY <2>1, <2>2, KbSentinel, KbPcSets DEF KbObjPcs, KbObjs
  <2> QED BY <2>1, <2>2, <2>4, <2>5, KbObjTypes, ObjectSteps
<1> QED BY <1>1, KbFailGood

LEMMA RetireStep ==
  ASSUME KbGood(kb), migrate_retire PROVE KbGood(kb')
<1>1. CASE kb' # KbFail(kb)
  <2> DEFINE u == field_difference(kb.obj.update, Transferred(kb.p.seen))
             r == [kb.obj EXCEPT !.update = u, !.rv = @ + 1]
             o == [kb.p.seen EXCEPT !.update = u]
  <2>1. kb.p.pc \in KbObjPcs /\ kb.obj = kb.p.seen
    BY <1>1 DEF migrate_retire, KbAt, KbObjPcs
  <2>2. kb.obj \in KbObjects /\ kb.obj.uid = kb.p.uid /\ kb.obj.rv + 1 \in Nat /\ kb.obj # NoKb
    BY <2>1, KbObjTypes DEF KbObjects
  <2>3. u \in SUBSET KbFields
    BY <2>1, <2>2, TransferredFacts DEF field_difference
  <2>4. kb' = KbTo([kb EXCEPT !.obj = r, !.p.seen = o], "retired")
    BY <1>1, <2>1, <2>2, KbObjTypes DEF migrate_retire, KbStates, KbProcs, KbObjects
  <2> HIDE DEF u
  <2>5. r \in KbObjects /\ r.uid = kb.p.uid /\ r.owner = kb.obj.owner
    BY <2>2, <2>3 DEF KbObjects
  <2>6. o \in KbObjects /\ o.uid = kb.p.uid
    BY <2>1, <2>2, <2>3 DEF KbObjects
  <2> HIDE DEF r, o
  <2>7. ObjectStepped(kb', r, kb.ids, "retired", o, kb.p.uid, kb.p.try)
    <3>1. [kb EXCEPT !.obj = r, !.p.seen = o] = [kb EXCEPT !.obj = r, !.ids = kb.ids, !.p.seen = o, !.p.uid = kb.p.uid]
      BY KbObjTypes DEF KbStates, KbProcs
    <3>2. ObjectStepped(KbTo([kb EXCEPT !.obj = r, !.ids = kb.ids, !.p.seen = o, !.p.uid = kb.p.uid], "retired"), r, kb.ids, "retired",
                        o, kb.p.uid, kb.p.try)
      BY KbObjTypes, ObjectForm
    <3> QED BY <2>4, <3>1, <3>2
  <2>8. /\ "retired" \in KbObjPcs /\ "retired" # "record" /\ r \in KbObjs /\ r # NoKb /\ o \in KbObjs /\ o # NoKb
        /\ kb.p.pc \in KbLatePcs
    BY <2>1, <2>5, <2>6, KbSentinel, KbPcSets DEF KbObjPcs, KbObjs
  <2> QED BY <2>1, <2>2, <2>5, <2>6, <2>7, <2>8, KbObjTypes, ObjectSteps
<1> QED BY <1>1, KbFailGood

LEMMA ApplyOwnedCases ==
  ASSUME apply_owned_object
  PROVE  \/ kb' = KbFail(kb)
         \/ kb.p.try < 2 /\ kb' = KbTo([kb EXCEPT !.p.try = @ + 1], "reread")
         \/ /\ kb.obj # NoKb /\ kb.obj.uid = kb.p.uid /\ ~ssa_conflict(kb.obj, KbDesired)
            /\ kb' = KbTo([kb EXCEPT !.obj = ssa(@, KbDesired)], "record")
  BY DEF apply_owned_object

LEMMA ApplyOwnedStep ==
  ASSUME KbGood(kb), apply_owned_object PROVE KbGood(kb')
<1>1. kb.p.pc \in KbObjPcs /\ kb.p.pc \in KbLatePcs
  BY KbPcSets DEF apply_owned_object, KbAt, KbObjPcs
<1>2. CASE kb.p.try < 2 /\ kb' = KbTo([kb EXCEPT !.p.try = @ + 1], "reread")
  <2> DEFINE n == kb.p.try + 1
  <2>1. n \in Nat /\ "reread" \in KbObjPcs
    BY KbObjTypes DEF KbObjPcs
  <2>2. kb' = KbTo([kb EXCEPT !.p.try = n], "reread")
    BY <1>2, KbObjTypes DEF KbStates, KbProcs
  <2> HIDE DEF n
  <2>3. ObjectStepped(kb', kb.obj, kb.ids, "reread", kb.p.seen, kb.p.seen.uid, n)
    <3> DEFINE q == [kb.p EXCEPT !.try = n]
    <3>1. kb.p \in KbProcs /\ kb.p.seen.uid = kb.p.uid
      BY <1>1, KbObjTypes DEF KbStates
    <3>2. [q EXCEPT !.pc = "reread"] = Remembered("reread", kb.p.seen, kb.p.uid, n)
      BY <3>1 DEF KbProcs, Remembered
    <3>3. [kb EXCEPT !.p.try = n] = [kb EXCEPT !.p = q]
      BY <3>1, KbObjTypes DEF KbStates, KbProcs
    <3> HIDE DEF q
    <3>4. kb' = [kb EXCEPT !.p = [q EXCEPT !.pc = "reread"]]
      BY <2>2, <3>3, KbObjTypes DEF KbTo, KbStates
    <3>5. kb' = ObjectWrite(kb, kb.obj, kb.ids, [q EXCEPT !.pc = "reread"])
      BY <3>4, KbObjTypes DEF ObjectWrite, KbStates
    <3> QED BY <3>1, <3>2, <3>5 DEF ObjectStepped
  <2> QED BY <1>1, <2>1, <2>3, KbObjTypes, ObjectSeen
<1>3. CASE /\ kb.obj # NoKb /\ kb.obj.uid = kb.p.uid /\ ~ssa_conflict(kb.obj, KbDesired)
           /\ kb' = KbTo([kb EXCEPT !.obj = ssa(@, KbDesired)], "record")
  <2> DEFINE r == ssa(kb.obj, KbDesired)
  <2>1. kb.obj \in KbObjects /\ kb.obj.owner = "us"
    BY <1>1, <1>3, KbObjTypes
  <2>2. r \in KbObjects /\ r.uid = kb.obj.uid /\ r.owner = kb.obj.owner /\ \A f \in Declared : r.val[f] = Stored(f, KbDesired[f])
    <3>1. Declared \in SUBSET KbFields /\ KbDesired \in [Declared -> Nat \cup {NoKb}]
      BY DesiredFacts, KbObjTypes
    <3> QED BY <2>1, <3>1, AppliedObject
  <2>3. kb' = KbTo([kb EXCEPT !.obj = r], "record")
    BY <1>3, KbObjTypes DEF KbStates
  <2> HIDE DEF r
  <2>4. ObjectStepped(kb', r, kb.ids, "record", kb.p.seen, kb.p.uid, kb.p.try)
    BY <2>3, KbObjTypes DEF ObjectStepped, ObjectWrite, Remembered, KbTo, KbStates, KbProcs
  <2>5. r \in KbObjs /\ r # NoKb
    BY <2>2, KbSentinel DEF KbObjs
  <2>6. AsDeclared(kb.want, r)
    <3>1. Declared = DeclaredBy(kb.want) /\ \A f \in Declared : KbDesired[f] = IF f = "a" THEN kb.want.a ELSE 1
      BY DesiredFacts, KbObjTypes
    <3>2. \A f \in DeclaredBy(kb.want) : r.val[f] = Stored(f, IF f = "a" THEN kb.want.a ELSE 1)
      BY <2>2, <3>1
    <3> QED BY <2>1, <2>2, <2>5, <3>2 DEF AsDeclared
  <2>7. kb.p.uid <= kb.ids /\ r.uid <= kb.ids /\ "record" \in KbObjPcs \cup {"record"}
    BY <1>1, <1>3, <2>2, KbObjTypes DEF KbGood, ObjectOurs
  <2> QED BY <1>1, <2>4, <2>5, <2>6, <2>7, KbObjTypes, ObjectSteps
<1> QED BY <1>2, <1>3, ApplyOwnedCases, KbFailGood

LEMMA RecordStep ==
  ASSUME KbGood(kb), record_ready PROVE KbGood(kb')
<1> DEFINE s == KbFail(kb)
           l == [quiet |-> kb.p.own]
<1>1. kb \in KbStates /\ kb.p \in KbProcs /\ kb.p.pc = "record"
  BY DEF KbGood, KbStates, record_ready, KbAt
<1>2. s \in KbStates /\ s.p = KbIdle /\ SameCluster(s, kb) /\ KbGood(s)
  BY <1>1, KbIdleFacts, ProcWritten, KbFailGood DEF KbFail
<1>3. l \in KbLasts /\ l.quiet = kb.p.own
  BY <1>1 DEF KbLasts, KbProcs
<1>4. kb' = [s EXCEPT !.last = l]
  BY DEF record_ready
<1> HIDE DEF s, l
<1>5. kb' \in KbStates
  BY <1>2, <1>3, <1>4 DEF KbStates
<1>6. kb'.last = l /\ kb'.p = KbIdle /\ kb'.want = kb.want /\ kb'.ids = kb.ids /\ kb'.node = kb.node /\ kb'.obj = kb.obj
  BY <1>2, <1>4 DEF KbStates, SameCluster
<1>7. Begun(kb.want, KbIdle) /\ AgentOurs(kb.node["agent"], KbIdle) /\ NodesSettled(kb.want, kb.node, KbIdle) /\ DeployOurs(KbIdle)
      /\ ObjectOurs(kb.ids, kb.obj, KbIdle)
  BY <1>2 DEF KbGood, SameCluster
<1>8. kb.p.own => AsDeclared(kb.want, kb.obj)
  BY <1>1 DEF KbGood, ReadyRecorded
<1>9. kb.want.man = "ok" /\ \A n \in KbVms : KbSettled(kb.want, kb.node[n])
  <2>1. kb.p.pc \in KbLatePcs /\ kb.p.pc # "idle"
    BY <1>1, KbPcSets
  <2> QED BY <2>1 DEF KbGood, Begun, NodesSettled
<1>10. ReadyRecorded(kb.want, kb.node, kb.obj, l, KbIdle)
  BY <1>3, <1>8, <1>9, KbIdleFacts DEF ReadyRecorded
<1> QED BY <1>5, <1>6, <1>7, <1>10 DEF KbGood

\* Neither the exported kubeconfig nor its process is part of the cluster.
LEMMA ExportStep ==
  ASSUME KbGood(kb), NEW e \in {"idle", "write"}, NEW o \in {NoKb, "torn", "server"}, kb' = [kb EXCEPT !.exp = e, !.out = o]
  PROVE  KbGood(kb')
<1>1. kb \in KbStates
  BY DEF KbGood
<1>2. kb' \in KbStates
  BY <1>1 DEF KbStates
<1>3. kb'.p = kb.p /\ kb'.last = kb.last /\ kb'.want = kb.want /\ kb'.ids = kb.ids /\ kb'.node = kb.node /\ kb'.obj = kb.obj
  BY <1>1 DEF KbStates
<1> QED BY <1>2, <1>3 DEF KbGood

LEMMA KubeconfigStep ==
  ASSUME KbGood(kb), kubeconfig \/ KbKill PROVE KbGood(kb')
<1>1. kb \in KbStates /\ kb.out \in {NoKb, "torn", "server"}
  BY DEF KbGood, KbStates
<1>2. CASE kb' = KbFail(kb)
  BY <1>2, KbFailGood
<1>3. CASE kb' = [kb EXCEPT !.exp = "idle"]
  <2>1. kb' = [kb EXCEPT !.exp = "idle", !.out = kb.out]
    BY <1>1, <1>3 DEF KbStates
  <2> QED BY <1>1, <2>1, ExportStep
<1>4. CASE kb' = [kb EXCEPT !.exp = "write", !.out = "torn"]
  BY <1>4, ExportStep
<1>5. ASSUME NEW ok \in BOOLEAN, kb' = [kb EXCEPT !.exp = "idle", !.out = IF ok THEN "server" ELSE NoKb] PROVE KbGood(kb')
  <2> DEFINE o == IF ok THEN "server" ELSE NoKb
  <2>1. o \in {NoKb, "torn", "server"} /\ kb' = [kb EXCEPT !.exp = "idle", !.out = o]
    BY <1>5
  <2> HIDE DEF o
  <2> QED BY <2>1, ExportStep
<1> QED BY <1>2, <1>3, <1>4, <1>5 DEF kubeconfig, KbKill

LEMMA EditStep ==
  ASSUME KbGood(kb), kb_edit PROVE KbGood(kb')
<1>1. kb \in KbStates /\ kb.want \in KbWants /\ kb.p.pc = "idle" /\ kb.edits \in Nat
  BY DEF KbGood, KbStates, kb_edit, KbAt
<1>2. PICK w : w \in KbWants /\ kb' = [kb EXCEPT !.want = w, !.edits = @ + 1, !.last = NoKb]
  <2>1. ASSUME NEW x \in {"v1", "v2"} PROVE [kb.want EXCEPT !.ver = x] \in KbWants
    BY <1>1 DEF KbWants
  <2>2. ASSUME NEW x \in {"off", "on", "other"} PROVE [kb.want EXCEPT !.dns = x] \in KbWants
    BY <1>1 DEF KbWants
  <2>3. ASSUME NEW x \in {"ok", "bad", "labelled"} PROVE [kb.want EXCEPT !.man = x] \in KbWants
    BY <1>1 DEF KbWants
  <2>4. [kb.want EXCEPT !.a = 2] \in KbWants /\ [kb.want EXCEPT !.a = 3] \in KbWants
    BY <1>1 DEF KbWants
  <2>5. [kb.want EXCEPT !.b = ~@] \in KbWants /\ [kb.want EXCEPT !.s = ~@] \in KbWants
    <3>1. (~kb.want.b) \in BOOLEAN /\ (~kb.want.s) \in BOOLEAN
      BY <1>1 DEF KbWants
    <3> QED BY <1>1, <3>1 DEF KbWants
  <2> DEFINE W == {[kb.want EXCEPT !.ver = "v2"], [kb.want EXCEPT !.dns = "on"], [kb.want EXCEPT !.dns = "off"],
                   [kb.want EXCEPT !.dns = "other"], [kb.want EXCEPT !.man = "bad"], [kb.want EXCEPT !.man = "labelled"],
                   [kb.want EXCEPT !.man = "ok"], [kb.want EXCEPT !.a = 2], [kb.want EXCEPT !.a = 3], [kb.want EXCEPT !.b = ~@],
                   [kb.want EXCEPT !.s = ~@]}
  <2>6. W \subseteq KbWants
    BY <2>1, <2>2, <2>3, <2>4, <2>5
  <2>7. \E w \in W : kb' = [kb EXCEPT !.want = w, !.edits = @ + 1, !.last = NoKb]
    BY Zenon DEF kb_edit
  <2> HIDE DEF W
  <2> QED BY <2>6, <2>7, Zenon
<1> DEFINE e == kb.edits + 1
<1>3. kb' = [kb EXCEPT !.want = w, !.edits = e, !.last = NoKb] /\ e \in Nat /\ NoKb \in KbLasts
  BY <1>1, <1>2 DEF KbStates, KbLasts
<1> HIDE DEF e
<1>4. kb' \in KbStates
  BY <1>1, <1>2, <1>3 DEF KbStates
<1>5. kb'.last = NoKb /\ kb'.p = kb.p /\ kb'.ids = kb.ids /\ kb'.node = kb.node /\ kb'.obj = kb.obj
  BY <1>1, <1>3 DEF KbStates
<1>6. "idle" \notin KbNodePcs \cup KbLatePcs
  BY DEF KbNodePcs, KbLatePcs, KbRollPcs, KbObjPcs
<1>7. Begun(kb'.want, kb'.p) /\ NodesSettled(kb'.want, kb'.node, kb'.p) /\ ReadyRecorded(kb'.want, kb'.node, kb'.obj, kb'.last, kb'.p)
  BY <1>1, <1>5, <1>6 DEF KbGood, Begun, NodesSettled, ReadyRecorded
<1> QED BY <1>4, <1>5, <1>7 DEF KbGood

\* A guest that reboots runs what is on its disk.
LEMMA RebootStep ==
  ASSUME KbGood(kb), node_reboot PROVE KbGood(kb')
<1>1. PICK n \in KbVms : kb.node[n].run # NoKb /\ kb' = [kb EXCEPT !.node[n].run = kb.node[n].f]
  BY DEF node_reboot, KbVms
<1> DEFINE h == [kb.node[n] EXCEPT !.run = kb.node[n].f]
<1>2. kb \in KbStates /\ kb.node \in KbTables /\ kb.p \in KbProcs /\ kb.dep \in KbDeps
  BY DEF KbGood, KbStates
<1>3. kb.node[n] \in KbHosts /\ kb.node[n].f \in KbImages /\ kb.node[n].f # NoKb
  BY <1>2, KbSentinel DEF KbTables, KbHosts
<1>4. h \in KbHosts /\ h.f = kb.node[n].f /\ h.run = kb.node[n].f
  BY <1>3 DEF KbHosts
<1>5. kb' = NodeWrite(kb, n, h, kb.p, kb.dep)
  BY <1>1, <1>2, <1>3 DEF NodeWrite, KbStates, KbTables, KbHosts
<1> HIDE DEF h
<1>6. /\ kb' \in KbStates /\ kb'.node[n] = h /\ \A m \in KbVms \ {n} : kb'.node[m] = kb.node[m]
      /\ kb'.p = kb.p /\ kb'.want = kb.want /\ kb'.ids = kb.ids /\ kb'.obj = kb.obj /\ kb'.last = kb.last
  BY <1>2, <1>4, <1>5, NodeWritten
<1>7. \A m \in KbVms : /\ kb'.node[m].f = kb.node[m].f
                       /\ KbSettled(kb.want, kb.node[m]) => KbSettled(kb.want, kb'.node[m])
  <2> TAKE m \in KbVms
  <2>1. CASE m = n
    BY <1>3, <1>4, <1>6, <2>1 DEF KbSettled
  <2>2. CASE m # n
    BY <1>6, <2>2
  <2> QED BY <2>1, <2>2
<1>8. "agent" \in KbVms /\ "server" \in KbVms /\ KbNodes[kb.p.n] \in KbVms
  BY <1>2 DEF KbVms, KbNodes, KbProcs
<1>9. AgentOurs(kb'.node["agent"], kb'.p)
  BY <1>6, <1>7, <1>8 DEF KbGood, AgentOurs
<1>10. NodesSettled(kb'.want, kb'.node, kb'.p)
  BY <1>6, <1>7, <1>8 DEF KbGood, NodesSettled
<1>11. ReadyRecorded(kb'.want, kb'.node, kb'.obj, kb'.last, kb'.p)
  BY <1>6, <1>7 DEF KbGood, ReadyRecorded
<1> QED BY <1>6, <1>9, <1>10, <1>11 DEF KbGood

-----------------------------------------------------------------------------
(* Somebody else.                                                          *)

LEMMA KbTouched ==
  ASSUME NEW s \in KbStates
  PROVE  LET t == KbTouch(s)
         IN  /\ t \in KbStates /\ t.want = s.want /\ t.ids = s.ids /\ t.node = s.node /\ t.obj = s.obj /\ t.last = NoKb
             /\ t.p.pc = s.p.pc /\ t.p.n = s.p.n /\ t.p.file = s.p.file /\ t.p.seen = s.p.seen /\ t.p.uid = s.p.uid /\ t.p.dep = s.p.dep
             /\ ~t.p.own
<1> DEFINE q == [s.p EXCEPT !.own = FALSE]
           n == s.foreign + 1
           t == [s EXCEPT !.foreign = n, !.p = q, !.last = NoKb]
<1>1. s.p \in KbProcs /\ s.foreign \in Nat /\ NoKb \in KbLasts
  BY DEF KbStates, KbLasts
<1>2. KbTouch(s) = t
  BY <1>1 DEF KbTouch, KbStates, KbProcs
<1>3. /\ q \in KbProcs /\ q.pc = s.p.pc /\ q.n = s.p.n /\ q.file = s.p.file /\ q.seen = s.p.seen /\ q.uid = s.p.uid
      /\ q.dep = s.p.dep /\ ~q.own /\ n \in Nat
  <2>1. q \in KbProcs
    BY <1>1 DEF KbProcs
  <2>2. q.pc = s.p.pc /\ q.n = s.p.n /\ q.file = s.p.file /\ q.seen = s.p.seen /\ q.uid = s.p.uid /\ q.dep = s.p.dep
    BY <1>1 DEF KbProcs
  <2>3. ~q.own
    BY <1>1 DEF KbProcs
  <2>4. n \in Nat
    BY <1>1
  <2> QED BY <2>1, <2>2, <2>3, <2>4
<1> HIDE DEF q, n
<1>4. t \in KbStates
  BY <1>1, <1>3 DEF KbStates
<1>5. t.want = s.want /\ t.ids = s.ids /\ t.node = s.node /\ t.obj = s.obj /\ t.last = NoKb /\ t.p = q
  BY DEF KbStates
<1> HIDE DEF t
<1> QED BY <1>2, <1>3, <1>4, <1>5

LEMMA TouchGood ==
  ASSUME KbGood(kb), NEW s \in KbStates, s.want = kb.want, s.node = kb.node, s.p = kb.p, ObjectOurs(s.ids, s.obj, kb.p)
  PROVE  KbGood(KbTouch(s))
<1> DEFINE t == KbTouch(s)
<1>1. /\ t \in KbStates /\ t.want = kb.want /\ t.ids = s.ids /\ t.node = kb.node /\ t.obj = s.obj /\ t.last = NoKb
      /\ t.p.pc = kb.p.pc /\ t.p.n = kb.p.n /\ t.p.file = kb.p.file /\ t.p.seen = kb.p.seen /\ t.p.uid = kb.p.uid /\ t.p.dep = kb.p.dep
      /\ ~t.p.own
  BY KbTouched
<1> HIDE DEF t
<1>2. Begun(t.want, t.p) /\ AgentOurs(t.node["agent"], t.p) /\ DeployOurs(t.p)
  BY <1>1 DEF KbGood, Begun, AgentOurs, DeployOurs
<1>3. NodesSettled(t.want, t.node, t.p)
  BY <1>1 DEF KbGood, NodesSettled
<1>4. ObjectOurs(t.ids, t.obj, t.p)
  BY <1>1 DEF ObjectOurs
<1>5. ReadyRecorded(t.want, t.node, t.obj, t.last, t.p)
  BY <1>1 DEF ReadyRecorded
<1> QED BY <1>1, <1>2, <1>3, <1>4, <1>5 DEF KbGood, t

\* The object edited in place, by anybody.
LEMMA EditedObject ==
  ASSUME KbGood(kb), kb.obj # NoKb, NEW o \in KbObjects, o.uid = kb.obj.uid, o.owner = kb.obj.owner
  PROVE  KbGood(KbTouch([kb EXCEPT !.obj = o]))
<1> DEFINE s == [kb EXCEPT !.obj = o]
<1>1. o \in KbObjs /\ kb \in KbStates
  BY DEF KbObjs, KbGood
<1>2. s \in KbStates
  BY <1>1 DEF KbStates
<1>3. s.want = kb.want /\ s.node = kb.node /\ s.p = kb.p /\ s.obj = o /\ s.ids = kb.ids
  BY <1>1 DEF KbStates
<1> HIDE DEF s
<1>4. ObjectOurs(s.ids, s.obj, kb.p)
  BY <1>3 DEF KbGood, ObjectOurs
<1> QED BY <1>2, <1>3, <1>4, TouchGood DEF s

LEMMA ForeignObjectStep ==
  ASSUME KbGood(kb), foreign_write \/ foreign_share \/ foreign_replace PROVE KbGood(kb')
<1>1. CASE foreign_write
  <2>1. PICK f \in Kept :
           kb' = KbTouch([kb EXCEPT !.obj.val[f] = Theirs, !.obj.update = @ \ {f}, !.obj.apply = @ \ {f},
                                    !.obj.theirs = @ \union {f}, !.obj.rv = @ + 1])
    BY <1>1 DEF foreign_write
  <2> DEFINE val == [kb.obj.val EXCEPT ![f] = Theirs]
             u == kb.obj.update \ {f}
             a == kb.obj.apply \ {f}
             h == kb.obj.theirs \union {f}
             r == kb.obj.rv + 1
             o == [kb.obj EXCEPT !.val = val, !.update = u, !.apply = a, !.theirs = h, !.rv = r]
  <2>2. kb.obj \in KbObjects /\ kb.obj # NoKb
    BY <1>1, KbObjTypes DEF foreign_write
  <2>3. kb.obj.val \in KbVals /\ kb.obj.rv \in Nat /\ kb.obj.update \in SUBSET KbFields
        /\ kb.obj.apply \in SUBSET KbFields /\ kb.obj.theirs \in SUBSET KbFields
    BY <2>2 DEF KbObjects
  <2>4. val \in KbVals /\ u \in SUBSET KbFields /\ a \in SUBSET KbFields /\ h \in SUBSET KbFields /\ r \in Nat
    <3>1. f \in KbFields /\ Stored(f, Theirs) = Theirs /\ Theirs \in Nat
      BY <2>1, KeptFacts
    <3>2. val \in KbVals
      BY <2>3, <3>1 DEF KbVals
    <3>3. u \in SUBSET KbFields /\ a \in SUBSET KbFields /\ h \in SUBSET KbFields /\ r \in Nat
      BY <2>3, <3>1
    <3> QED BY <3>2, <3>3
  <2>5. kb' = KbTouch([kb EXCEPT !.obj = o])
    BY <2>1, <2>2, KbObjTypes DEF KbStates, KbObjects
  <2> HIDE DEF val, u, a, h, r
  <2>6. o \in KbObjects /\ o.uid = kb.obj.uid /\ o.owner = kb.obj.owner
    BY <2>2, <2>4 DEF KbObjects
  <2> HIDE DEF o
  <2> QED BY <2>2, <2>5, <2>6, EditedObject
<1>2. CASE foreign_share
  <2>1. PICK f \in {"b", "d"} : kb' = KbTouch([kb EXCEPT !.obj.theirs = @ \union {f}, !.obj.rv = @ + 1])
    BY <1>2 DEF foreign_share
  <2> DEFINE h == kb.obj.theirs \union {f}
             r == kb.obj.rv + 1
             o == [kb.obj EXCEPT !.theirs = h, !.rv = r]
  <2>2. kb.obj \in KbObjects /\ kb.obj # NoKb
    BY <1>2, KbObjTypes DEF foreign_share
  <2>3. h \in SUBSET KbFields /\ r \in Nat
    BY <2>2 DEF KbObjects, KbFields, Kept
  <2>4. kb' = KbTouch([kb EXCEPT !.obj = o])
    BY <2>1, <2>2, KbObjTypes DEF KbStates, KbObjects
  <2> HIDE DEF h, r
  <2>5. o \in KbObjects /\ o.uid = kb.obj.uid /\ o.owner = kb.obj.owner
    BY <2>2, <2>3 DEF KbObjects
  <2> HIDE DEF o
  <2> QED BY <2>2, <2>4, <2>5, EditedObject
<1>3. CASE foreign_replace
  <2>1. PICK w \in {"us", "them", NoKb} :
          kb' = KbTouch([kb EXCEPT !.ids = @ + 1, !.obj =
            IF w = NoKb THEN NoKb
            ELSE [uid |-> kb.ids + 1, rv |-> 1, owner |-> w, update |-> {}, apply |-> {}, theirs |-> Kept,
                  val |-> [f \in KbFields |-> Stored(f, Theirs)]]])
    BY <1>3 DEF foreign_replace
  <2> DEFINE i == kb.ids + 1
             val == [f \in KbFields |-> Stored(f, Theirs)]
             o == IF w = NoKb THEN NoKb
                  ELSE [uid |-> i, rv |-> 1, owner |-> w, update |-> {}, apply |-> {}, theirs |-> Kept, val |-> val]
             s == [kb EXCEPT !.ids = i, !.obj = o]
  <2>2. i \in Nat /\ kb.ids < i /\ val \in KbVals
    <3>1. \A f \in KbFields : Stored(f, Theirs) \in Nat \cup {NoKb} /\ Stored(f, Stored(f, Theirs)) = Stored(f, Theirs)
      BY StoredFacts, KeptFacts
    <3> QED BY <3>1, KbObjTypes DEF KbVals
  <2>3. kb' = KbTouch(s)
    BY <2>1, KbObjTypes DEF KbStates
  <2> HIDE DEF i, val
  <2>4. o \in KbObjs /\ (o # NoKb => o.uid = i)
    <3>1. CASE w = NoKb
      BY <3>1 DEF KbObjs
    <3>2. CASE w # NoKb
      <4>1. [uid |-> i, rv |-> 1, owner |-> w, update |-> {}, apply |-> {}, theirs |-> Kept, val |-> val] \in KbObjects
        BY <2>1, <2>2, <3>2, KeptFacts DEF KbObjects
      <4> QED BY <3>2, <4>1 DEF KbObjs
    <3> QED BY <3>1, <3>2
  <2> HIDE DEF o
  <2>5. s \in KbStates
    BY <2>2, <2>4, KbObjTypes DEF KbStates
  <2>6. s.want = kb.want /\ s.node = kb.node /\ s.p = kb.p /\ s.obj = o /\ s.ids = i
    BY KbObjTypes DEF KbStates
  <2> HIDE DEF s
  <2>7. ObjectOurs(s.ids, s.obj, kb.p)
    BY <2>2, <2>4, <2>6, KbObjTypes DEF ObjectOurs
  <2> QED BY <2>3, <2>5, <2>6, <2>7, TouchGood
<1> QED BY <1>1, <1>2, <1>3

LEMMA ForeignDnsStep ==
  ASSUME KbGood(kb), foreign_coredns PROVE KbGood(kb')
<1>1. kb \in KbStates /\ kb.dep \in KbDeploys /\ kb.addon \in KbAddons /\ kb.dep.uid + 1 \in Nat /\ kb.dep.rv + 1 \in Nat
      /\ kb.addon.rv + 1 \in Nat
  <2>1. kb \in KbStates /\ kb.dep \in KbDeploys /\ kb.addon \in KbAddons
    BY DEF KbGood, KbStates, KbDeps, foreign_coredns
  <2> QED BY <2>1 DEF KbDeploys, KbAddons
<1>2. ASSUME NEW d \in KbDeploys, NEW a \in KbAddons, kb' = KbTouch([kb EXCEPT !.dep = d, !.addon = a]) PROVE KbGood(kb')
  <2> DEFINE s == [kb EXCEPT !.dep = d, !.addon = a]
  <2>1. d \in KbDeps
    BY DEF KbDeps
  <2>2. s \in KbStates
    BY <1>1, <2>1 DEF KbStates
  <2>3. s.want = kb.want /\ s.node = kb.node /\ s.p = kb.p /\ s.obj = kb.obj /\ s.ids = kb.ids
    BY <1>1 DEF KbStates
  <2> HIDE DEF s
  <2>4. ObjectOurs(s.ids, s.obj, kb.p)
    BY <2>3 DEF KbGood
  <2> QED BY <1>2, <2>2, <2>3, <2>4, TouchGood DEF s
<1>3. CASE kb' = KbTouch([kb EXCEPT !.dep = [uid |-> @.uid + 1, rv |-> 1, marker |-> NoKb]])
  <2> DEFINE d == [uid |-> kb.dep.uid + 1, rv |-> 1, marker |-> NoKb]
  <2>1. d \in KbDeploys
    BY <1>1 DEF KbDeploys
  <2>2. kb' = KbTouch([kb EXCEPT !.dep = d, !.addon = kb.addon])
    BY <1>1, <1>3 DEF KbStates
  <2> HIDE DEF d
  <2> QED BY <1>1, <1>2, <2>1, <2>2
<1>4. CASE kb' = KbTouch([kb EXCEPT !.dep.marker = "them", !.dep.rv = @ + 1])
  <2> DEFINE r == kb.dep.rv + 1
             d == [kb.dep EXCEPT !.marker = "them", !.rv = r]
  <2>1. d \in KbDeploys
    BY <1>1 DEF KbDeploys
  <2>2. kb' = KbTouch([kb EXCEPT !.dep = d, !.addon = kb.addon])
    BY <1>1, <1>4 DEF KbStates, KbDeploys
  <2> HIDE DEF d
  <2> QED BY <1>1, <1>2, <2>1, <2>2
<1>5. CASE kb' = KbTouch([kb EXCEPT !.addon.rv = @ + 1])
  <2> DEFINE a == [kb.addon EXCEPT !.rv = kb.addon.rv + 1]
  <2>1. a \in KbAddons
    BY <1>1 DEF KbAddons
  <2>2. kb' = KbTouch([kb EXCEPT !.dep = kb.dep, !.addon = a])
    BY <1>1, <1>5 DEF KbStates, KbAddons
  <2> HIDE DEF a
  <2> QED BY <1>1, <1>2, <2>1, <2>2
<1> QED BY <1>3, <1>4, <1>5 DEF foreign_coredns

LEMMA KbGoodStep == KbGood(kb) /\ [KbNext]_kb => KbGood(kb')
<1> SUFFICES ASSUME KbGood(kb), [KbNext]_kb PROVE KbGood(kb')
  OBVIOUS
<1>1. CASE KbOwn
  BY <1>1, PreflightStep, TokenStep, GuestFileStep, InstallStep, ResolverStep, WaitStep, RolloutStep, ApplyReadStep, ApplyCreateStep,
     MigrateStep, BridgeStep, RetireStep, ApplyOwnedStep, RecordStep DEF KbOwn
<1>2. CASE KbForeign
  BY <1>2, ForeignObjectStep, ForeignDnsStep DEF KbForeign
<1>3. CASE UNCHANGED kb
  BY <1>3
<1> QED BY <1>1, <1>2, <1>3, KubeconfigStep, EditStep, RebootStep DEF KbNext

-----------------------------------------------------------------------------
\* Once the record stands, status looks at the same facts.
LEMMA ReadyIsReady == KbGood(kb) => ReadyAgreesWithStatus
<1> SUFFICES ASSUME KbGood(kb), kb.last # NoKb, kb.last.quiet
             PROVE  /\ resource_state = IF Canonical THEN "present" ELSE "drift"
                    /\ cluster_status = IF Canonical THEN "ready" ELSE "degraded"
  BY DEF ReadyAgreesWithStatus
<1>1. kb \in KbStates /\ kb.want.man = "ok" /\ AsDeclared(kb.want, kb.obj) /\ \A n \in KbVms : KbSettled(kb.want, kb.node[n])
  BY DEF KbGood, ReadyRecorded
<1>2. \A i \in 1..2 : kb.node[KbNodes[i]].run # NoKb /\ kb.node[KbNodes[i]].run["binary"] = kb.want.ver
  <2> TAKE i \in 1..2
  <2>1. KbNodes[i] \in KbVms
    BY DEF KbNodes, KbVms
  <2> QED BY <1>1, <2>1 DEF KbSettled
<1>3. resource_state = IF Canonical THEN "present" ELSE "drift"
  <2>1. kb.obj # NoKb /\ check_existing(kb.obj)
    BY <1>1 DEF AsDeclared, check_existing
  <2>2. \A f \in Declared : kb.obj.val[f] = Stored(f, KbDesired[f])
    BY <1>1, DesiredFacts DEF AsDeclared
  <2>3. matches_desired(kb.obj) <=> Canonical
    BY <2>2 DEF matches_desired, Canonical
  <2> QED BY <2>1, <2>3 DEF resource_state
<1> QED BY <1>1, <1>2, <1>3 DEF cluster_status, read, owned

\* A step of the command leaves what is not its own.
LEMMA MovedLeaves ==
  ASSUME kb \in KbStates, NEW pc \in KbPcs
  PROVE  /\ KbFail(kb).obj = kb.obj /\ KbFail(kb).dep = kb.dep /\ KbFail(kb).node = kb.node
         /\ KbTo(kb, pc).obj = kb.obj /\ KbTo(kb, pc).dep = kb.dep /\ KbTo(kb, pc).node = kb.node
  BY KbIdleFacts, ProcWritten, KbMoved DEF KbFail, SameCluster

ObjectKept ==
  kb.obj # NoKb /\ kb'.obj # kb.obj =>
    /\ kb'.obj # NoKb /\ kb.obj.owner = "us" /\ kb.obj.uid = kb.p.uid /\ kb'.obj.theirs = kb.obj.theirs
    /\ \A f \in kb.obj.theirs : kb'.obj.val[f] = kb.obj.val[f]
DeployKept == kb.dep # NoKb /\ kb'.dep # kb.dep => kb.dep.marker # "them" /\ kb.dep.uid = kb.p.dep.uid
NodesKept == (kb.node.agent.f["marker"] = "them" \/ kb.node.agent.f["binary"] = "other") => kb'.node = kb.node

LEMMA KeptParts == ObjectKept /\ DeployKept /\ NodesKept => KbForeignKept
  BY DEF ObjectKept, DeployKept, NodesKept, KbForeignKept

\* While a run is under way the agent is ours.
LEMMA AgentInRun == KbGood(kb) /\ kb.p.pc # "idle" => NodesKept
  BY DEF KbGood, AgentOurs, NodesKept

LEMMA NodeStepsKeep ==
  ASSUME KbGood(kb), guarded_guest_file \/ install_node \/ remove_resolver
  PROVE  KbForeignKept
<1>1. kb \in KbStates /\ kb.p.pc # "idle"
  BY DEF KbGood, guarded_guest_file, install_node, remove_resolver, KbAt
<1>2. NodesKept
  BY <1>1, AgentInRun
<1>3. kb'.obj = kb.obj /\ (kb.dep # NoKb => kb'.dep = kb.dep)
  <2>1. CASE guarded_guest_file
    BY <1>1, <2>1 DEF guarded_guest_file, KbFail, KbStates
  <2>2. CASE install_node
    BY <1>1, <2>2 DEF install_node, KbTo, KbStates
  <2>3. CASE remove_resolver
    BY <1>1, <2>3 DEF remove_resolver, KbTo, KbStates
  <2> QED BY <2>1, <2>2, <2>3
<1> QED BY <1>2, <1>3, KeptParts DEF ObjectKept, DeployKept

\* The steps that write no object, no Deployment and no node.
LEMMA OtherStepsKeep ==
  ASSUME KbGood(kb),
         \/ preflight \/ ensure_token \/ wait_ready \/ rollout_read \/ rollout_addon \/ rollout_fresh \/ rollout_after \/ apply_read
         \/ migrate_create_ownership \/ migrate_reread \/ migrate_verify \/ apply_reread \/ record_ready
  PROVE  KbForeignKept
<1>1. kb \in KbStates
  BY DEF KbGood
<1>2. kb'.obj = kb.obj /\ kb'.dep = kb.dep /\ kb'.node = kb.node
  <2>1. CASE preflight \/ ensure_token
    BY <1>1, <2>1 DEF preflight, ensure_token, KbFail, KbTo, KbStates
  <2>2. CASE wait_ready
    BY <1>1, <2>2 DEF wait_ready, KbFail, KbTo, KbStates
  <2>3. CASE rollout_read \/ rollout_addon
    BY <1>1, <2>3 DEF rollout_read, rollout_addon, KbFail, KbTo, KbStates
  <2>4. CASE rollout_fresh \/ rollout_after \/ apply_read
    BY <1>1, <2>4 DEF rollout_fresh, rollout_after, apply_read, KbFail, KbTo, KbStates
  <2>5. CASE migrate_create_ownership
    BY <1>1, <2>5 DEF migrate_create_ownership, KbFail, KbTo, KbStates
  <2>6. CASE migrate_reread \/ migrate_verify \/ apply_reread \/ record_ready
    BY <1>1, <2>6 DEF migrate_reread, migrate_verify, apply_reread, record_ready, KbFail, KbTo, KbStates
  <2> QED BY <2>1, <2>2, <2>3, <2>4, <2>5, <2>6
<1> QED BY <1>2, KeptParts DEF ObjectKept, DeployKept, NodesKept

LEMMA PatchKeeps ==
  ASSUME KbGood(kb), rollout_patch PROVE KbForeignKept
<1>1. kb \in KbStates /\ kb.p.pc = "patch" /\ kb.p.pc \in KbRollPcs
  BY DEF KbGood, rollout_patch, KbAt, KbRollPcs
<1>2. kb'.obj = kb.obj /\ kb'.node = kb.node
  BY <1>1 DEF rollout_patch, KbFail, KbTo, KbStates
<1>3. kb'.dep # kb.dep => kb.dep = kb.p.dep
  BY <1>1 DEF rollout_patch, KbFail, KbTo, KbStates
<1>4. kb.p.dep.marker # "them"
  BY <1>1 DEF KbGood, DeployOurs
<1> QED BY <1>2, <1>3, <1>4, KeptParts DEF ObjectKept, DeployKept, NodesKept

LEMMA ObjectStepsKeep ==
  ASSUME KbGood(kb), apply_create \/ migrate_bridge \/ migrate_retire \/ apply_owned_object
  PROVE  KbForeignKept
<1>1. kb \in KbStates
  BY DEF KbGood
<1>2. kb'.dep = kb.dep /\ kb'.node = kb.node
  <2>1. CASE apply_create
    BY <1>1, <2>1 DEF apply_create, KbFail, KbTo, KbStates
  <2>2. CASE migrate_bridge
    BY <1>1, <2>2 DEF migrate_bridge, KbFail, KbTo, KbStates
  <2>3. CASE migrate_retire
    BY <1>1, <2>3 DEF migrate_retire, KbFail, KbTo, KbStates
  <2>4. CASE apply_owned_object
    BY <1>1, <2>4, ApplyOwnedCases DEF KbFail, KbTo, KbStates
  <2> QED BY <2>1, <2>2, <2>3, <2>4
<1>3. kb' = KbFail(kb) => kb'.obj = kb.obj
  BY <1>1 DEF KbFail, KbStates
<1>4. CASE apply_create
  <2>1. kb.obj # NoKb => kb' = KbFail(kb)
    BY <1>4 DEF apply_create
  <2> QED BY <1>2, <1>3, <2>1, KeptParts DEF ObjectKept, DeployKept, NodesKept
<1>5. CASE migrate_bridge /\ kb' # KbFail(kb)
  <2> DEFINE D == merge_fields(kb.p.seen.apply, Transferred(kb.p.seen))
             payload == project(kb.p.seen, D)
             r == ssa(kb.obj, payload)
  <2>1. /\ kb.p.pc \in KbObjPcs /\ kb.obj \in KbObjects /\ kb.obj.uid = kb.p.uid /\ ~ssa_conflict(kb.obj, payload)
        /\ D \in SUBSET KbFields /\ payload \in [D -> Nat \cup {NoKb}] /\ kb' = KbTo([kb EXCEPT !.obj = ssa(@, payload)], "bridged")
    BY <1>5, BridgeFacts
  <2>2. kb'.obj = r
    BY <1>1, <2>1 DEF KbTo, KbStates
  <2> HIDE DEF D, payload
  <2>3. r \in KbObjects /\ r.theirs = kb.obj.theirs /\ \A f \in kb.obj.theirs : r.val[f] = kb.obj.val[f]
    BY <2>1, AppliedObject, AppliedKeepsTheirs
  <2>4. kb.obj # NoKb /\ kb.obj.owner = "us"
    BY <2>1, KbObjTypes, KbSentinel
  <2> HIDE DEF r
  <2> QED BY <1>2, <2>1, <2>2, <2>3, <2>4, KbSentinel, KeptParts DEF ObjectKept, DeployKept, NodesKept
<1>6. CASE migrate_retire /\ kb' # KbFail(kb)
  <2> DEFINE u == field_difference(kb.obj.update, Transferred(kb.p.seen))
             r == [kb.obj EXCEPT !.update = u, !.rv = @ + 1]
  <2>1. kb.p.pc \in KbObjPcs /\ kb.obj = kb.p.seen
    BY <1>6 DEF migrate_retire, KbAt, KbObjPcs
  <2>2. kb.obj \in KbObjects /\ kb.obj.uid = kb.p.uid /\ kb.obj.owner = "us" /\ kb.obj.rv + 1 \in Nat
    BY <2>1, KbObjTypes DEF KbObjects
  <2>3. u \in SUBSET KbFields
    BY <2>1, <2>2, TransferredFacts DEF field_difference
  <2>4. kb'.obj = r
    BY <1>1, <1>6, <2>1, <2>2 DEF migrate_retire, KbTo, KbStates, KbObjects
  <2> HIDE DEF u
  <2>5. r \in KbObjects /\ r.theirs = kb.obj.theirs /\ r.val = kb.obj.val
    BY <2>2, <2>3 DEF KbObjects
  <2> HIDE DEF r
  <2> QED BY <1>2, <2>2, <2>4, <2>5, KbSentinel, KeptParts DEF ObjectKept, DeployKept, NodesKept
<1>7. CASE apply_owned_object
  <2>1. CASE kb' = KbTo([kb EXCEPT !.p.try = @ + 1], "reread")
    <3>1. kb'.obj = kb.obj
      BY <1>1, <2>1 DEF KbTo, KbStates
    <3> QED BY <1>2, <3>1, KeptParts DEF ObjectKept, DeployKept, NodesKept
  <2>2. CASE /\ kb.obj # NoKb /\ kb.obj.uid = kb.p.uid /\ ~ssa_conflict(kb.obj, KbDesired)
             /\ kb' = KbTo([kb EXCEPT !.obj = ssa(@, KbDesired)], "record")
    <3> DEFINE r == ssa(kb.obj, KbDesired)
    <3>1. kb'.obj = r
      BY <1>1, <2>2 DEF KbTo, KbStates
    <3>2. kb.p.pc \in KbObjPcs
      BY <1>7 DEF apply_owned_object, KbAt, KbObjPcs
    <3>3. kb.obj \in KbObjects /\ kb.obj.owner = "us"
      BY <2>2, <3>2, KbObjTypes
    <3>4. r \in KbObjects /\ r.theirs = kb.obj.theirs /\ \A f \in kb.obj.theirs : r.val[f] = kb.obj.val[f]
      BY <1>1, <2>2, <3>3, AppliedObject, AppliedKeepsTheirs, DesiredFacts
    <3> HIDE DEF r
    <3> QED BY <1>2, <2>2, <3>1, <3>3, <3>4, KbSentinel, KeptParts DEF ObjectKept, DeployKept, NodesKept
  <2>3. CASE kb' = KbFail(kb)
    BY <1>2, <1>3, <2>3, KeptParts DEF ObjectKept, DeployKept, NodesKept
  <2> QED BY <1>7, <2>1, <2>2, <2>3, ApplyOwnedCases
<1>8. CASE kb' = KbFail(kb)
  BY <1>2, <1>3, <1>8, KeptParts DEF ObjectKept, DeployKept, NodesKept
<1> QED BY <1>4, <1>5, <1>6, <1>7, <1>8

\* What `apply` of a K3s cluster records as ready is what `kubernetes status`
\* calls ready, and no step of it touches a field, an object, a Deployment or
\* a node of somebody else: for any number of edits and of foreign acts.
THEOREM ClusterIsSound == KbSpec => ClusterSound
<1>1. KbInit => KbGood(kb)
  BY KbInitGood
<1>2. KbGood(kb) /\ [KbNext]_kb => KbGood(kb)'
  BY KbGoodStep
<1>3. KbGood(kb) /\ KbGood(kb)' /\ [KbNext]_kb => [ReadyAgreesWithStatus' /\ KbForeignKept]_kb
  <2> SUFFICES ASSUME KbGood(kb), KbGood(kb)', [KbNext]_kb PROVE ReadyAgreesWithStatus' /\ KbForeignKept
    OBVIOUS
  <2>1. ReadyAgreesWithStatus'
    BY ReadyIsReady, PTL
  <2>2. KbForeignKept
    <3> SUFFICES ASSUME KbOwn PROVE KbForeignKept
      BY DEF KbForeignKept
    <3> QED BY NodeStepsKeep, OtherStepsKeep, PatchKeeps, ObjectStepsKeep DEF KbOwn
  <2> QED BY <2>1, <2>2
<1> QED BY <1>1, <1>2, <1>3, PTL DEF KbSpec, ClusterSound
=============================================================================
