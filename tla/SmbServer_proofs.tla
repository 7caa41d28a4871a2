-------------------------- MODULE SmbServer_proofs --------------------------
(***************************************************************************)
(* Proofs about SmbServer, for any accounts, configurations, offers,       *)
(* printers and bounds: who is logged in with which keys, and what becomes *)
(* of the documents.                                                       *)
(***************************************************************************)
EXTENDS SmbServer, SequenceTheorems, TLAPS

-----------------------------------------------------------------------------
(* Sessions *)

SessionFields == {"id", "dialect", "cipher", "preauth", "challenge", "auth",
                  "guest", "user", "keys", "signing"}
ClientFields == {"mid", "base", "login", "token", "keys", "logins"}

\* The session of a connection, and what it grants: authentication brings keys
\* and, where it is required, a user who has proved his password; without it
\* there are neither trees nor files.
SessionInv ==
    /\ cfg \in Configs
    /\ sess # NoSession =>
         /\ DOMAIN sess = SessionFields
         /\ sess.auth => sess.keys # NoKeys
         /\ sess.guest => sess.auth
         /\ cfg.requireAuth /\ sess.auth => proved # {}
         /\ sess.user \in proved \cup {""}
    /\ proved \subseteq Users
    /\ (sess = NoSession \/ ~sess.auth) => trees = <<>> /\ handles = <<>>

\* The transcripts of the two sides, up to the end of the first login: they
\* agree before it and after its first leg, and so do the keys it ends with.
TranscriptInv ==
    /\ DOMAIN client = ClientFields
    /\ client.logins \in Nat
    /\ client.logins = 0 =>
         /\ client.token = NoToken /\ client.keys = NoKeys
         /\ sess # NoSession => sess.preauth = client.base
    /\ client.logins = 1 /\ client.token # NoToken =>
         client.keys = NoKeys /\ sess # NoSession /\ sess.preauth = client.login
    /\ client.logins = 1 /\ client.keys # NoKeys =>
         sess # NoSession /\ sess.keys = client.keys

LoginInv == SessionInv /\ TranscriptInv

\* A record with more in it than an id is a session.
LEMMA SessionIsOne ==
    ASSUME NEW s, "auth" \in DOMAIN s
    PROVE  s # NoSession
<1>1. DOMAIN NoSession = {"id"}
  BY DEF NoSession
<1>2. QED BY <1>1

LEMMA KeysAreSome ==
    ASSUME NEW sbk, NEW preauth
    PROVE  DeriveSessionKeys(sbk, preauth) # NoKeys
<1>1. DOMAIN NoKeys = {"signing"}
  BY DEF NoKeys
<1>2. "c2s" \in DOMAIN DeriveSessionKeys(sbk, preauth)
  BY DEF DeriveSessionKeys
<1>3. QED BY <1>1, <1>2

LEMMA NewSessionFields ==
    ASSUME NEW id, NEW dialect, NEW cipher
    PROVE  LET s == NewSession(id, dialect, cipher)
           IN  DOMAIN s = SessionFields /\ s.auth = FALSE /\ s.guest = FALSE /\ s.user = ""
BY DEF NewSession, SessionFields

LEMMA FreshFields ==
    /\ DOMAIN Fresh = ClientFields
    /\ Fresh.logins = 0 /\ Fresh.token = NoToken /\ Fresh.keys = NoKeys
BY DEF Fresh, ClientFields

\* A new connection.
LEMMA ConnectKeepsLogin ==
    ASSUME LoginInv, Connect
    PROVE  LoginInv'
<1>1. cfg' = cfg /\ sess' = NoSession /\ trees' = <<>> /\ handles' = <<>>
      /\ client' = Fresh /\ proved' = {}
  BY DEF Connect
<1>2. SessionInv'
  BY <1>1 DEF LoginInv, SessionInv, Users
<1>3. TranscriptInv'
  BY <1>1, FreshFields DEF TranscriptInv
<1>4. QED BY <1>2, <1>3 DEF LoginInv

\* A new session.
LEMMA NegotiateKeepsLogin ==
    ASSUME LoginInv, NEW offer \in Offers, Negotiate(offer)
    PROVE  LoginInv'
<1> DEFINE hash == UpdatePreauth(UpdatePreauth(None, Req("negotiate")), Resp("negotiate"))
           dialect == SelectDialect(offer.dialects)
           new == NewSession(client.mid + 1, dialect, SelectCipher(dialect, offer.ciphers))
<1>1. cfg' = cfg /\ trees' = <<>> /\ handles' = <<>> /\ proved' = {}
      /\ sess' = [new EXCEPT !.preauth = hash]
      /\ client' = [Fresh EXCEPT !.mid = client.mid + 1, !.base = hash]
  BY DEF Negotiate, Handshake, Request
<1>2. DOMAIN new = SessionFields /\ new.auth = FALSE /\ new.guest = FALSE /\ new.user = ""
  BY NewSessionFields
<1> HIDE DEF new, hash
<1>3. DOMAIN sess' = SessionFields /\ sess'.auth = FALSE /\ sess'.guest = FALSE
      /\ sess'.user = "" /\ sess'.preauth = hash
  BY <1>1, <1>2 DEF SessionFields
<1>4. DOMAIN client' = ClientFields /\ client'.logins = 0 /\ client'.token = NoToken
      /\ client'.keys = NoKeys /\ client'.base = hash
  BY <1>1, FreshFields DEF ClientFields
<1>5. SessionInv'
  BY <1>1, <1>3 DEF LoginInv, SessionInv, Users
<1>6. client'.logins \in Nat /\ client'.logins # 1
  BY <1>4
<1>7. TranscriptInv'
  BY <1>3, <1>4, <1>6 DEF TranscriptInv
<1>8. QED BY <1>5, <1>7 DEF LoginInv

\* The hash of a request changes nothing else of a session.
LEMMA HashedFields ==
    ASSUME SessionInv, sess # NoSession
    PROVE  LET s == Hashed(sess)
           IN  /\ DOMAIN s = SessionFields
               /\ s.auth = sess.auth /\ s.guest = sess.guest /\ s.user = sess.user
               /\ s.keys = sess.keys /\ s.signing = sess.signing
               /\ s.preauth = UpdatePreauth(sess.preauth, Req("setup"))
BY DEF SessionInv, Hashed, SessionFields

\* Leg 1 leaves the session authenticated as it was.
LEMMA Leg1KeepsLogin ==
    ASSUME LoginInv, Leg1
    PROVE  LoginInv'
<1> DEFINE h == Hashed(sess)
<1>1. /\ sess # NoSession /\ cfg' = cfg /\ proved' = proved /\ trees' = trees /\ handles' = handles
      /\ \E ch : sess' = [h EXCEPT !.preauth = UpdatePreauth(@, Resp("setup")), !.challenge = ch]
      /\ \E token : client' = [client EXCEPT
            !.mid = @ + 1,
            !.login = UpdatePreauth(UpdatePreauth(client.base, Req("setup")), Resp("setup")),
            !.token = token, !.logins = @ + 1]
  BY DEF Leg1, Handshake, Request, unspooled
<1>2. /\ DOMAIN h = SessionFields
      /\ h.auth = sess.auth /\ h.guest = sess.guest /\ h.user = sess.user /\ h.keys = sess.keys
      /\ h.preauth = UpdatePreauth(sess.preauth, Req("setup"))
  BY <1>1, HashedFields DEF LoginInv
<1> HIDE DEF h
<1>3. /\ DOMAIN sess' = SessionFields
      /\ sess'.auth = sess.auth /\ sess'.guest = sess.guest
      /\ sess'.user = sess.user /\ sess'.keys = sess.keys
      /\ sess'.preauth = UpdatePreauth(UpdatePreauth(sess.preauth, Req("setup")), Resp("setup"))
  BY <1>1, <1>2 DEF SessionFields
<1>4. sess' # NoSession
  BY <1>3, SessionIsOne DEF SessionFields
<1>5. SessionInv'
  BY <1>1, <1>3, <1>4 DEF LoginInv, SessionInv, Users
<1>6. /\ DOMAIN client' = ClientFields /\ client'.keys = client.keys
      /\ client'.login = UpdatePreauth(UpdatePreauth(client.base, Req("setup")), Resp("setup"))
      /\ client'.logins = client.logins + 1
  BY <1>1 DEF LoginInv, TranscriptInv, ClientFields
<1>7. client.logins \in Nat
  BY DEF LoginInv, TranscriptInv
<1>8. client'.logins \in Nat /\ client'.logins # 0 /\ (client'.logins = 1 => client.logins = 0)
  BY <1>6, <1>7
<1>9. client'.logins = 1 =>
        client'.keys = NoKeys /\ sess'.preauth = client'.login
  BY <1>1, <1>3, <1>6, <1>8 DEF LoginInv, TranscriptInv
<1>10. TranscriptInv'
  BY <1>4, <1>6, <1>8, <1>9 DEF TranscriptInv
<1>11. QED BY <1>5, <1>10 DEF LoginInv

\* Leg 2 of the first login gives both sides keys from the same transcript.
LEMMA Leg2KeepsLogin ==
    ASSUME LoginInv, NEW user \in Users, NEW password, NEW msg, Leg2(user, password, msg)
    PROVE  LoginInv'
<1> DEFINE h == Hashed(sess)
           sbk == SessionBaseKey(Ntowfv2(user, "domain", password), Proof(user, password))
           keys == DeriveSessionKeys(sbk, UpdatePreauth(client.login, Req("setup")))
<1>1. /\ sess # NoSession /\ client.token # NoToken
      /\ cfg' = cfg /\ trees' = trees /\ handles' = handles
  BY DEF Leg2, Handshake, Request, unspooled
<1>2. /\ DOMAIN h = SessionFields
      /\ h.auth = sess.auth /\ h.guest = sess.guest /\ h.user = sess.user /\ h.keys = sess.keys
      /\ h.preauth = UpdatePreauth(sess.preauth, Req("setup"))
  BY <1>1, HashedFields DEF LoginInv
<1>3. /\ sess' = IF Verified(msg) THEN UserSession(h, user, sbk) ELSE Unverified(h)
      /\ client' = [client EXCEPT !.mid = @ + 1, !.login = None, !.token = NoToken,
                                  !.keys = IF Verified(msg) THEN keys ELSE NoKeys]
      /\ proved' = IF Verified(msg) THEN proved \cup {user} ELSE proved
  BY DEF Leg2
<1> HIDE DEF h, sbk
<1>4. DOMAIN client' = ClientFields /\ client'.logins = client.logins /\ client'.token = NoToken
      /\ client'.keys = (IF Verified(msg) THEN keys ELSE NoKeys)
  BY <1>3 DEF LoginInv, TranscriptInv, ClientFields
<1> HIDE DEF keys
<1>5. client.logins \in Nat /\ client.logins # 0
      /\ (client.logins = 1 => sess.preauth = client.login)
  BY <1>1 DEF LoginInv, TranscriptInv
<1>6. CASE Verified(msg)
  <2> DEFINE ks == DeriveSessionKeys(sbk, h.preauth)
  <2>1. sess' = [h EXCEPT !.user = user, !.auth = TRUE, !.signing = cfg.sign, !.keys = ks]
    BY <1>3, <1>6 DEF UserSession
  <2>2. ks # NoKeys
    BY KeysAreSome
  <2>3. client.logins = 1 => ks = keys
    BY <1>2, <1>5 DEF keys
  <2> HIDE DEF ks
  <2>4. DOMAIN sess' = SessionFields /\ sess'.user = user /\ sess'.auth = TRUE /\ sess'.keys = ks
    BY <1>2, <2>1 DEF SessionFields
  <2>5. sess' # NoSession
    BY <2>4, SessionIsOne DEF SessionFields
  <2>6. SessionInv'
    <3>1. user \in proved' /\ proved' # {} /\ proved' \subseteq Users
      BY <1>3, <1>6 DEF LoginInv, SessionInv
    <3>2. sess'.user \in proved' \cup {""} /\ sess'.keys # NoKeys
      BY <2>2, <2>4, <3>1
    <3>3. ~(sess' = NoSession \/ ~sess'.auth)
      BY <2>4, <2>5
    <3>4. cfg' \in Configs
      BY <1>1 DEF LoginInv, SessionInv
    <3>5. Users' = Users
      BY DEF Users
    <3>6. QED BY <2>4, <3>1, <3>2, <3>3, <3>4, <3>5 DEF SessionInv
  <2>7. TranscriptInv'
    BY <1>4, <1>5, <1>6, <2>3, <2>4, <2>5 DEF TranscriptInv
  <2>8. QED BY <2>6, <2>7 DEF LoginInv
<1>7. CASE ~Verified(msg)
  <2>1. TranscriptInv'
    BY <1>4, <1>5, <1>7 DEF TranscriptInv
  <2>2. proved' = proved
    BY <1>3, <1>7
  <2>3. CASE cfg.requireAuth
    <3>1. sess' = h
      BY <1>3, <1>7, <2>3 DEF Unverified
    <3>2. sess' # NoSession
      BY <1>2, <3>1, SessionIsOne DEF SessionFields
    <3>3. SessionInv'
      BY <1>1, <1>2, <2>2, <3>1, <3>2 DEF LoginInv, SessionInv, Users
    <3>4. QED BY <2>1, <3>3 DEF LoginInv
  <2>4. CASE ~cfg.requireAuth
    <3> DEFINE ks == DeriveSessionKeys(<<"zero">>, h.preauth)
    <3>1. sess' = [h EXCEPT !.guest = TRUE, !.auth = TRUE, !.signing = FALSE, !.keys = ks]
      BY <1>3, <1>7, <2>4 DEF Unverified, GuestSession
    <3>2. ks # NoKeys
      BY KeysAreSome
    <3> HIDE DEF ks
    <3>3. DOMAIN sess' = SessionFields /\ sess'.user = sess.user /\ sess'.auth = TRUE
          /\ sess'.keys = ks
      BY <1>2, <3>1 DEF SessionFields
    <3>4. sess' # NoSession
      BY <3>3, SessionIsOne DEF SessionFields
    <3>5. SessionInv'
      BY <1>1, <2>2, <2>4, <3>2, <3>3, <3>4 DEF LoginInv, SessionInv, Users
    <3>6. QED BY <2>1, <3>5 DEF LoginInv
  <2>5. QED BY <2>3, <2>4
<1>8. QED BY <1>6, <1>7

\* A request without a token counts as the start of a login.
LEMMA BadSetupKeepsLogin ==
    ASSUME LoginInv, BadSetup
    PROVE  LoginInv'
<1>1. /\ sess # NoSession /\ cfg' = cfg /\ proved' = proved /\ trees' = trees /\ handles' = handles
      /\ sess' = Hashed(sess)
      /\ client' = [client EXCEPT !.mid = @ + 1, !.login = None, !.token = NoToken,
                                  !.logins = @ + 1]
  BY DEF BadSetup, Handshake, Request, unspooled
<1>2. /\ DOMAIN sess' = SessionFields
      /\ sess'.auth = sess.auth /\ sess'.guest = sess.guest
      /\ sess'.user = sess.user /\ sess'.keys = sess.keys
  BY <1>1, HashedFields DEF LoginInv
<1>3. sess' # NoSession
  BY <1>2, SessionIsOne DEF SessionFields
<1>4. SessionInv'
  BY <1>1, <1>2, <1>3 DEF LoginInv, SessionInv, Users
<1>5. /\ DOMAIN client' = ClientFields /\ client'.token = NoToken /\ client'.keys = client.keys
      /\ client'.logins = client.logins + 1
  BY <1>1 DEF LoginInv, TranscriptInv, ClientFields
<1>6. client.logins \in Nat
  BY DEF LoginInv, TranscriptInv
<1>7. client'.logins \in Nat /\ client'.logins # 0 /\ (client'.logins = 1 => client.logins = 0)
  BY <1>5, <1>6
<1>8. client'.logins = 1 => client'.keys = NoKeys
  BY <1>5, <1>7 DEF LoginInv, TranscriptInv
<1>9. TranscriptInv'
  BY <1>5, <1>7, <1>8 DEF TranscriptInv
<1>10. QED BY <1>4, <1>9 DEF LoginInv

\* A command is served in an authenticated session, and leaves it alone.
LEMMA CommandsKeepLogin ==
    ASSUME LoginInv, Command, UNCHANGED <<sess, client, proved>>
    PROVE  LoginInv'
<1>1. cfg' = cfg /\ sess # NoSession /\ sess.auth
  BY DEF Command, Request
<1>2. SessionInv'
  BY <1>1 DEF LoginInv, SessionInv, Users
<1>3. TranscriptInv'
  BY DEF LoginInv, TranscriptInv
<1>4. QED BY <1>2, <1>3 DEF LoginInv

LEMMA RestKeepsLogin ==
    ASSUME LoginInv, UNCHANGED <<cfg, sess, trees, handles, client, proved>>
    PROVE  LoginInv'
BY DEF LoginInv, SessionInv, TranscriptInv, Users

\* The commands on trees and files.
SpoolStep ==
    \/ \E share \in {"pipe", "print"}: TreeConnect(share)
    \/ \E tree \in 1..MaxTrees: TreeDisconnect(tree)
    \/ \E tree \in 0..MaxTrees, name \in {"spoolss", "document"}: Create(tree, name)
    \/ Ineffective
    \/ \E f \in Fids:
        \/ WriteSpool(f) \/ Close(f) \/ Read(f)
        \/ \E type \in {"bind", "other"}: Binds(f, type)
        \/ \E last \in BOOLEAN:
            \/ \E op \in {call[f].op, "other"}: Continues(f, op, last)
            \/ \E op \in Ops, q \in Printers: Calls(f, q, op, last)

\* The handshake and the ends of a connection.
SetupStep ==
    \/ Connect \/ Leg1 \/ BadSetup
    \/ \E offer \in Offers: Negotiate(offer)
    \/ \E user \in Users, password \in Passwords:
            \/ Leg2(user, password, Authenticate(user, password))
            \/ Leg2(user, password, NoToken)

Gone == conn' = "closed" /\ conn = "open"
        /\ UNCHANGED <<cfg, conns, server, peer, spooling>>

LEMMA NextSplit ==
    ASSUME Next
    PROVE  SetupStep \/ SpoolStep \/ Gone
<1>1. Disconnect \/ Refuse => Gone
  BY DEF Disconnect, Refuse, Gone
<1>2. QED BY <1>1 DEF Next, SetupStep, SpoolStep

LEMMA SpoolStepIsCommand ==
    ASSUME SpoolStep
    PROVE  Command /\ UNCHANGED <<sess, client, proved>>
<1>1. ASSUME NEW share, TreeConnect(share) PROVE Command /\ UNCHANGED <<sess, client, proved>>
  BY <1>1 DEF TreeConnect, peer
<1>2. ASSUME NEW tree, TreeDisconnect(tree) PROVE Command /\ UNCHANGED <<sess, client, proved>>
  BY <1>2 DEF TreeDisconnect, peer
<1>3. ASSUME NEW tree, NEW name, Create(tree, name)
      PROVE  Command /\ UNCHANGED <<sess, client, proved>>
  BY <1>3 DEF Create, peer
<1>4. CASE Ineffective
  BY <1>4 DEF Ineffective, server, peer
<1>5. ASSUME NEW f, WriteSpool(f) \/ Close(f) \/ Read(f)
      PROVE  Command /\ UNCHANGED <<sess, client, proved>>
  BY <1>5 DEF WriteSpool, Close, Read, peer
<1>6. ASSUME NEW f, NEW pdu, NEW c, WritePipe(f, pdu, c)
      PROVE  Command /\ UNCHANGED <<sess, client, proved>>
  BY <1>6 DEF WritePipe, peer
<1>7. ASSUME NEW f, NEW type, Binds(f, type) PROVE Command /\ UNCHANGED <<sess, client, proved>>
  BY <1>6, <1>7 DEF Binds
<1>8. ASSUME NEW f, NEW op, NEW last, Continues(f, op, last)
      PROVE  Command /\ UNCHANGED <<sess, client, proved>>
  BY <1>6, <1>8 DEF Continues
<1>9. ASSUME NEW f, NEW op, NEW q, NEW last, Calls(f, q, op, last)
      PROVE  Command /\ UNCHANGED <<sess, client, proved>>
  BY <1>6, <1>9 DEF Calls
<1>10. QED BY <1>1, <1>2, <1>3, <1>4, <1>5, <1>7, <1>8, <1>9 DEF SpoolStep

LEMMA InitLogin == Init => LoginInv
<1> SUFFICES ASSUME Init PROVE LoginInv
  OBVIOUS
<1>1. SessionInv
  BY DEF Init, SessionInv, Users
<1>2. TranscriptInv
  BY FreshFields DEF Init, TranscriptInv
<1>3. QED BY <1>1, <1>2 DEF LoginInv

LEMMA NextLogin == LoginInv /\ [Next]_vars => LoginInv'
<1> SUFFICES ASSUME LoginInv, [Next]_vars PROVE LoginInv'
  OBVIOUS
<1>1. CASE SetupStep
  BY <1>1, ConnectKeepsLogin, Leg1KeepsLogin, BadSetupKeepsLogin, NegotiateKeepsLogin,
     Leg2KeepsLogin DEF SetupStep
<1>2. CASE SpoolStep
  BY <1>2, SpoolStepIsCommand, CommandsKeepLogin
<1>3. CASE Gone
  BY <1>3, RestKeepsLogin DEF Gone, server, peer
<1>4. CASE UNCHANGED vars
  BY <1>4, RestKeepsLogin DEF vars, server, peer
<1>5. QED BY <1>1, <1>2, <1>3, <1>4, NextSplit

LEMMA LoginInvariance == Spec => []LoginInv
BY InitLogin, NextLogin, PTL DEF Spec

-----------------------------------------------------------------------------
(* The first login *)

\* With the same keys on both sides and the cipher that is used, frames are
\* admitted and answers read.
LEMMA SameKeysUnderstood ==
    ASSUME sess # NoSession, sess.keys = client.keys, client.keys # NoKeys, sess.cipher = "gcm"
    PROVE  Understood
<1> SUFFICES ASSUME NEW p \in Protections
             PROVE  Admitted(p, Frame(p, "request")) /\ Readable(Answer(p, sess, "answer"))
  BY DEF Understood
<1>1. Keyed(sess)
  BY DEF Keyed
<1>2. \A key, msg : Sign(key, msg).flagged = TRUE /\ VerifySign(key, Sign(key, msg))
                    /\ "sealedBy" \notin DOMAIN Sign(key, msg)
  BY DEF Sign, VerifySign
<1>3. \A msg : Unsigned(msg).flagged = FALSE /\ "sealedBy" \notin DOMAIN Unsigned(msg)
  BY DEF Unsigned
<1>4. \A key, frame : "sealedBy" \in DOMAIN Encrypt(key, frame)
                      /\ Encrypt(key, frame).sealedBy = <<"gcm", key>>
  BY DEF Encrypt
<1>5. Admitted(p, Frame(p, "request"))
  <2>1. CASE p = "plain"
    BY <2>1, <1>3 DEF Admitted, Frame
  <2>2. CASE p = "signed"
    BY <2>2, <1>2 DEF Admitted, Frame
  <2>3. CASE p = "sealed"
    <3> DEFINE e == Encrypt(client.keys.c2s, Unsigned("request"))
    <3>1. Frame(p, "request") = [e EXCEPT !.sealedBy[1] = sess.cipher]
      BY <2>3 DEF Frame
    <3>2. "sealedBy" \in DOMAIN e /\ e.sealedBy = <<"gcm", client.keys.c2s>>
      BY <1>4
    <3> HIDE DEF e
    <3>3. [e EXCEPT !.sealedBy[1] = sess.cipher].sealedBy = [e.sealedBy EXCEPT ![1] = "gcm"]
      BY <3>2
    <3>4. [<<"gcm", client.keys.c2s>> EXCEPT ![1] = "gcm"] = <<"gcm", client.keys.c2s>>
      OBVIOUS
    <3>5. Decrypts(sess.keys.c2s, Frame(p, "request"))
      BY <3>1, <3>2, <3>3, <3>4 DEF Decrypts
    <3>6. QED BY <1>1, <2>3, <3>5 DEF Admitted
  <2>4. QED BY <2>1, <2>2, <2>3 DEF Protections
<1>6. Readable(Answer(p, sess, "answer"))
  <2> DEFINE signed == IF Signs(sess) THEN Sign(sess.keys.signing, "answer") ELSE Unsigned("answer")
  <2>1. CASE p = "sealed"
    <3>1. Answer(p, sess, "answer") = Encrypt(sess.keys.s2c, signed)
      BY <1>1, <2>1 DEF Answer
    <3>2. QED BY <1>4, <3>1 DEF Readable
  <2>2. CASE p # "sealed"
    <3>1. Answer(p, sess, "answer") = signed
      BY <2>2 DEF Answer
    <3>2. CASE Signs(sess)
      BY <1>2, <3>1, <3>2 DEF Readable
    <3>3. CASE ~Signs(sess)
      BY <1>3, <3>1, <3>3 DEF Readable
    <3>4. QED BY <3>2, <3>3
  <2>3. QED BY <2>1, <2>2
<1>7. QED BY <1>5, <1>6

\* After the first login of a 3.1.1 session, whichever way the client protects
\* a request the server admits it, and the client can read the answer.
\* (handleSMBConn: the folding of the handshake into the preauth hash)
THEOREM FirstLoginIsUnderstood == Spec => []FirstLoginUnderstood
<1>1. LoginInv => FirstLoginUnderstood
  <2> SUFFICES ASSUME LoginInv, sess # NoSession, FirstLogin, client.keys # NoKeys
               PROVE  Understood
    BY DEF FirstLoginUnderstood, Understood
  <2>1. sess.keys = client.keys /\ sess.cipher = "gcm"
    BY DEF LoginInv, TranscriptInv, FirstLogin
  <2>2. QED BY <2>1, SameKeysUnderstood
<1>2. QED BY <1>1, LoginInvariance, PTL

-----------------------------------------------------------------------------
(* Types *)

OpNames == Ops \cup {"none"}
Parts == [op : OpNames, piece : Nat]
Pdus == [type : {"request", "bind", "other"}, first : BOOLEAN, last : BOOLEAN,
         op : OpNames, part : Parts]
Kepts == {b \in Seq(Nat) : Len(b) <= Cap}
Spools == [open : BOOLEAN, buf : Kepts]
Reasms == [active : BOOLEAN, op : OpNames, parts : Seq(Parts)]
Pipes == [reasm : Reasms, spool : Spools]
Handles == [open : BOOLEAN, print : BOOLEAN, buf : Kepts, pipe : Pipes, unread : Nat]
CallRecords == [op : OpNames, printer : Printers, pieces : Seq(Nat)]
Docs == [open : BOOLEAN, pieces : Seq(Nat)]
Jobs == [data : Kepts, user : Users \cup {""}]

TypesInv ==
    /\ conn \in {"open", "closed"} /\ conns \in 0..MaxConns
    /\ nextTree \in 0..MaxTrees /\ DOMAIN trees \subseteq 1..nextTree
    /\ nextFid \in 0..MaxFids /\ handles \in Seq(Handles) /\ Len(handles) = nextFid
    /\ call \in [Fids -> CallRecords]
    /\ doc \in [Fids -> [Printers -> Docs]]
    /\ piece \in 0..cfg.pieces
    /\ finished \in Seq(Seq(Nat))
    /\ captured \in Seq(Jobs) /\ Len(captured) <= MaxJobs

\* What is kept is never more than the cap.
LEMMA CappedIsKept ==
    ASSUME NEW a \in Seq(Nat), NEW b \in Seq(Nat)
    PROVE  AppendCapped(a, b) \in Kepts
<1> DEFINE x == a \o b
<1>1. x \in Seq(Nat) /\ Len(x) \in Nat
  OBVIOUS
<1>2. Cap \in Nat
  BY SpoolssAssumption
<1> HIDE DEF x
<1>3. CASE Len(x) <= Cap
  BY <1>1, <1>3 DEF AppendCapped, Kepts, x
<1>4. CASE ~(Len(x) <= Cap)
  <2>1. SubSeq(x, 1, Cap) \in Seq(Nat) /\ Len(SubSeq(x, 1, Cap)) = Cap
    BY <1>1, <1>2, <1>4, SpoolssAssumption, SubSeqProperties
  <2>2. AppendCapped(a, b) = SubSeq(x, 1, Cap)
    BY <1>4 DEF AppendCapped, x
  <2>3. QED BY <1>2, <2>1, <2>2 DEF Kepts
<1>5. QED BY <1>3, <1>4

LEMMA EmptyKept == <<>> \in Kepts /\ <<>> \in Seq(Nat)
BY SpoolssAssumption DEF Kepts

LEMMA KeptIsSeq == ASSUME NEW b \in Kepts PROVE b \in Seq(Nat) /\ Len(b) <= Cap
BY DEF Kepts

LEMMA NewTypes ==
    /\ NewSpool \in Spools /\ NewPipe \in Pipes /\ NoReasm \in Reasms
    /\ NoCall \in CallRecords /\ NoDoc \in Docs
    /\ NoDocs \in [Fids -> [Printers -> Docs]]
<1>1. NewSpool \in Spools
  BY EmptyKept DEF NewSpool, Spools
<1>2. NoReasm \in Reasms
  BY DEF NoReasm, Reasms, OpNames
<1>3. NewPipe \in Pipes
  BY <1>1, <1>2 DEF NewPipe, Pipes
<1>4. NoDoc \in Docs
  BY DEF NoDoc, Docs
<1>5. (CHOOSE q \in Printers : TRUE) \in Printers
  BY SmbAssumption
<1>6. NoCall \in CallRecords
  BY <1>5 DEF NoCall, CallRecords, OpNames
<1>7. QED BY <1>1, <1>2, <1>3, <1>4, <1>6 DEF NoDocs

LEMMA PiecesTypes ==
    ASSUME NEW stub \in Seq(Parts)
    PROVE  Pieces(stub) \in Seq(Nat) /\ Len(Pieces(stub)) = Len(stub)
<1>1. \A i \in 1..Len(stub) : stub[i].piece \in Nat
  <2>1. \A i \in 1..Len(stub) : stub[i] \in Parts
    OBVIOUS
  <2>2. QED BY <2>1 DEF Parts
<1>2. Pieces(stub) = [i \in 1..Len(stub) |-> stub[i].piece]
  BY DEF Pieces
<1>3. QED BY <1>1, <1>2

\* What a call does to the spool of its pipe.
LEMMA DispatchTypes ==
    ASSUME NEW spool \in Spools, NEW op, NEW stub \in Seq(Parts)
    PROVE  LET a == Dispatch(spool, op, stub)
           IN  a.spool \in Spools /\ a.captured \in Seq(Kepts)
<1> DEFINE a == Dispatch(spool, op, stub)
           Fine(x) == x.spool \in Spools /\ x.captured \in Seq(Kepts)
<1>1. ASSUME NEW x \in Spools
      PROVE  Fine(Answered(x)) /\ Fine([Answered(x) EXCEPT !.ok = FALSE])
  BY DEF Answered
<1>2. Fine(OpenPrinter(spool)) /\ Fine(ClosePrinter(spool))
  BY <1>1, NewTypes DEF OpenPrinter, ClosePrinter
<1>3. Fine(StartDocPrinter(spool))
  <2>1. [open |-> TRUE, buf |-> <<>>] \in Spools
    BY EmptyKept DEF Spools
  <2>2. QED BY <1>1, <2>1 DEF StartDocPrinter
<1>4. spool.open \in BOOLEAN /\ spool.buf \in Kepts
  BY DEF Spools
<1>5. Fine(WritePrinter(spool, stub))
  <2>1. AppendCapped(spool.buf, Pieces(stub)) \in Kepts
    BY <1>4, KeptIsSeq, PiecesTypes, CappedIsKept
  <2>2. [spool EXCEPT !.buf = AppendCapped(@, Pieces(stub))] \in Spools
    BY <2>1 DEF Spools
  <2>3. QED BY <1>1, <2>2 DEF WritePrinter
<1>6. Fine(EndDocPrinter(spool))
  <2>1. CASE spool.open
    <3>1. EndDocPrinter(spool) = [Answered(NewSpool) EXCEPT !.captured = <<spool.buf>>]
      BY <2>1 DEF EndDocPrinter
    <3>2. EndDocPrinter(spool).spool = NewSpool /\ EndDocPrinter(spool).captured = <<spool.buf>>
      BY <3>1 DEF Answered
    <3>3. <<spool.buf>> \in Seq(Kepts)
      BY <1>4
    <3>4. QED BY <3>2, <3>3, NewTypes
  <2>2. CASE ~spool.open
    BY <1>1, <2>2 DEF EndDocPrinter
  <2>3. QED BY <2>1, <2>2
<1> HIDE DEF Fine
<1>7. Fine(a)
  BY <1>1, <1>2, <1>3, <1>5, <1>6 DEF Dispatch
<1>8. QED BY <1>7 DEF Fine

\* What a fragment does to its pipe.
LEMMA OnWriteTypes ==
    ASSUME NEW pipe \in Pipes, NEW pdu \in Pdus
    PROVE  LET r == OnWrite(pipe, pdu)
           IN  r.pipe \in Pipes /\ r.captured \in Seq(Kepts)
<1> DEFINE r == OnWrite(pipe, pdu)
           Fine(x) == x.pipe \in Pipes /\ x.captured \in Seq(Kepts)
           reasm == Collected(pipe.reasm, pdu)
<1>1. pipe.reasm \in Reasms /\ pipe.spool \in Spools
  BY DEF Pipes
<1>2. pdu.op \in OpNames /\ pdu.part \in Parts
  BY DEF Pdus
<1>3. reasm \in Reasms
  <2>1. <<pdu.part>> \in Seq(Parts) /\ Append(pipe.reasm.parts, pdu.part) \in Seq(Parts)
    BY <1>1, <1>2 DEF Reasms
  <2>2. CASE pdu.first
    BY <1>2, <2>1, <2>2 DEF Collected, Reasms
  <2>3. CASE ~pdu.first
    BY <1>1, <2>1, <2>3 DEF Collected, Reasms
  <2>4. QED BY <2>2, <2>3
<1> HIDE DEF reasm
<1>4. ASSUME NEW x \in Pipes PROVE Fine(Awaits(x)) /\ Fine(Fault(x))
  BY DEF Awaits, Fault
<1>5. [pipe EXCEPT !.reasm = NoReasm] \in Pipes /\ [pipe EXCEPT !.reasm = reasm] \in Pipes
  BY <1>3, NewTypes DEF Pipes
<1>6. Fine(Complete(pipe, reasm))
  <2> DEFINE answer == Dispatch(pipe.spool, reasm.op, reasm.parts)
  <2>1. reasm.parts \in Seq(Parts)
    BY <1>3 DEF Reasms
  <2>2. answer.spool \in Spools /\ answer.captured \in Seq(Kepts)
    BY <1>1, <2>1, DispatchTypes
  <2>3. Complete(pipe, reasm) = [pipe |-> [reasm |-> NoReasm, spool |-> answer.spool],
                                 reply |-> IF answer.ok THEN "response" ELSE "fault",
                                 captured |-> answer.captured]
    BY DEF Complete
  <2> HIDE DEF answer
  <2>4. [reasm |-> NoReasm, spool |-> answer.spool] \in Pipes
    BY <2>2, NewTypes DEF Pipes
  <2>5. QED BY <2>2, <2>3, <2>4
<1>7. [pipe |-> pipe, reply |-> "response", captured |-> <<>>].pipe = pipe
  OBVIOUS
<1>8. Fine([pipe |-> pipe, reply |-> "response", captured |-> <<>>])
  OBVIOUS
<1> HIDE DEF Fine
<1>9. Fine(HandleRequest(pipe, pdu))
  BY <1>4, <1>5, <1>6 DEF HandleRequest, reasm
<1>10. Fine(r)
  BY <1>4, <1>8, <1>9 DEF OnWrite
<1>11. QED BY <1>10 DEF Fine

\* The connections and sessions start with nothing.
LEMMA SetupKeepsTypes ==
    ASSUME TypesInv, LoginInv, SetupStep
    PROVE  TypesInv'
<1>1. MaxTrees \in Nat /\ MaxFids \in Nat /\ MaxConns \in Nat
  BY SmbAssumption
<1>2. <<>> \in Seq(Handles) /\ DOMAIN <<>> = {} /\ Len(<<>>) = 0
  OBVIOUS
<1>3. [f \in Fids |-> NoCall] \in [Fids -> CallRecords] /\ NoDocs \in [Fids -> [Printers -> Docs]]
  BY NewTypes
<1>4. ASSUME cfg' = cfg, conn' \in {"open", "closed"}, conns' \in 0..MaxConns,
             nextTree' = 0, trees' = <<>>, nextFid' = 0, handles' = <<>>,
             call' = [f \in Fids |-> NoCall], doc' = NoDocs,
             UNCHANGED <<piece, finished, captured>>
      PROVE  TypesInv'
  <2>1. nextTree' \in 0..MaxTrees /\ nextFid' \in 0..MaxFids
    BY <1>1, <1>4
  <2>2. DOMAIN trees' \subseteq 1..nextTree' /\ handles' \in Seq(Handles) /\ Len(handles') = nextFid'
    BY <1>2, <1>4
  <2>3. call' \in [Fids -> CallRecords] /\ doc' \in [Fids -> [Printers -> Docs]]
    BY <1>3, <1>4
  <2>4. piece' \in 0..cfg'.pieces /\ finished' \in Seq(Seq(Nat))
        /\ captured' \in Seq(Jobs) /\ Len(captured') <= MaxJobs
    BY <1>4 DEF TypesInv
  <2>5. Jobs' = Jobs
    BY DEF Jobs, Users
  <2>6. QED BY <1>4, <2>1, <2>2, <2>3, <2>4, <2>5 DEF TypesInv, Fids
<1>5. ASSUME UNCHANGED <<cfg, conn, conns, unspooled>> PROVE TypesInv'
  BY <1>5 DEF unspooled, spooling, TypesInv, Fids, Jobs, Users
<1>6. CASE Connect
  <2>1. conns' \in 0..MaxConns /\ conn' = "open"
    BY <1>1, <1>6 DEF Connect, TypesInv
  <2>2. QED BY <1>4, <1>6, <2>1 DEF Connect
<1>7. ASSUME NEW offer \in Offers, Negotiate(offer) PROVE TypesInv'
  <2>1. UNCHANGED <<cfg, conn, conns>>
    BY <1>7 DEF Negotiate, Handshake, Request
  <2>2. QED BY <1>4, <1>7, <2>1 DEF Negotiate, TypesInv
<1>8. CASE Leg1
  BY <1>5, <1>8 DEF Leg1, Handshake, Request
<1>9. CASE BadSetup
  BY <1>5, <1>9 DEF BadSetup, Handshake, Request
<1>10. ASSUME NEW user, NEW password, NEW msg, Leg2(user, password, msg) PROVE TypesInv'
  BY <1>5, <1>10 DEF Leg2, Handshake, Request
<1>11. QED BY <1>6, <1>7, <1>8, <1>9, <1>10 DEF SetupStep

\* Trees come and go.
LEMMA TreesKeepTypes ==
    ASSUME TypesInv, NEW share, NEW tree, TreeConnect(share) \/ TreeDisconnect(tree)
    PROVE  TypesInv'
<1>1. UNCHANGED <<cfg, conn, conns, handles, nextFid, call, doc, piece, finished, captured>>
  BY DEF TreeConnect, TreeDisconnect, Command, Request, spooling
<1>2. nextTree \in 0..MaxTrees /\ DOMAIN trees \subseteq 1..nextTree /\ MaxTrees \in Nat
  BY SmbAssumption DEF TypesInv
<1>3. nextTree' \in 0..MaxTrees /\ DOMAIN trees' \subseteq 1..nextTree'
  <2>1. CASE TreeConnect(share)
    <3>1. nextTree < MaxTrees /\ nextTree' = nextTree + 1
          /\ DOMAIN trees' = DOMAIN trees \cup {nextTree'}
      BY <2>1 DEF TreeConnect
    <3>2. nextTree + 1 \in 0..MaxTrees /\ (1..nextTree) \cup {nextTree + 1} \subseteq 1..(nextTree + 1)
      BY <1>2, <3>1
    <3>3. QED BY <1>2, <3>1, <3>2
  <2>2. CASE TreeDisconnect(tree)
    BY <1>2, <2>2 DEF TreeDisconnect
  <2>3. QED BY <2>1, <2>2
<1>4. Jobs' = Jobs /\ Fids' = Fids
  BY DEF Jobs, Users, Fids
<1>5. QED BY <1>1, <1>3, <1>4 DEF TypesInv

\* A file is opened.
LEMMA CreateKeepsTypes ==
    ASSUME TypesInv, NEW tree, NEW name, Create(tree, name)
    PROVE  TypesInv'
<1>1. UNCHANGED <<cfg, conn, conns, trees, nextTree, call, doc, piece, finished, captured>>
  BY DEF Create, Command, Request, spooling
<1> DEFINE print == tree \in DOMAIN trees /\ trees[tree] = "print"
           h == [open |-> TRUE, print |-> print, buf |-> <<>>, pipe |-> NewPipe, unread |-> 0]
<1>2. nextFid < MaxFids /\ nextFid' = nextFid + 1 /\ handles' = Append(handles, h)
  BY DEF Create
<1>3. print \in BOOLEAN
  OBVIOUS
<1>4. h \in Handles
  BY <1>3, EmptyKept, NewTypes DEF Handles
<1> HIDE DEF h
<1>5. nextFid \in 0..MaxFids /\ handles \in Seq(Handles) /\ Len(handles) = nextFid /\ MaxFids \in Nat
  BY SmbAssumption DEF TypesInv
<1>6. nextFid' \in 0..MaxFids /\ handles' \in Seq(Handles) /\ Len(handles') = nextFid'
  BY <1>2, <1>4, <1>5
<1>7. QED BY <1>1, <1>6 DEF TypesInv, Jobs, Users, Fids

\* A file that is open.
LEMMA OpenedTypes ==
    ASSUME TypesInv, NEW f \in Fids, Opened(f)
    PROVE  /\ f \in 1..Len(handles) /\ handles[f] \in Handles
           /\ handles[f].buf \in Kepts /\ handles[f].pipe \in Pipes
           /\ handles[f].print \in BOOLEAN /\ handles[f].unread \in Nat
           /\ doc[f] \in [Printers -> Docs] /\ call[f] \in CallRecords
<1>1. handles \in Seq(Handles) /\ f \in DOMAIN handles
  BY DEF TypesInv, Opened
<1>2. f \in 1..Len(handles) /\ handles[f] \in Handles
  BY <1>1
<1>3. doc[f] \in [Printers -> Docs] /\ call[f] \in CallRecords
  BY DEF TypesInv
<1>4. QED BY <1>2, <1>3 DEF Handles

\* One file is replaced.
LEMMA FileReplaced ==
    ASSUME TypesInv, NEW f \in 1..Len(handles), NEW h \in Handles,
           handles' = [handles EXCEPT ![f] = h]
    PROVE  handles' \in Seq(Handles) /\ Len(handles') = Len(handles)
<1>1. handles \in Seq(Handles)
  BY DEF TypesInv
<1>2. QED BY <1>1, ExceptSeq

LEMMA FileIsPrinter == File \in Printers
BY SmbAssumption DEF File

\* A piece is spooled.
LEMMA WriteSpoolKeepsTypes ==
    ASSUME TypesInv, LoginInv, NEW f \in Fids, WriteSpool(f)
    PROVE  TypesInv'
<1>1. UNCHANGED <<cfg, conn, conns, trees, nextTree, nextFid, call, finished, captured>>
  BY DEF WriteSpool, Command, Request
<1>2. Opened(f) /\ piece < cfg.pieces /\ piece' = piece + 1
      /\ handles' = [handles EXCEPT ![f].buf = AppendCapped(@, <<piece'>>)]
      /\ doc' = [doc EXCEPT ![f][File] = [open |-> TRUE, pieces |-> Append(@.pieces, piece')]]
  BY DEF WriteSpool
<1>3. cfg.pieces \in Nat
  BY SmbAssumption DEF LoginInv, SessionInv
<1>4. piece \in 0..cfg.pieces /\ piece + 1 \in 0..cfg.pieces /\ piece + 1 \in Nat
  BY <1>2, <1>3 DEF TypesInv
<1>5. piece' \in 0..cfg.pieces /\ piece' \in Nat
  BY <1>2, <1>4
<1>6. <<piece'>> \in Seq(Nat)
  BY <1>5
<1> DEFINE b == AppendCapped(handles[f].buf, <<piece'>>)
           d == [open |-> TRUE, pieces |-> Append(doc[f][File].pieces, piece')]
<1>7. b \in Kepts
  BY <1>2, <1>6, OpenedTypes, KeptIsSeq, CappedIsKept
<1>8. d \in Docs
  <2>1. doc[f][File] \in Docs
    BY <1>2, OpenedTypes, FileIsPrinter
  <2>2. Append(doc[f][File].pieces, piece') \in Seq(Nat)
    BY <1>5, <2>1 DEF Docs
  <2>3. QED BY <2>2 DEF Docs
<1>9. handles' = [handles EXCEPT ![f] = [handles[f] EXCEPT !.buf = b]]
  BY <1>2
<1>10. doc' = [doc EXCEPT ![f] = [doc[f] EXCEPT ![File] = d]]
  BY <1>2
<1> HIDE DEF b, d
<1>11. handles' \in Seq(Handles) /\ Len(handles') = Len(handles)
  <2>1. [handles[f] EXCEPT !.buf = b] \in Handles
    BY <1>2, <1>7, OpenedTypes DEF Handles
  <2>2. QED BY <1>2, <1>9, <2>1, OpenedTypes, FileReplaced
<1>12. doc' \in [Fids -> [Printers -> Docs]]
  <2>1. [doc[f] EXCEPT ![File] = d] \in [Printers -> Docs]
    BY <1>2, <1>8, OpenedTypes
  <2>2. QED BY <1>10, <2>1 DEF TypesInv
<1>13. QED BY <1>1, <1>5, <1>11, <1>12 DEF TypesInv, Jobs, Users, Fids

\* A job, appended to what was captured, names someone who has proved himself.
LEMMA JobsTypes ==
    ASSUME TypesInv, NEW jobs \in Seq(Jobs), captured' = captured \o jobs,
           Len(captured \o jobs) <= MaxJobs
    PROVE  captured' \in Seq(Jobs') /\ Len(captured') <= MaxJobs
<1>1. Jobs' = Jobs
  BY DEF Jobs, Users
<1>2. captured \in Seq(Jobs)
  BY DEF TypesInv
<1>3. captured \o jobs \in Seq(Jobs)
  BY <1>2
<1>4. QED BY <1>1, <1>3

\* What EndDocPrinter captures names no user.
LEMMA UnnamedJobs ==
    ASSUME NEW caught \in Seq(Kepts)
    PROVE  LET jobs == [i \in DOMAIN caught |-> Job(caught[i], "")]
           IN  /\ jobs \in Seq(Jobs) /\ Len(jobs) = Len(caught)
               /\ \A j \in 1..Len(jobs) : jobs[j].user = ""
<1> DEFINE jobs == [i \in 1..Len(caught) |-> Job(caught[i], "")]
<1>1. \A i \in 1..Len(caught) : caught[i] \in Kepts
  OBVIOUS
<1>2. \A i \in 1..Len(caught) : Job(caught[i], "") \in Jobs
  BY <1>1 DEF Job, Jobs
<1>3. jobs \in Seq(Jobs) /\ Len(jobs) = Len(caught)
  <2>1. jobs \in [1..Len(caught) -> Jobs]
    BY <1>2
  <2>2. Len(caught) \in Nat
    OBVIOUS
  <2> HIDE DEF jobs
  <2>3. QED BY <2>1, <2>2
<1>4. \A j \in 1..Len(caught) : jobs[j].user = ""
  BY DEF Job
<1>5. DOMAIN caught = 1..Len(caught)
  OBVIOUS
<1>6. QED BY <1>3, <1>4, <1>5

LEMMA CloseKeepsTypes ==
    ASSUME TypesInv, LoginInv, NEW f \in Fids, Close(f)
    PROVE  TypesInv'
<1> DEFINE h == handles[f]
           job == IF h.print /\ h.buf # <<>> THEN <<Job(h.buf, sess.user)>> ELSE <<>>
           n == [h EXCEPT !.open = FALSE, !.buf = <<>>, !.pipe = NewPipe, !.unread = 0]
<1>1. UNCHANGED <<cfg, conn, conns, trees, nextTree, nextFid, piece>>
  BY DEF Close, Command, Request
<1>2. /\ Command /\ Opened(f) /\ Len(captured \o job) <= MaxJobs
      /\ captured' = captured \o job
      /\ handles' = [handles EXCEPT ![f] = n]
      /\ finished' = IF h.print /\ doc[f][File].open
                     THEN Append(finished, doc[f][File].pieces) ELSE finished
      /\ doc' = [doc EXCEPT ![f] = NoDocs[f]]
      /\ call' = [call EXCEPT ![f] = NoCall]
  BY DEF Close
<1>3. h \in Handles /\ h.buf \in Kepts
  BY <1>2, OpenedTypes
<1>4. job \in Seq(Jobs)
  <2>1. sess.user \in Users \cup {""}
    BY <1>2 DEF Command, LoginInv, SessionInv
  <2>2. Job(h.buf, sess.user) \in Jobs
    BY <1>3, <2>1 DEF Job, Jobs
  <2>3. QED BY <2>2
<1>5. n \in Handles
  BY <1>3, EmptyKept, NewTypes DEF Handles
<1> HIDE DEF job, n
<1>6. captured' \in Seq(Jobs') /\ Len(captured') <= MaxJobs
  BY <1>2, <1>4, JobsTypes
<1>7. handles' \in Seq(Handles) /\ Len(handles') = Len(handles)
  BY <1>2, <1>5, OpenedTypes, FileReplaced
<1>8. finished' \in Seq(Seq(Nat))
  <2>1. doc[f][File] \in Docs
    BY <1>2, OpenedTypes, FileIsPrinter
  <2>2. doc[f][File].pieces \in Seq(Nat)
    BY <2>1 DEF Docs
  <2>3. QED BY <1>2, <2>2 DEF TypesInv
<1>9. doc' \in [Fids -> [Printers -> Docs]] /\ call' \in [Fids -> CallRecords]
  <2>1. NoDocs[f] \in [Printers -> Docs]
    BY NewTypes
  <2>2. QED BY <1>2, <2>1, NewTypes DEF TypesInv
<1>10. QED BY <1>1, <1>6, <1>7, <1>8, <1>9 DEF TypesInv, Fids

LEMMA ReadKeepsTypes ==
    ASSUME TypesInv, NEW f \in Fids, Read(f)
    PROVE  TypesInv'
<1>1. UNCHANGED <<cfg, conn, conns, trees, nextTree, nextFid, spooling>>
  BY DEF Read, Command, Request
<1>2. Opened(f) /\ handles' = [handles EXCEPT ![f] = [handles[f] EXCEPT !.unread = 0]]
  BY DEF Read
<1>3. [handles[f] EXCEPT !.unread = 0] \in Handles
  BY <1>2, OpenedTypes DEF Handles
<1>4. handles' \in Seq(Handles) /\ Len(handles') = Len(handles)
  BY <1>2, <1>3, OpenedTypes, FileReplaced
<1>5. QED BY <1>1, <1>4 DEF TypesInv, spooling, Jobs, Users, Fids

LEMMA HeardTypes ==
    ASSUME NEW c \in CallRecords, NEW docs \in [Printers -> Docs]
    PROVE  Heard(c, docs) \in [Printers -> Docs]
<1> DEFINE d == docs[c.printer]
           x == CASE c.op \in {"OpenPrinter", "ClosePrinter", "EndDoc"} -> NoDoc
                  [] c.op = "StartDoc" -> [open |-> TRUE, pieces |-> <<>>]
                  [] c.op = "WritePrinter" /\ d.open -> [d EXCEPT !.pieces = @ \o c.pieces]
                  [] OTHER -> d
<1>1. c.printer \in Printers /\ c.pieces \in Seq(Nat)
  BY DEF CallRecords
<1>2. d \in Docs
  BY <1>1
<1>3. [d EXCEPT !.pieces = @ \o c.pieces] \in Docs
  <2>1. d.pieces \o c.pieces \in Seq(Nat)
    BY <1>1, <1>2 DEF Docs
  <2>2. QED BY <1>2, <2>1 DEF Docs
<1>4. [open |-> TRUE, pieces |-> <<>>] \in Docs
  BY DEF Docs
<1> HIDE DEF d
<1>5. x \in Docs
  BY <1>2, <1>3, <1>4, NewTypes
<1>6. Heard(c, docs) = [docs EXCEPT ![c.printer] = x]
  BY DEF Heard, d
<1> HIDE DEF x
<1>7. QED BY <1>1, <1>5, <1>6

\* A fragment is written to a pipe.
LEMMA WritePipeKeepsTypes ==
    ASSUME TypesInv, LoginInv, NEW f \in Fids, NEW pdu \in Pdus, NEW c \in CallRecords,
           WritePipe(f, pdu, c), piece' \in 0..cfg.pieces
    PROVE  TypesInv'
<1> DEFINE r == OnWrite(handles[f].pipe, pdu)
           done == pdu.type = "request" /\ r.reply = "response"
           ended == c.op = "EndDoc" /\ done /\ doc[f][c.printer].open
           u == IF r.reply = "none" THEN handles[f].unread ELSE handles[f].unread + 1
           h == [[handles[f] EXCEPT !.pipe = r.pipe] EXCEPT !.unread = u]
           jobs == [i \in DOMAIN r.captured |-> Job(r.captured[i], "")]
<1>1. UNCHANGED <<cfg, conn, conns, trees, nextTree, nextFid>>
  BY DEF WritePipe, Command, Request
<1>2. /\ Opened(f) /\ Len(captured \o r.captured) <= MaxJobs
      /\ handles' = [handles EXCEPT ![f].pipe = r.pipe,
                                    ![f].unread = IF r.reply = "none" THEN @ ELSE @ + 1]
      /\ captured' = captured \o jobs
      /\ call' = [call EXCEPT ![f] = IF pdu.last THEN NoCall ELSE c]
      /\ doc' = IF done THEN [doc EXCEPT ![f] = Heard(c, @)] ELSE doc
      /\ finished' = IF ended THEN Append(finished, doc[f][c.printer].pieces) ELSE finished
  BY DEF WritePipe
<1>3. /\ f \in 1..Len(handles) /\ handles[f] \in Handles /\ handles[f].pipe \in Pipes
      /\ handles[f].unread \in Nat /\ doc[f] \in [Printers -> Docs]
  BY <1>2, OpenedTypes
<1>4. r.pipe \in Pipes /\ r.captured \in Seq(Kepts)
  BY <1>3, OnWriteTypes
<1>5. u \in Nat
  BY <1>3
<1>6. handles' = [handles EXCEPT ![f] = h]
  BY <1>2, <1>3 DEF TypesInv, Handles
<1>7. h \in Handles
  <2> DEFINE hf == handles[f]
             p == r.pipe
  <2>1. hf \in Handles /\ p \in Pipes
    BY <1>3, <1>4
  <2> HIDE DEF hf, p, u
  <2>2. [[hf EXCEPT !.pipe = p] EXCEPT !.unread = u] \in Handles
    BY <1>5, <2>1 DEF Handles
  <2>3. QED BY <2>2 DEF hf, p
<1>8. jobs \in Seq(Jobs) /\ Len(jobs) = Len(r.captured)
  BY <1>4, UnnamedJobs
<1> HIDE DEF r, h, jobs
<1>9. handles' \in Seq(Handles) /\ Len(handles') = Len(handles)
  BY <1>3, <1>6, <1>7, FileReplaced
<1>10. captured' \in Seq(Jobs') /\ Len(captured') <= MaxJobs
  <2>1. captured \in Seq(Jobs) /\ r.captured \in Seq(Kepts)
    BY <1>4 DEF TypesInv
  <2>2. Len(captured \o jobs) = Len(captured \o r.captured)
    BY <1>8, <2>1
  <2>3. Len(captured \o jobs) <= MaxJobs
    BY <1>2, <2>2
  <2>4. QED BY <1>2, <1>8, <2>3, JobsTypes
<1>11. call' \in [Fids -> CallRecords]
  BY <1>2, NewTypes DEF TypesInv
<1>12. doc' \in [Fids -> [Printers -> Docs]]
  BY <1>2, <1>3, HeardTypes DEF TypesInv
<1>13. finished' \in Seq(Seq(Nat))
  <2>1. c.printer \in Printers
    BY DEF CallRecords
  <2>2. doc[f][c.printer] \in Docs
    BY <1>3, <2>1
  <2>3. doc[f][c.printer].pieces \in Seq(Nat)
    BY <2>2 DEF Docs
  <2>4. QED BY <1>2, <2>3 DEF TypesInv
<1>14. QED BY <1>1, <1>9, <1>10, <1>11, <1>12, <1>13 DEF TypesInv, Fids

\* The parts a client sends its requests in.
LEMMA PduTypes ==
    ASSUME NEW type \in {"request", "bind", "other"}, NEW first \in BOOLEAN, NEW last \in BOOLEAN,
           NEW op \in OpNames, NEW n \in Nat
    PROVE  Pdu(type, first, last, op, n) \in Pdus
BY DEF Pdu, Pdus, Parts

\* The number of the piece a WritePrinter carries, and of the last one after it.
LEMMA PieceTypes ==
    ASSUME TypesInv, LoginInv, NEW op, op = "WritePrinter" => piece < cfg.pieces
    PROVE  LET n == IF op = "WritePrinter" THEN piece + 1 ELSE 0
           IN  n \in Nat /\ (IF n # 0 THEN n ELSE piece) \in 0..cfg.pieces
<1>1. cfg.pieces \in Nat
  BY SmbAssumption DEF LoginInv, SessionInv
<1>2. piece \in 0..cfg.pieces
  BY DEF TypesInv
<1>3. QED BY <1>1, <1>2

\* How a fragment goes with the request c the client makes of it: it starts one,
\* or goes on with the one the file is at; a BIND is not part of any.
Goes(pdu, k, c) ==
    /\ pdu.type = "request" /\ pdu.first =>
         /\ c.op = pdu.op
         /\ pdu.part.op = "WritePrinter" => c.pieces = <<pdu.part.piece>>
    /\ pdu.type = "request" /\ ~pdu.first =>
         /\ c.op = k.op
         /\ pdu.part.op = "WritePrinter" => c.pieces = Append(k.pieces, pdu.part.piece)
    /\ pdu.type # "request" => c = k /\ ~pdu.last

LEMMA CallsWrite ==
    ASSUME TypesInv, LoginInv, NEW f \in Fids, NEW op \in Ops, NEW q \in Printers,
           NEW last \in BOOLEAN, Calls(f, q, op, last)
    PROVE  /\ piece' \in 0..cfg.pieces
           /\ \E pdu \in Pdus, c \in CallRecords : WritePipe(f, pdu, c) /\ Goes(pdu, call[f], c)
<1> DEFINE n == IF op = "WritePrinter" THEN piece + 1 ELSE 0
           c == [op |-> op, printer |-> q, pieces |-> IF n # 0 THEN <<n>> ELSE <<>>]
           pdu == Pdu("request", TRUE, last, op, n)
<1>1. /\ op = "WritePrinter" => piece < cfg.pieces
      /\ piece' = IF n # 0 THEN n ELSE piece
      /\ WritePipe(f, pdu, c)
  BY DEF Calls
<1>2. n \in Nat /\ (IF n # 0 THEN n ELSE piece) \in 0..cfg.pieces
  BY <1>1, PieceTypes
<1>3. piece' \in 0..cfg.pieces
  BY <1>1, <1>2
<1>4. op = "WritePrinter" => n # 0
  BY DEF TypesInv
<1> HIDE DEF n
<1>5. pdu \in Pdus
  <2>1. op \in OpNames
    BY DEF OpNames
  <2>2. QED BY <1>2, <2>1, PduTypes
<1>6. c \in CallRecords
  BY <1>2 DEF CallRecords, OpNames
<1>7. Goes(pdu, call[f], c)
  BY <1>4 DEF Goes, Pdu
<1> HIDE DEF pdu, c
<1>8. QED BY <1>1, <1>3, <1>5, <1>6, <1>7

LEMMA ContinuesWrites ==
    ASSUME TypesInv, LoginInv, NEW f \in Fids, NEW op \in {call[f].op, "other"},
           NEW last \in BOOLEAN, Continues(f, op, last)
    PROVE  /\ piece' \in 0..cfg.pieces
           /\ \E pdu \in Pdus, c \in CallRecords : WritePipe(f, pdu, c) /\ Goes(pdu, call[f], c)
<1> DEFINE n == IF op = "WritePrinter" THEN piece + 1 ELSE 0
           c == [call[f] EXCEPT !.pieces = IF n # 0 THEN Append(@, n) ELSE @]
           pdu == Pdu("request", FALSE, last, op, n)
<1>1. /\ op = "WritePrinter" => piece < cfg.pieces
      /\ piece' = IF n # 0 THEN n ELSE piece
      /\ WritePipe(f, pdu, c)
  BY DEF Continues
<1>2. n \in Nat /\ (IF n # 0 THEN n ELSE piece) \in 0..cfg.pieces
  BY <1>1, PieceTypes
<1>3. piece' \in 0..cfg.pieces
  BY <1>1, <1>2
<1>4. op = "WritePrinter" => n # 0
  BY DEF TypesInv
<1> HIDE DEF n
<1>5. call[f] \in CallRecords
  BY DEF TypesInv
<1>6. pdu \in Pdus
  <2>1. op \in OpNames
    BY <1>5 DEF OpNames, Ops, CallRecords
  <2>2. QED BY <1>2, <2>1, PduTypes
<1>7. c \in CallRecords
  <2>1. Append(call[f].pieces, n) \in Seq(Nat)
    BY <1>2, <1>5 DEF CallRecords
  <2>2. QED BY <1>5, <2>1 DEF CallRecords
<1>8. Goes(pdu, call[f], c)
  BY <1>4, <1>5 DEF Goes, Pdu, CallRecords
<1> HIDE DEF pdu, c
<1>9. QED BY <1>1, <1>3, <1>6, <1>7, <1>8

LEMMA BindsWrites ==
    ASSUME TypesInv, LoginInv, NEW f \in Fids, NEW type \in {"bind", "other"}, Binds(f, type)
    PROVE  /\ piece' \in 0..cfg.pieces
           /\ \E pdu \in Pdus, c \in CallRecords : WritePipe(f, pdu, c) /\ Goes(pdu, call[f], c)
<1> DEFINE pdu == Pdu(type, TRUE, FALSE, "other", 0)
<1>1. piece' = piece /\ WritePipe(f, pdu, call[f])
  BY DEF Binds
<1>2. piece' \in 0..cfg.pieces /\ call[f] \in CallRecords
  BY <1>1 DEF TypesInv
<1>3. pdu \in Pdus
  BY PduTypes DEF OpNames, Ops
<1>4. Goes(pdu, call[f], call[f])
  BY DEF Goes, Pdu
<1> HIDE DEF pdu
<1>5. QED BY <1>1, <1>2, <1>3, <1>4

\* The steps on trees and files, one by one, with fragments as such.
LEMMA SpoolStepSplit ==
    ASSUME TypesInv, LoginInv, SpoolStep
    PROVE  \/ \E share : TreeConnect(share)
           \/ \E tree : TreeDisconnect(tree)
           \/ \E tree, name : Create(tree, name)
           \/ Ineffective
           \/ \E f \in Fids : WriteSpool(f)
           \/ \E f \in Fids : Close(f)
           \/ \E f \in Fids : Read(f)
           \/ /\ piece' \in 0..cfg.pieces
              /\ \E f \in Fids, pdu \in Pdus, c \in CallRecords :
                    WritePipe(f, pdu, c) /\ Goes(pdu, call[f], c)
<1> DEFINE Pipe(f) ==
      /\ piece' \in 0..cfg.pieces
      /\ \E pdu \in Pdus, c \in CallRecords : WritePipe(f, pdu, c) /\ Goes(pdu, call[f], c)
<1>1. ASSUME NEW f \in Fids, NEW type \in {"bind", "other"}, Binds(f, type) PROVE Pipe(f)
  BY <1>1, BindsWrites
<1>2. ASSUME NEW f \in Fids, NEW last \in BOOLEAN, NEW op \in {call[f].op, "other"},
             Continues(f, op, last)
      PROVE  Pipe(f)
  BY <1>2, ContinuesWrites
<1>3. ASSUME NEW f \in Fids, NEW last \in BOOLEAN, NEW op \in Ops, NEW q \in Printers,
             Calls(f, q, op, last)
      PROVE  Pipe(f)
  BY <1>3, CallsWrite
<1> HIDE DEF Pipe
<1>4. \/ \E share : TreeConnect(share)
      \/ \E tree : TreeDisconnect(tree)
      \/ \E tree, name : Create(tree, name)
      \/ Ineffective
      \/ \E f \in Fids : WriteSpool(f)
      \/ \E f \in Fids : Close(f)
      \/ \E f \in Fids : Read(f)
      \/ \E f \in Fids : Pipe(f)
  BY <1>1, <1>2, <1>3 DEF SpoolStep
<1>5. QED BY <1>4 DEF Pipe

LEMMA InitTypes == Init => TypesInv
<1> SUFFICES ASSUME Init PROVE TypesInv
  OBVIOUS
<1>1. cfg.pieces \in Nat /\ MaxConns \in Nat /\ MaxTrees \in Nat /\ MaxFids \in Nat /\ MaxJobs \in Nat
  BY SmbAssumption DEF Init
<1>2. <<>> \in Seq(Handles) /\ <<>> \in Seq(Jobs) /\ <<>> \in Seq(Seq(Nat))
      /\ Len(<<>>) = 0 /\ DOMAIN <<>> = {}
  OBVIOUS
<1>3. call \in [Fids -> CallRecords] /\ doc \in [Fids -> [Printers -> Docs]]
  BY NewTypes DEF Init
<1>4. QED BY <1>1, <1>2, <1>3 DEF Init, TypesInv

LEMMA NextTypes == TypesInv /\ LoginInv /\ [Next]_vars => TypesInv'
<1> SUFFICES ASSUME TypesInv, LoginInv, [Next]_vars PROVE TypesInv'
  OBVIOUS
<1>1. CASE SetupStep
  BY <1>1, SetupKeepsTypes
<1>2. CASE SpoolStep
  <2>1. CASE Ineffective
    BY <2>1 DEF Ineffective, Command, Request, server, peer, spooling, TypesInv, Fids, Jobs, Users
  <2>2. ASSUME NEW f \in Fids, WriteSpool(f) \/ Close(f) \/ Read(f) PROVE TypesInv'
    BY <2>2, WriteSpoolKeepsTypes, CloseKeepsTypes, ReadKeepsTypes
  <2>3. QED BY <1>2, <2>1, <2>2, SpoolStepSplit, TreesKeepTypes, CreateKeepsTypes,
           WritePipeKeepsTypes
<1>3. CASE Gone
  BY <1>3 DEF Gone, server, peer, spooling, TypesInv, Fids, Jobs, Users
<1>4. CASE UNCHANGED vars
  BY <1>4 DEF vars, server, peer, spooling, TypesInv, Fids, Jobs, Users
<1>5. QED BY <1>1, <1>2, <1>3, <1>4, NextSplit

LEMMA Invariance == Spec => [](LoginInv /\ TypesInv)
<1>1. Init => LoginInv /\ TypesInv
  BY InitLogin, InitTypes
<1>2. LoginInv /\ TypesInv /\ [Next]_vars => (LoginInv /\ TypesInv)'
  BY NextLogin, NextTypes
<1>3. QED BY <1>1, <1>2, PTL DEF Spec

\* The types hold, and with them: who is authenticated has keys, nothing is
\* open without a session that is, and no buffer outgrows the cap.
\* (smbSession, appendCapped)
THEOREM TypeCorrect == Spec => []TypeOK
<1>1. LoginInv /\ TypesInv => TypeOK
  <2> SUFFICES ASSUME LoginInv, TypesInv PROVE TypeOK
    OBVIOUS
  <2>1. MaxTrees \in Nat /\ MaxFids \in Nat
    BY SmbAssumption
  <2>2. nextTree <= MaxTrees /\ nextFid <= MaxFids
    BY <2>1 DEF TypesInv
  <2>3. ASSUME NEW f \in DOMAIN handles
        PROVE  Len(handles[f].buf) <= Cap /\ Len(handles[f].pipe.spool.buf) <= Cap
    <3>1. handles \in Seq(Handles)
      BY DEF TypesInv
    <3>2. handles[f] \in Handles
      BY <3>1
    <3>3. handles[f].buf \in Kepts /\ handles[f].pipe.spool.buf \in Kepts
      BY <3>2 DEF Handles, Pipes, Spools
    <3>4. QED BY <3>3, KeptIsSeq
  <2>4. sess # NoSession => (sess.auth => sess.keys # NoKeys) /\ (sess.guest => sess.auth)
    BY DEF LoginInv, SessionInv
  <2>5. (sess = NoSession \/ ~sess.auth) => trees = <<>> /\ handles = <<>>
    BY DEF LoginInv, SessionInv
  <2>6. cfg \in Configs
    BY DEF LoginInv, SessionInv
  <2>7. QED BY <2>2, <2>3, <2>4, <2>5, <2>6 DEF TypeOK, TypesInv
<1>2. QED BY <1>1, Invariance, PTL

-----------------------------------------------------------------------------
(* Whose jobs are captured *)

\* A new job is one of those appended.
LEMMA NewJobIsOne ==
    ASSUME TypesInv, NEW jobs \in Seq(Jobs), captured' = captured \o jobs,
           NEW i \in DOMAIN captured' \ DOMAIN captured
    PROVE  \E j \in 1..Len(jobs) : captured'[i] = jobs[j]
<1>1. captured \in Seq(Jobs) /\ Len(captured) \in Nat /\ Len(jobs) \in Nat
  BY DEF TypesInv
<1>2. DOMAIN captured = 1..Len(captured) /\ DOMAIN (captured \o jobs) = 1..(Len(captured) + Len(jobs))
  BY <1>1
<1>3. i \in 1..(Len(captured) + Len(jobs)) /\ i \notin 1..Len(captured)
  BY <1>2
<1>4. i - Len(captured) \in 1..Len(jobs)
  BY <1>1, <1>3
<1>5. (captured \o jobs)[i] = jobs[i - Len(captured)]
  BY <1>1, <1>3
<1>6. QED BY <1>4, <1>5

\* Behind RequireAuth a job is captured only for a client that has proved a
\* password to the session it prints in; and the user a job names has proved
\* his.  (handleSMBConn, handleClose)
THEOREM JobsHaveTheirUsers == Spec => JobsAreAttributed
<1> DEFINE A == \A i \in DOMAIN captured' \ DOMAIN captured:
                    /\ cfg.requireAuth => proved # {}
                    /\ captured'[i].user \in proved \cup {""}
<1>1. ASSUME LoginInv, TypesInv, [Next]_vars PROVE A
  <2>1. captured' = captured => A
    OBVIOUS
  <2>2. ASSUME Command, NEW jobs \in Seq(Jobs), captured' = captured \o jobs,
               \A j \in 1..Len(jobs) : jobs[j].user \in {"", sess.user}
        PROVE  A
    <3>1. ASSUME NEW i \in DOMAIN captured' \ DOMAIN captured
          PROVE  captured'[i].user \in {"", sess.user}
      BY <1>1, <2>2, NewJobIsOne
    <3>2. (cfg.requireAuth => proved # {}) /\ sess.user \in proved \cup {""}
      BY <1>1, <2>2 DEF Command, LoginInv, SessionInv
    <3>3. QED BY <3>1, <3>2
  <2>3. ASSUME NEW f \in Fids, Close(f) PROVE A
    <3> DEFINE h == handles[f]
               job == IF h.print /\ h.buf # <<>> THEN <<Job(h.buf, sess.user)>> ELSE <<>>
    <3>1. Command /\ Opened(f) /\ captured' = captured \o job
      BY <2>3 DEF Close
    <3>2. h.buf \in Kepts
      BY <1>1, <3>1, OpenedTypes
    <3>3. sess.user \in Users \cup {""}
      BY <1>1, <3>1 DEF Command, LoginInv, SessionInv
    <3>4. Job(h.buf, sess.user) \in Jobs /\ Job(h.buf, sess.user).user = sess.user
      BY <3>2, <3>3 DEF Job, Jobs
    <3>5. job \in Seq(Jobs) /\ \A j \in 1..Len(job) : job[j].user \in {"", sess.user}
      <4> DEFINE j0 == Job(h.buf, sess.user)
      <4>1. j0 \in Jobs /\ j0.user = sess.user
        BY <3>4
      <4>2. job = <<j0>> \/ job = <<>>
        OBVIOUS
      <4> HIDE DEF j0, job
      <4>3. <<j0>> \in Seq(Jobs) /\ Len(<<j0>>) = 1 /\ <<j0>>[1] = j0
        BY <4>1
      <4>4. \A j \in 1..Len(<<j0>>) : <<j0>>[j] = j0
        BY <4>3
      <4>5. CASE job = <<j0>>
        BY <4>1, <4>3, <4>4, <4>5
      <4>6. CASE job = <<>>
        BY <4>6
      <4>7. QED BY <4>2, <4>5, <4>6
    <3> HIDE DEF job
    <3>6. QED BY <2>2, <3>1, <3>5
  <2>4. ASSUME NEW f \in Fids, NEW pdu \in Pdus, NEW c \in CallRecords, WritePipe(f, pdu, c)
        PROVE  A
    <3> DEFINE caught == OnWrite(handles[f].pipe, pdu).captured
               jobs == [i \in DOMAIN caught |-> Job(caught[i], "")]
    <3>1. Command /\ Opened(f) /\ captured' = captured \o jobs
      BY <2>4 DEF WritePipe
    <3>2. caught \in Seq(Kepts)
      BY <1>1, <3>1, OpenedTypes, OnWriteTypes
    <3> HIDE DEF caught
    <3>3. jobs \in Seq(Jobs) /\ \A j \in 1..Len(jobs) : jobs[j].user = ""
      BY <3>2, UnnamedJobs
    <3> HIDE DEF jobs
    <3>4. QED BY <2>2, <3>1, <3>3
  <2>5. SetupStep => captured' = captured
    BY DEF SetupStep, Connect, Leg1, Leg2, BadSetup, Negotiate, unspooled, spooling
  <2>6. Gone \/ UNCHANGED vars => captured' = captured
    BY DEF Gone, spooling, vars
  <2>7. ASSUME NEW share, NEW tree, NEW name, NEW f,
               \/ TreeConnect(share) \/ TreeDisconnect(tree) \/ Create(tree, name)
               \/ Ineffective \/ WriteSpool(f) \/ Read(f)
        PROVE  captured' = captured
    BY <2>7 DEF TreeConnect, TreeDisconnect, Create, Ineffective, WriteSpool, Read, spooling
  <2> HIDE DEF A
  <2>8. CASE SpoolStep
    BY <1>1, <2>1, <2>3, <2>4, <2>7, <2>8, SpoolStepSplit
  <2>9. QED BY <1>1, <2>1, <2>5, <2>6, <2>8, NextSplit
<1>2. LoginInv /\ TypesInv /\ [Next]_vars => [A]_vars
  BY <1>1
<1>3. Spec => [][A]_vars
  BY <1>2, Invariance, PTL DEF Spec
<1>4. QED BY <1>3 DEF JobsAreAttributed

-----------------------------------------------------------------------------
(* What becomes of a document *)

\* The client opens one printer over a pipe, as those do that the server is
\* written for.
OnePrinter == Printers = {File}

LEMMA KeptOf ==
    ASSUME NEW a \in Seq(Nat)
    PROVE  Kept(a) = IF Len(a) <= Cap THEN a ELSE SubSeq(a, 1, Cap)
<1>1. <<>> \o a = a
  BY ConcatEmptySeq
<1>2. QED BY <1>1 DEF Kept, AppendCapped

LEMMA KeptOfNothing == Kept(<<>>) = <<>>
<1>1. <<>> \in Seq(Nat) /\ Len(<<>>) = 0
  OBVIOUS
<1>2. Len(<<>>) <= Cap
  BY <1>1, SpoolssAssumption
<1>3. QED BY <1>1, <1>2, KeptOf

\* What is kept of two parts one after the other is what is kept of both.
LEMMA KeptInParts ==
    ASSUME NEW a \in Seq(Nat), NEW b \in Seq(Nat)
    PROVE  AppendCapped(Kept(a), b) = Kept(a \o b)
<1>1. Cap \in Nat /\ Cap >= 1
  BY SpoolssAssumption
<1>2. a \o b \in Seq(Nat) /\ Len(a \o b) = Len(a) + Len(b) /\ Len(a) \in Nat /\ Len(b) \in Nat
  OBVIOUS
<1>3. CASE Len(a) <= Cap
  <2>1. Kept(a) = a
    BY <1>3, KeptOf
  <2>2. Kept(a \o b) = IF Len(a \o b) <= Cap THEN a \o b ELSE SubSeq(a \o b, 1, Cap)
    BY <1>2, KeptOf
  <2>3. QED BY <2>1, <2>2 DEF AppendCapped
<1>4. CASE ~(Len(a) <= Cap)
  <2> DEFINE k == SubSeq(a, 1, Cap)
  <2>1. k \in Seq(Nat) /\ Len(k) = Cap
    BY <1>1, <1>2, <1>4, SubSeqProperties
  <2>2. Kept(a) = k
    BY <1>4, KeptOf
  <2>3. Kept(a \o b) = k
    <3>1. Kept(a \o b) = SubSeq(a \o b, 1, Cap)
      <4>1. ~(Len(a \o b) <= Cap)
        BY <1>1, <1>2, <1>4
      <4>2. QED BY <1>2, <4>1, KeptOf
    <3>2. 1 \in 1..Len(a) /\ Cap \in 1..Len(a)
      BY <1>1, <1>2, <1>4
    <3>3. SubSeq(a \o b, 1, Cap) = SubSeq(a, 1, Cap)
      BY <3>2, SubSeqOfConcat1
    <3>4. QED BY <3>1, <3>3
  <2> HIDE DEF k
  <2>4. AppendCapped(k, b) = k
    <3>1. Len(k \o b) = Cap + Len(b)
      BY <2>1, ConcatProperties
    <3>2. CASE Len(b) = 0
      <4>1. b = <<>>
        BY <3>2
      <4>2. k \o b = k
        BY <2>1, <4>1, ConcatEmptySeq
      <4>3. QED BY <2>1, <4>2, <1>1 DEF AppendCapped
    <3>3. CASE Len(b) # 0
      <4>1. ~(Len(k \o b) <= Cap)
        BY <1>1, <1>2, <3>1, <3>3
      <4>2. 1 \in 1..Len(k) /\ Cap \in 1..Len(k)
        BY <1>1, <2>1
      <4>3. SubSeq(k \o b, 1, Cap) = SubSeq(k, 1, Cap)
        BY <2>1, <4>2, SubSeqOfConcat1
      <4>4. SubSeq(k, 1, Cap) = k
        BY <2>1, SubSeqFull
      <4>5. QED BY <4>1, <4>3, <4>4 DEF AppendCapped
    <3>4. QED BY <3>2, <3>3
  <2>5. QED BY <2>2, <2>3, <2>4
<1>5. QED BY <1>3, <1>4

\* The pipe of a file, the request k its client is at and the document d the
\* client takes it to be in: the spool holds what is to be kept of d, and the
\* parts collected are those of k.
PipeMatches(pipe, k, d) ==
    /\ pipe.spool.open <=> d.open
    /\ d.open => pipe.spool.buf = Kept(d.pieces)
    /\ pipe.reasm.active =>
         /\ pipe.reasm.op = k.op
         /\ WellFormed("WritePrinter", pipe.reasm.parts) => Pieces(pipe.reasm.parts) = k.pieces

\* What the client makes of the success of a call, for its one printer.
HeardOfOne(c, d) ==
    CASE c.op \in {"OpenPrinter", "ClosePrinter", "EndDoc"} -> NoDoc
      [] c.op = "StartDoc" -> [open |-> TRUE, pieces |-> <<>>]
      [] c.op = "WritePrinter" /\ d.open -> [d EXCEPT !.pieces = @ \o c.pieces]
      [] OTHER -> d

\* A part is collected into the request the client makes.
LEMMA CollectedMatches ==
    ASSUME NEW pipe \in Pipes, NEW k \in CallRecords, NEW d \in Docs, PipeMatches(pipe, k, d),
           NEW pdu \in Pdus, NEW c \in CallRecords, Goes(pdu, k, c), pdu.type = "request",
           pdu.first \/ pipe.reasm.active
    PROVE  LET reasm == Collected(pipe.reasm, pdu)
           IN  /\ reasm.op = c.op
               /\ WellFormed("WritePrinter", reasm.parts) => Pieces(reasm.parts) = c.pieces
<1> DEFINE reasm == Collected(pipe.reasm, pdu)
           part == pdu.part
<1>1. part \in Parts
  BY DEF Pdus
<1>2. CASE pdu.first
  <2>1. reasm = [active |-> TRUE, op |-> pdu.op, parts |-> <<part>>]
    BY <1>2 DEF Collected
  <2>2. reasm.op = c.op
    BY <1>2, <2>1 DEF Goes
  <2>3. ASSUME WellFormed("WritePrinter", <<part>>) PROVE Pieces(<<part>>) = c.pieces
    <3>1. part.op = "WritePrinter"
      BY <2>3 DEF WellFormed
    <3>2. c.pieces = <<part.piece>>
      BY <1>2, <3>1 DEF Goes
    <3>3. Pieces(<<part>>) = <<part.piece>>
      BY DEF Pieces
    <3>4. QED BY <3>2, <3>3
  <2>4. QED BY <2>1, <2>2, <2>3
<1>3. CASE ~pdu.first
  <2> DEFINE parts == pipe.reasm.parts
  <2>1. parts \in Seq(Parts) /\ "parts" \in DOMAIN pipe.reasm /\ "op" \in DOMAIN pipe.reasm
    BY DEF Pipes, Reasms
  <2>2. reasm = [pipe.reasm EXCEPT !.parts = Append(@, part)]
    BY <1>3 DEF Collected
  <2>3. reasm.op = pipe.reasm.op /\ reasm.parts = Append(parts, part)
    BY <2>1, <2>2
  <2>4. reasm.op = c.op
    BY <1>3, <2>3 DEF PipeMatches, Goes
  <2> HIDE DEF reasm, part, parts
  <2>5. ASSUME WellFormed("WritePrinter", Append(parts, part))
        PROVE  Pieces(Append(parts, part)) = c.pieces
    <3>1. \A i \in DOMAIN Append(parts, part) : Append(parts, part)[i].op = "WritePrinter"
      BY <2>5 DEF WellFormed
    <3>2. Len(parts) \in Nat /\ DOMAIN Append(parts, part) = 1..(Len(parts) + 1)
          /\ DOMAIN parts = 1..Len(parts)
      BY <1>1, <2>1
    <3>3. \A i \in 1..(Len(parts) + 1) :
              Append(parts, part)[i] = IF i = Len(parts) + 1 THEN part ELSE parts[i]
      BY <1>1, <2>1
    <3>4. part.op = "WritePrinter"
      <4>1. Len(parts) + 1 \in 1..(Len(parts) + 1)
        BY <3>2
      <4>2. QED BY <3>1, <3>2, <3>3, <4>1
    <3>5. WellFormed("WritePrinter", parts)
      <4>1. \A i \in 1..Len(parts) : i \in 1..(Len(parts) + 1) /\ i # Len(parts) + 1
        BY <3>2
      <4>2. \A i \in DOMAIN parts : parts[i].op = "WritePrinter"
        BY <3>1, <3>2, <3>3, <4>1
      <4>3. QED BY <4>2 DEF WellFormed
    <3>6. Pieces(parts) = k.pieces
      BY <1>3, <3>5 DEF PipeMatches, parts
    <3>7. c.pieces = Append(k.pieces, part.piece)
      BY <1>3, <3>4 DEF Goes, part
    <3>8. Pieces(Append(parts, part)) = Append(Pieces(parts), part.piece)
      <4> DEFINE x == Pieces(Append(parts, part))
                 y == Append(Pieces(parts), part.piece)
      <4>1. Append(parts, part) \in Seq(Parts) /\ part.piece \in Nat
        BY <1>1, <2>1 DEF Parts
      <4>2. x \in Seq(Nat) /\ Len(x) = Len(parts) + 1
        <5> DEFINE more == Append(parts, part)
        <5>1. more \in Seq(Parts) /\ Len(more) = Len(parts) + 1
          BY <1>1, <2>1
        <5> HIDE DEF more
        <5>2. Pieces(more) \in Seq(Nat) /\ Len(Pieces(more)) = Len(parts) + 1
          BY <5>1, PiecesTypes
        <5>3. QED BY <5>2 DEF more
      <4>3. Pieces(parts) \in Seq(Nat) /\ Len(Pieces(parts)) = Len(parts)
        BY <2>1, PiecesTypes
      <4>4. y \in Seq(Nat) /\ Len(y) = Len(parts) + 1
        BY <4>1, <4>3
      <4>5. \A i \in 1..Len(parts) : Pieces(parts)[i] = parts[i].piece
        BY <3>2 DEF Pieces
      <4>6. \A i \in 1..(Len(parts) + 1) : x[i] = Append(parts, part)[i].piece
        BY <3>2 DEF Pieces
      <4>7. \A i \in 1..(Len(parts) + 1) :
                y[i] = IF i = Len(parts) + 1 THEN part.piece ELSE Pieces(parts)[i]
        BY <4>1, <4>3
      <4>8. \A i \in 1..(Len(parts) + 1) : i # Len(parts) + 1 => i \in 1..Len(parts)
        BY <3>2
      <4>9. \A i \in 1..(Len(parts) + 1) : x[i] = y[i]
        BY <3>3, <4>5, <4>6, <4>7, <4>8
      <4> HIDE DEF x, y
      <4>10. x = y
        BY <4>2, <4>4, <4>9, SeqEqual
      <4>11. QED BY <4>10 DEF x, y
    <3>9. QED BY <3>6, <3>7, <3>8
  <2>6. QED BY <2>3, <2>4, <2>5 DEF reasm
<1>4. QED BY <1>2, <1>3

\* A call that succeeds does to the spool what the client takes it to do to its
\* document, and captures what is kept of one that ends; a call that fails does
\* nothing.
LEMMA DispatchMatches ==
    ASSUME NEW spool \in Spools, NEW d \in Docs,
           spool.open <=> d.open, d.open => spool.buf = Kept(d.pieces),
           NEW c \in CallRecords, NEW stub \in Seq(Parts),
           WellFormed("WritePrinter", stub) => Pieces(stub) = c.pieces
    PROVE  LET a == Dispatch(spool, c.op, stub)
               e == IF a.ok THEN HeardOfOne(c, d) ELSE d
           IN  /\ a.spool.open <=> e.open
               /\ e.open => a.spool.buf = Kept(e.pieces)
               /\ a.captured = IF c.op = "EndDoc" /\ a.ok /\ d.open
                               THEN <<Kept(d.pieces)>> ELSE <<>>
<1> DEFINE a == Dispatch(spool, c.op, stub)
           e == IF a.ok THEN HeardOfOne(c, d) ELSE d
           Goal == /\ a.spool.open <=> e.open
                   /\ e.open => a.spool.buf = Kept(e.pieces)
                   /\ a.captured = IF c.op = "EndDoc" /\ a.ok /\ d.open
                                   THEN <<Kept(d.pieces)>> ELSE <<>>
<1> SUFFICES Goal
  OBVIOUS
<1>1. \A x : Answered(x).spool = x /\ Answered(x).ok = TRUE /\ Answered(x).captured = <<>>
  BY DEF Answered
<1>2. NewSpool.open = FALSE /\ NoDoc.open = FALSE
  BY DEF NewSpool, NoDoc
<1>3. CASE ~WellFormed(c.op, stub)
  <2>1. a = [Answered(spool) EXCEPT !.ok = FALSE]
    BY <1>3 DEF Dispatch
  <2>2. a.spool = spool /\ a.ok = FALSE /\ a.captured = <<>>
    BY <2>1 DEF Answered
  <2> HIDE DEF a
  <2>3. QED BY <2>2
<1>4. CASE WellFormed(c.op, stub) /\ c.op \in {"OpenPrinter", "ClosePrinter"}
  <2>1. a = Answered(NewSpool)
    BY <1>4 DEF Dispatch, OpenPrinter, ClosePrinter
  <2>2. a.spool = NewSpool /\ a.ok = TRUE /\ a.captured = <<>>
    BY <1>1, <2>1
  <2>3. HeardOfOne(c, d) = NoDoc
    BY <1>4 DEF HeardOfOne
  <2> HIDE DEF a
  <2>4. QED BY <1>2, <1>4, <2>2, <2>3
<1>5. CASE WellFormed(c.op, stub) /\ c.op = "StartDoc"
  <2> DEFINE started == [open |-> TRUE, buf |-> <<>>]
             begun == [open |-> TRUE, pieces |-> <<>>]
  <2>1. a = Answered(started)
    BY <1>5 DEF Dispatch, StartDocPrinter
  <2>2. a.spool = started /\ a.ok = TRUE /\ a.captured = <<>>
    BY <1>1, <2>1
  <2>3. HeardOfOne(c, d) = begun
    BY <1>5 DEF HeardOfOne
  <2>4. started.open = TRUE /\ started.buf = <<>> /\ begun.open = TRUE /\ begun.pieces = <<>>
    OBVIOUS
  <2> HIDE DEF a, started, begun
  <2>5. QED BY <1>5, <2>2, <2>3, <2>4, KeptOfNothing
<1>6. CASE WellFormed(c.op, stub) /\ c.op = "WritePrinter"
  <2> DEFINE more == [spool EXCEPT !.buf = AppendCapped(@, Pieces(stub))]
             longer == [d EXCEPT !.pieces = @ \o c.pieces]
  <2>1. a = Answered(more)
    BY <1>6 DEF Dispatch, WritePrinter
  <2>2. a.spool = more /\ a.ok = TRUE /\ a.captured = <<>>
    BY <1>1, <2>1
  <2>3. HeardOfOne(c, d) = IF d.open THEN longer ELSE d
    BY <1>6 DEF HeardOfOne
  <2>4. more.open = spool.open /\ more.buf = AppendCapped(spool.buf, Pieces(stub))
    BY DEF Spools
  <2>5. longer.open = d.open /\ longer.pieces = d.pieces \o c.pieces
    BY DEF Docs
  <2>6. Pieces(stub) = c.pieces
    BY <1>6
  <2>7. d.pieces \in Seq(Nat) /\ c.pieces \in Seq(Nat)
    BY DEF Docs, CallRecords
  <2>8. d.open => more.buf = Kept(longer.pieces)
    BY <2>4, <2>5, <2>6, <2>7, KeptInParts
  <2> HIDE DEF a, more, longer
  <2>9. QED BY <1>6, <2>2, <2>3, <2>4, <2>5, <2>8
<1>7. CASE WellFormed(c.op, stub) /\ c.op = "EndDoc"
  <2>1. a = EndDocPrinter(spool)
    BY <1>7 DEF Dispatch
  <2>2. HeardOfOne(c, d) = NoDoc
    BY <1>7 DEF HeardOfOne
  <2>3. CASE spool.open
    <3>1. a = [Answered(NewSpool) EXCEPT !.captured = <<spool.buf>>]
      BY <2>1, <2>3 DEF EndDocPrinter
    <3>2. a.spool = NewSpool /\ a.ok = TRUE /\ a.captured = <<spool.buf>>
      BY <3>1 DEF Answered
    <3> HIDE DEF a
    <3>3. QED BY <1>2, <1>7, <2>2, <2>3, <3>2
  <2>4. CASE ~spool.open
    <3>1. a.spool = spool /\ a.ok = TRUE /\ a.captured = <<>>
      BY <1>1, <2>1, <2>4 DEF EndDocPrinter
    <3> HIDE DEF a
    <3>2. QED BY <1>2, <2>2, <2>4, <3>1
  <2>5. QED BY <2>3, <2>4
<1>8. CASE /\ WellFormed(c.op, stub)
           /\ c.op \notin {"OpenPrinter", "ClosePrinter", "StartDoc", "WritePrinter", "EndDoc"}
  <2>1. a = Answered(spool)
    BY <1>8 DEF Dispatch
  <2>2. a.spool = spool /\ a.ok = TRUE /\ a.captured = <<>>
    BY <1>1, <2>1
  <2>3. HeardOfOne(c, d) = d
    BY <1>8 DEF HeardOfOne
  <2> HIDE DEF a
  <2>4. QED BY <1>8, <2>2, <2>3
<1> HIDE DEF Goal, a
<1>9. QED BY <1>3, <1>4, <1>5, <1>6, <1>7, <1>8

\* The same of a fragment, whatever it is of.
LEMMA OnWriteMatches ==
    ASSUME NEW pipe \in Pipes, NEW k \in CallRecords, NEW d \in Docs, PipeMatches(pipe, k, d),
           NEW pdu \in Pdus, NEW c \in CallRecords, Goes(pdu, k, c)
    PROVE  LET r == OnWrite(pipe, pdu)
               done == pdu.type = "request" /\ r.reply = "response"
           IN  /\ PipeMatches(r.pipe, IF pdu.last THEN NoCall ELSE c,
                              IF done THEN HeardOfOne(c, d) ELSE d)
               /\ r.captured = IF c.op = "EndDoc" /\ done /\ d.open
                               THEN <<Kept(d.pieces)>> ELSE <<>>
<1> DEFINE r == OnWrite(pipe, pdu)
           done == pdu.type = "request" /\ r.reply = "response"
           Goal == /\ PipeMatches(r.pipe, IF pdu.last THEN NoCall ELSE c,
                                  IF done THEN HeardOfOne(c, d) ELSE d)
                   /\ r.captured = IF c.op = "EndDoc" /\ done /\ d.open
                                   THEN <<Kept(d.pieces)>> ELSE <<>>
           reasm == Collected(pipe.reasm, pdu)
           fed == pdu.first \/ pipe.reasm.active
           over == ~pdu.first /\ Len(pipe.reasm.parts) >= ReasmMax
<1> SUFFICES Goal
  OBVIOUS
<1>1. /\ "reasm" \in DOMAIN pipe /\ "spool" \in DOMAIN pipe
      /\ pipe.spool \in Spools /\ pipe.reasm \in Reasms
  BY DEF Pipes
<1>2. NoReasm.active = FALSE
  BY DEF NoReasm
<1>3. CASE pdu.type # "request"
  <2>1. r.pipe = pipe /\ r.captured = <<>>
    BY <1>3 DEF OnWrite, Awaits
  <2>2. c = k /\ ~pdu.last /\ ~done
    BY <1>3 DEF Goes
  <2> HIDE DEF r
  <2>3. QED BY <2>1, <2>2
<1>4. CASE pdu.type = "request" /\ ~fed
  <2>1. r = Awaits(pipe)
    BY <1>4 DEF OnWrite, HandleRequest
  <2>2. r.pipe = pipe /\ r.captured = <<>> /\ r.reply = "none"
    BY <2>1 DEF Awaits
  <2> HIDE DEF r
  <2>3. ~done /\ ~pipe.reasm.active
    BY <1>4, <2>2
  <2>4. QED BY <2>2, <2>3 DEF PipeMatches
<1>5. CASE pdu.type = "request" /\ fed /\ over
  <2>1. r = Fault([pipe EXCEPT !.reasm = NoReasm])
    BY <1>5 DEF OnWrite, HandleRequest
  <2>2. r.pipe = [pipe EXCEPT !.reasm = NoReasm] /\ r.captured = <<>> /\ r.reply = "fault"
    BY <2>1 DEF Fault
  <2>3. r.pipe.reasm = NoReasm /\ r.pipe.spool = pipe.spool
    BY <1>1, <2>2
  <2> HIDE DEF r
  <2>4. ~done
    BY <2>2
  <2>5. QED BY <1>2, <2>2, <2>3, <2>4 DEF PipeMatches
<1>6. CASE pdu.type = "request" /\ fed /\ ~over /\ ~pdu.last
  <2>1. r = Awaits([pipe EXCEPT !.reasm = reasm])
    BY <1>6 DEF OnWrite, HandleRequest
  <2>2. r.pipe = [pipe EXCEPT !.reasm = reasm] /\ r.captured = <<>> /\ r.reply = "none"
    BY <2>1 DEF Awaits
  <2>3. r.pipe.reasm = reasm /\ r.pipe.spool = pipe.spool
    BY <1>1, <2>2
  <2>4. /\ reasm.op = c.op
        /\ WellFormed("WritePrinter", reasm.parts) => Pieces(reasm.parts) = c.pieces
    BY <1>6, CollectedMatches
  <2> HIDE DEF r, reasm
  <2>5. ~done
    BY <2>2
  <2>6. QED BY <1>6, <2>2, <2>3, <2>4, <2>5 DEF PipeMatches
<1>7. CASE pdu.type = "request" /\ fed /\ ~over /\ pdu.last
  <2>1. /\ reasm.op = c.op
        /\ WellFormed("WritePrinter", reasm.parts) => Pieces(reasm.parts) = c.pieces
    BY <1>7, CollectedMatches
  <2>2. r = Complete(pipe, reasm)
    BY <1>7 DEF OnWrite, HandleRequest
  <2>3. reasm.parts \in Seq(Parts)
    <3>1. pdu.part \in Parts /\ pipe.reasm.parts \in Seq(Parts)
      BY <1>1 DEF Pdus, Reasms
    <3>2. CASE pdu.first
      <4>1. reasm.parts = <<pdu.part>>
        BY <3>2 DEF Collected
      <4>2. QED BY <3>1, <4>1
    <3>3. CASE ~pdu.first
      <4>1. reasm.parts = Append(pipe.reasm.parts, pdu.part)
        BY <1>1, <3>3 DEF Collected, Reasms
      <4>2. QED BY <3>1, <4>1
    <3>4. QED BY <3>2, <3>3
  <2> HIDE DEF reasm
  <2> DEFINE a == Dispatch(pipe.spool, c.op, reasm.parts)
             e == IF a.ok THEN HeardOfOne(c, d) ELSE d
  <2>4. /\ a.spool.open <=> e.open
        /\ e.open => a.spool.buf = Kept(e.pieces)
        /\ a.captured = IF c.op = "EndDoc" /\ a.ok /\ d.open THEN <<Kept(d.pieces)>> ELSE <<>>
    BY <1>1, <2>1, <2>3, DispatchMatches DEF PipeMatches
  <2>5. r = [pipe |-> [reasm |-> NoReasm, spool |-> a.spool],
             reply |-> IF a.ok THEN "response" ELSE "fault",
             captured |-> a.captured]
    BY <2>1, <2>2 DEF Complete
  <2> HIDE DEF r, a
  <2>6. r.pipe.reasm = NoReasm /\ r.pipe.spool = a.spool /\ r.captured = a.captured
        /\ (done <=> a.ok)
    BY <1>7, <2>5
  <2>7. QED BY <1>2, <1>7, <2>4, <2>6 DEF PipeMatches
<1> HIDE DEF Goal, r, done, reasm, fed, over
<1>8. QED BY <1>3, <1>4, <1>5, <1>6, <1>7

\* What is captured matches what was ended.
Match(jobs, docs) ==
    Len(jobs) = Len(docs) /\ \A i \in 1..Len(jobs) : jobs[i].data = Kept(docs[i])

LEMMA SameRange ==
    ASSUME NEW m \in Nat, NEW n \in Nat, 1..m = 1..n
    PROVE  m = n
<1>1. m # 0 => m \in 1..n
  <2>1. m # 0 => m \in 1..m
    OBVIOUS
  <2>2. QED BY <2>1
<1>2. n # 0 => n \in 1..m
  <2>1. n # 0 => n \in 1..n
    OBVIOUS
  <2>2. QED BY <2>1
<1>3. QED BY <1>1, <1>2

LEMMA MatchIsCaptured ==
    ASSUME TypesInv
    PROVE  Match(captured, finished) <=> CapturedAsEnded
<1>1. DOMAIN captured = 1..Len(captured) /\ DOMAIN finished = 1..Len(finished)
      /\ Len(captured) \in Nat /\ Len(finished) \in Nat
  BY DEF TypesInv
<1> DEFINE x == [i \in 1..Len(captured) |-> captured[i].data]
           y == [i \in 1..Len(finished) |-> Kept(finished[i])]
<1>2. CapturedAsEnded <=> x = y
  BY <1>1 DEF CapturedAsEnded
<1>3. ASSUME x = y PROVE Match(captured, finished)
  <2>1. DOMAIN x = 1..Len(captured) /\ DOMAIN y = 1..Len(finished)
    OBVIOUS
  <2>2. 1..Len(captured) = 1..Len(finished)
    BY <1>3, <2>1
  <2>3. Len(captured) = Len(finished)
    BY <1>1, <2>2, SameRange
  <2>4. \A i \in 1..Len(captured) : x[i] = captured[i].data /\ y[i] = Kept(finished[i])
    BY <2>3
  <2>5. QED BY <1>3, <2>3, <2>4 DEF Match
<1>4. Match(captured, finished) => x = y
  BY DEF Match
<1>5. QED BY <1>2, <1>3, <1>4

LEMMA MatchGrows ==
    ASSUME NEW jobs \in Seq(Jobs), NEW docs \in Seq(Seq(Nat)), Match(jobs, docs),
           NEW job \in Jobs, NEW d \in Seq(Nat), job.data = Kept(d)
    PROVE  Match(jobs \o <<job>>, Append(docs, d))
<1> DEFINE x == jobs \o <<job>>
           y == Append(docs, d)
           n == Len(jobs)
<1>1. n \in Nat /\ Len(docs) = n
  BY DEF Match
<1>2. Len(x) = n + 1 /\ Len(y) = n + 1
  BY <1>1
<1>3. \A i \in 1..(n + 1) : x[i] = IF i = n + 1 THEN job ELSE jobs[i]
  <2>1. <<job>> \in Seq(Jobs) /\ Len(<<job>>) = 1 /\ <<job>>[1] = job
    OBVIOUS
  <2> DEFINE one == <<job>>
  <2> HIDE DEF one
  <2>2. \A i \in 1..(n + 1) : (jobs \o one)[i] = IF i <= n THEN jobs[i] ELSE one[i - n]
    BY <2>1, ConcatProperties DEF one
  <2>3. \A i \in 1..(n + 1) : (i <= n <=> i # n + 1) /\ (i = n + 1 => i - n = 1)
    BY <1>1
  <2>4. QED BY <2>1, <2>2, <2>3 DEF one
<1>4. \A i \in 1..(n + 1) : y[i] = IF i = n + 1 THEN d ELSE docs[i]
  BY <1>1
<1>5. \A i \in 1..(n + 1) : i # n + 1 => i \in 1..n
  BY <1>1
<1>6. \A i \in 1..n : jobs[i].data = Kept(docs[i])
  BY DEF Match
<1> HIDE DEF x, y, n
<1>7. \A i \in 1..(n + 1) : x[i].data = Kept(y[i])
  BY <1>3, <1>4, <1>5, <1>6
<1>8. Match(x, y)
  BY <1>2, <1>7 DEF Match
<1>9. QED BY <1>8 DEF x, y

\* A file, and the document its client takes it to hold.
FileMatches(h, k, d) ==
    IF h.print THEN h.buf = Kept(d.pieces) /\ (d.open <=> h.buf # <<>>)
    ELSE PipeMatches(h.pipe, k, d)

\* Every file holds what its client takes it to hold, a file number that is not
\* in use stands for no document, and what was captured is what was ended.
DocumentsInv ==
    /\ \A f \in Fids :
          IF f \in DOMAIN handles THEN FileMatches(handles[f], call[f], doc[f][File])
          ELSE doc[f][File] = NoDoc
    /\ Match(captured, finished)

\* A file as it is opened or closed.
LEMMA EmptyMatches ==
    ASSUME NEW h, h.buf = <<>>, h.pipe = NewPipe, NEW k
    PROVE  FileMatches(h, k, NoDoc)
<1>1. NoDoc.open = FALSE /\ NoDoc.pieces = <<>>
  BY DEF NoDoc
<1>2. NewPipe.spool.open = FALSE /\ NewPipe.reasm.active = FALSE
  BY DEF NewPipe, NewSpool, NoReasm
<1>3. PipeMatches(h.pipe, k, NoDoc)
  BY <1>1, <1>2 DEF PipeMatches
<1>4. QED BY <1>1, <1>3, KeptOfNothing DEF FileMatches

\* A step at one file.
LEMMA OneFileMatches ==
    ASSUME TypesInv, DocumentsInv, NEW f \in DOMAIN handles, f \in Fids,
           DOMAIN handles' = DOMAIN handles,
           \A g \in Fids \ {f} :
              handles'[g] = handles[g] /\ call'[g] = call[g] /\ doc'[g] = doc[g],
           FileMatches(handles'[f], call'[f], doc'[f][File]),
           Match(captured', finished')
    PROVE  DocumentsInv'
<1>1. Fids' = Fids /\ File' = File
  BY DEF Fids, File
<1>2. ASSUME NEW g \in Fids
      PROVE  IF g \in DOMAIN handles' THEN FileMatches(handles'[g], call'[g], doc'[g][File])
             ELSE doc'[g][File] = NoDoc
  <2>1. CASE g = f
    BY <2>1
  <2>2. CASE g # f
    BY <2>2 DEF DocumentsInv
  <2>3. QED BY <2>1, <2>2
<1>3. QED BY <1>1, <1>2 DEF DocumentsInv

LEMMA CreateKeepsDocuments ==
    ASSUME TypesInv, DocumentsInv, NEW tree, NEW name, Create(tree, name)
    PROVE  DocumentsInv'
<1> DEFINE print == tree \in DOMAIN trees /\ trees[tree] = "print"
           h == [open |-> TRUE, print |-> print, buf |-> <<>>, pipe |-> NewPipe, unread |-> 0]
           n == Len(handles) + 1
<1>1. handles' = Append(handles, h) /\ UNCHANGED <<call, doc, captured, finished>>
  BY DEF Create, spooling
<1>2. h.buf = <<>> /\ h.pipe = NewPipe
  OBVIOUS
<1> HIDE DEF h
<1>3. handles \in Seq(Handles) /\ Len(handles) \in Nat
  BY DEF TypesInv
<1>4. DOMAIN handles' = 1..n /\ DOMAIN handles = 1..Len(handles)
      /\ handles'[n] = h /\ \A g \in 1..Len(handles) : handles'[g] = handles[g]
  BY <1>1, <1>3
<1>5. \A g \in 1..n : g # n => g \in 1..Len(handles)
  BY <1>3
<1>6. n \notin 1..Len(handles) /\ \A g \in 1..Len(handles) : g \in 1..n
  BY <1>3
<1> HIDE DEF n
<1>7. ASSUME NEW g \in Fids
      PROVE  IF g \in DOMAIN handles' THEN FileMatches(handles'[g], call[g], doc[g][File])
             ELSE doc[g][File] = NoDoc
  <2>1. CASE g = n
    <3>1. doc[g][File] = NoDoc
      BY <1>4, <1>6, <2>1 DEF DocumentsInv
    <3>2. QED BY <1>2, <1>4, <2>1, <3>1, EmptyMatches
  <2>2. CASE g # n
    <3>1. CASE g \in 1..Len(handles)
      BY <1>4, <1>6, <3>1 DEF DocumentsInv
    <3>2. CASE g \notin 1..Len(handles)
      BY <1>4, <1>5, <2>2, <3>2 DEF DocumentsInv
    <3>3. QED BY <3>1, <3>2
  <2>3. QED BY <2>1, <2>2
<1>8. QED BY <1>1, <1>7 DEF DocumentsInv, Fids, File

\* A piece written to a spool file.
LEMMA WriteSpoolKeepsDocuments ==
    ASSUME TypesInv, LoginInv, DocumentsInv, NEW f \in Fids, WriteSpool(f)
    PROVE  DocumentsInv'
<1> DEFINE h == handles[f]
           d == doc[f][File]
           b == AppendCapped(h.buf, <<piece'>>)
           e == [open |-> TRUE, pieces |-> Append(d.pieces, piece')]
<1>1. /\ Opened(f) /\ h.print /\ piece' = piece + 1
      /\ handles' = [handles EXCEPT ![f].buf = b]
      /\ doc' = [doc EXCEPT ![f][File] = e]
      /\ UNCHANGED <<call, finished, captured>>
  BY DEF WriteSpool
<1>2. piece' \in Nat /\ <<piece'>> \in Seq(Nat)
  <2>1. cfg.pieces \in Nat
    BY SmbAssumption DEF LoginInv, SessionInv
  <2>2. piece \in Nat
    BY <2>1 DEF TypesInv
  <2>3. QED BY <1>1, <2>2
<1>3. f \in DOMAIN handles /\ h \in Handles /\ d \in Docs /\ doc[f] \in [Printers -> Docs]
  BY <1>1, OpenedTypes, FileIsPrinter DEF Opened
<1>4. d.pieces \in Seq(Nat) /\ h.buf = Kept(d.pieces)
  BY <1>1, <1>3 DEF Docs, DocumentsInv, FileMatches
<1>5. b = Kept(e.pieces)
  <2>1. e.pieces = d.pieces \o <<piece'>>
    BY <1>2, <1>4, AppendIsConcat
  <2>2. QED BY <1>2, <1>4, <2>1, KeptInParts
<1>6. b # <<>>
  <2>1. e.pieces \in Seq(Nat) /\ Len(e.pieces) = Len(d.pieces) + 1 /\ Len(d.pieces) \in Nat
    BY <1>2, <1>4
  <2> HIDE DEF e, b
  <2>2. CASE Len(e.pieces) <= Cap
    <3>1. b = e.pieces
      BY <1>5, <2>1, <2>2, KeptOf
    <3>2. QED BY <2>1, <3>1
  <2>3. CASE ~(Len(e.pieces) <= Cap)
    <3>1. Cap \in Nat /\ Cap >= 1
      BY SpoolssAssumption
    <3>2. Len(SubSeq(e.pieces, 1, Cap)) = Cap
      BY <2>1, <2>3, <3>1, SubSeqProperties
    <3>3. b = SubSeq(e.pieces, 1, Cap)
      BY <1>5, <2>1, <2>3, KeptOf
    <3>4. Len(b) # 0 /\ Len(<<>>) = 0
      BY <3>1, <3>2, <3>3
    <3>5. QED BY <3>4
  <2>4. QED BY <2>2, <2>3
<1>7. handles' = [handles EXCEPT ![f] = [h EXCEPT !.buf = b]]
      /\ doc' = [doc EXCEPT ![f] = [doc[f] EXCEPT ![File] = e]]
  BY <1>1
<1>8. e.open = TRUE
  OBVIOUS
<1>9. doc \in [Fids -> [Printers -> Docs]]
  BY DEF TypesInv
<1> HIDE DEF b, e, h, d
<1>10. DOMAIN handles' = DOMAIN handles /\ handles'[f] = [h EXCEPT !.buf = b]
       /\ \A g \in Fids \ {f} : handles'[g] = handles[g] /\ call'[g] = call[g] /\ doc'[g] = doc[g]
  <2>1. DOMAIN handles' = DOMAIN handles /\ handles'[f] = [h EXCEPT !.buf = b]
    BY <1>3, <1>7
  <2>2. \A g \in Fids \ {f} : handles'[g] = handles[g]
    BY <1>7
  <2>3. \A g \in Fids \ {f} : call'[g] = call[g] /\ doc'[g] = doc[g]
    BY <1>1, <1>7, <1>9
  <2>4. QED BY <2>1, <2>2, <2>3
<1>11. doc'[f] = [doc[f] EXCEPT ![File] = e]
  BY <1>7, <1>9
<1>12. doc'[f][File] = e
  BY <1>3, <1>11, FileIsPrinter
<1>13. handles'[f].print = h.print /\ handles'[f].buf = b
  BY <1>3, <1>10 DEF Handles
<1>14. FileMatches(handles'[f], call'[f], doc'[f][File])
  BY <1>1, <1>5, <1>6, <1>8, <1>12, <1>13 DEF FileMatches
<1>15. Match(captured', finished')
  BY <1>1 DEF DocumentsInv
<1>16. QED BY <1>3, <1>10, <1>14, <1>15, OneFileMatches

\* A file is closed.
LEMMA CloseKeepsDocuments ==
    ASSUME TypesInv, LoginInv, DocumentsInv, NEW f \in Fids, Close(f)
    PROVE  DocumentsInv'
<1> DEFINE h == handles[f]
           d == doc[f][File]
           job == IF h.print /\ h.buf # <<>> THEN <<Job(h.buf, sess.user)>> ELSE <<>>
           n == [h EXCEPT !.open = FALSE, !.buf = <<>>, !.pipe = NewPipe, !.unread = 0]
<1>1. /\ Command /\ Opened(f)
      /\ captured' = captured \o job
      /\ handles' = [handles EXCEPT ![f] = n]
      /\ finished' = IF h.print /\ d.open THEN Append(finished, d.pieces) ELSE finished
      /\ doc' = [doc EXCEPT ![f] = NoDocs[f]]
      /\ call' = [call EXCEPT ![f] = NoCall]
  BY DEF Close
<1>2. f \in DOMAIN handles /\ h \in Handles /\ d \in Docs /\ h.buf \in Kepts
  BY <1>1, OpenedTypes, FileIsPrinter DEF Opened
<1>3. n.buf = <<>> /\ n.pipe = NewPipe
  BY <1>2 DEF Handles
<1>4. h.print => h.buf = Kept(d.pieces) /\ (d.open <=> h.buf # <<>>)
  BY <1>2 DEF DocumentsInv, FileMatches
<1>5. captured \in Seq(Jobs) /\ finished \in Seq(Seq(Nat)) /\ Match(captured, finished)
  BY DEF TypesInv, DocumentsInv
<1>6. Match(captured', finished')
  <2>1. CASE h.print /\ h.buf # <<>>
    <3> DEFINE j == Job(h.buf, sess.user)
    <3>1. j \in Jobs /\ j.data = h.buf
      <4>1. sess.user \in Users \cup {""}
        BY <1>1 DEF Command, LoginInv, SessionInv
      <4>2. QED BY <1>2, <4>1 DEF Job, Jobs
    <3>2. d.pieces \in Seq(Nat)
      BY <1>2 DEF Docs
    <3>3. captured' = captured \o <<j>> /\ finished' = Append(finished, d.pieces)
      BY <1>1, <1>4, <2>1
    <3> HIDE DEF j
    <3>4. QED BY <1>4, <1>5, <2>1, <3>1, <3>2, <3>3, MatchGrows
  <2>2. CASE ~(h.print /\ h.buf # <<>>)
    <3>1. captured' = captured \o <<>> /\ finished' = finished
      BY <1>1, <1>4, <2>2
    <3>2. captured \o <<>> = captured
      BY <1>5, ConcatEmptySeq
    <3>3. QED BY <1>5, <3>1, <3>2
  <2>3. QED BY <2>1, <2>2
<1>7. NoDocs[f][File] = NoDoc
  BY FileIsPrinter DEF NoDocs
<1>8. doc \in [Fids -> [Printers -> Docs]] /\ call \in [Fids -> CallRecords]
  BY DEF TypesInv
<1> HIDE DEF n, job, h, d
<1>9. DOMAIN handles' = DOMAIN handles /\ handles'[f] = n /\ doc'[f] = NoDocs[f]
      /\ \A g \in Fids \ {f} : handles'[g] = handles[g] /\ call'[g] = call[g] /\ doc'[g] = doc[g]
  BY <1>1, <1>2, <1>8
<1>10. FileMatches(handles'[f], call'[f], doc'[f][File])
  BY <1>3, <1>7, <1>9, EmptyMatches
<1>11. QED BY <1>2, <1>6, <1>9, <1>10, OneFileMatches

LEMMA ReadKeepsDocuments ==
    ASSUME TypesInv, DocumentsInv, NEW f \in Fids, Read(f)
    PROVE  DocumentsInv'
<1>1. Opened(f) /\ handles' = [handles EXCEPT ![f] = [handles[f] EXCEPT !.unread = 0]]
      /\ UNCHANGED <<call, doc, captured, finished>>
  BY DEF Read, spooling
<1>2. f \in DOMAIN handles /\ handles[f] \in Handles
  BY <1>1, OpenedTypes DEF Opened
<1>3. DOMAIN handles' = DOMAIN handles /\ handles'[f] = [handles[f] EXCEPT !.unread = 0]
      /\ \A g \in Fids \ {f} : handles'[g] = handles[g] /\ call'[g] = call[g] /\ doc'[g] = doc[g]
  BY <1>1, <1>2
<1>4. handles'[f].print = handles[f].print /\ handles'[f].buf = handles[f].buf
      /\ handles'[f].pipe = handles[f].pipe
  BY <1>2, <1>3 DEF Handles
<1>5. FileMatches(handles[f], call[f], doc[f][File])
  BY <1>2 DEF DocumentsInv
<1>6. FileMatches(handles'[f], call'[f], doc'[f][File])
  BY <1>1, <1>4, <1>5 DEF FileMatches
<1>7. QED BY <1>1, <1>2, <1>3, <1>6, OneFileMatches DEF DocumentsInv

\* A fragment is written to a pipe.
LEMMA WritePipeKeepsDocuments ==
    ASSUME OnePrinter, TypesInv, LoginInv, DocumentsInv,
           NEW f \in Fids, NEW pdu \in Pdus, NEW c \in CallRecords,
           WritePipe(f, pdu, c), Goes(pdu, call[f], c)
    PROVE  DocumentsInv'
<1> DEFINE h == handles[f]
           d == doc[f][File]
           r == OnWrite(h.pipe, pdu)
           done == pdu.type = "request" /\ r.reply = "response"
           ended == c.op = "EndDoc" /\ done /\ d.open
           u == IF r.reply = "none" THEN h.unread ELSE h.unread + 1
           n == [[h EXCEPT !.pipe = r.pipe] EXCEPT !.unread = u]
           jobs == [i \in DOMAIN r.captured |-> Job(r.captured[i], "")]
           k == IF pdu.last THEN NoCall ELSE c
           e == IF done THEN HeardOfOne(c, d) ELSE d
<1>1. c.printer = File
  BY DEF CallRecords, OnePrinter
<1>2. /\ Opened(f) /\ ~h.print
      /\ handles' = [handles EXCEPT ![f].pipe = r.pipe,
                                    ![f].unread = IF r.reply = "none" THEN @ ELSE @ + 1]
      /\ captured' = captured \o jobs
      /\ call' = [call EXCEPT ![f] = k]
      /\ doc' = IF done THEN [doc EXCEPT ![f] = Heard(c, @)] ELSE doc
      /\ finished' = IF ended THEN Append(finished, d.pieces) ELSE finished
  BY <1>1 DEF WritePipe
<1>3. /\ f \in DOMAIN handles /\ h \in Handles /\ h.pipe \in Pipes /\ call[f] \in CallRecords
      /\ d \in Docs /\ doc[f] \in [Printers -> Docs]
  BY <1>2, OpenedTypes, FileIsPrinter DEF Opened
<1>4. PipeMatches(h.pipe, call[f], d)
  BY <1>2, <1>3 DEF DocumentsInv, FileMatches
<1>5. /\ PipeMatches(r.pipe, k, e)
      /\ r.captured = IF ended THEN <<Kept(d.pieces)>> ELSE <<>>
  BY <1>3, <1>4, OnWriteMatches
<1>6. handles' = [handles EXCEPT ![f] = n]
  BY <1>2, <1>3 DEF TypesInv, Handles
<1>7. n.pipe = r.pipe /\ n.print = h.print
  <2> HIDE DEF h, r, u
  <2>1. QED BY <1>3 DEF Handles
<1>8. d.pieces \in Seq(Nat) /\ Kept(d.pieces) \in Kepts
  <2>1. d.pieces \in Seq(Nat)
    BY <1>3 DEF Docs
  <2>2. QED BY <2>1, EmptyKept, CappedIsKept DEF Kept
<1>9. captured \in Seq(Jobs) /\ finished \in Seq(Seq(Nat)) /\ Match(captured, finished)
  BY DEF TypesInv, DocumentsInv
<1>10. Match(captured', finished')
  <2>1. CASE ended
    <3> DEFINE j == Job(Kept(d.pieces), "")
    <3>1. j \in Jobs /\ j.data = Kept(d.pieces)
      BY <1>8 DEF Job, Jobs
    <3>2. jobs = <<j>>
      <4>1. r.captured = <<Kept(d.pieces)>>
        BY <1>5, <2>1
      <4> HIDE DEF r
      <4>2. DOMAIN r.captured = {1} /\ r.captured[1] = Kept(d.pieces)
        BY <4>1
      <4>3. jobs = [i \in {1} |-> j]
        BY <4>2
      <4> HIDE DEF j
      <4>4. <<j>> = [i \in {1} |-> j]
        OBVIOUS
      <4>5. QED BY <4>3, <4>4
    <3>3. captured' = captured \o <<j>> /\ finished' = Append(finished, d.pieces)
      BY <1>2, <2>1, <3>2
    <3> HIDE DEF j, d
    <3>4. QED BY <1>8, <1>9, <3>1, <3>3, MatchGrows
  <2>2. CASE ~ended
    <3>1. jobs = <<>>
      <4>1. r.captured = <<>>
        BY <1>5, <2>2
      <4> HIDE DEF r
      <4>2. DOMAIN r.captured = {}
        BY <4>1
      <4>3. QED BY <4>2
    <3>2. captured' = captured \o <<>> /\ finished' = finished
      BY <1>2, <2>2, <3>1
    <3>3. captured \o <<>> = captured
      BY <1>9, ConcatEmptySeq
    <3>4. QED BY <1>9, <3>2, <3>3
  <2>3. QED BY <2>1, <2>2
<1>11. doc'[f][File] = e
  <2>1. CASE done
    <3>1. doc'[f] = Heard(c, doc[f])
      BY <1>2, <2>1 DEF TypesInv
    <3>2. Heard(c, doc[f]) = [doc[f] EXCEPT ![File] = HeardOfOne(c, d)]
      BY <1>1 DEF Heard, HeardOfOne
    <3>3. doc'[f][File] = HeardOfOne(c, d)
      BY <1>3, <3>1, <3>2, FileIsPrinter
    <3>4. QED BY <2>1, <3>3
  <2>2. CASE ~done
    BY <1>2, <2>2
  <2>3. QED BY <2>1, <2>2
<1>12. doc \in [Fids -> [Printers -> Docs]] /\ call \in [Fids -> CallRecords]
  BY DEF TypesInv
<1> HIDE DEF n, jobs, done, ended, r, u, k, e, h, d
<1>13. DOMAIN handles' = DOMAIN handles /\ handles'[f] = n /\ call'[f] = k
       /\ \A g \in Fids \ {f} : handles'[g] = handles[g] /\ call'[g] = call[g] /\ doc'[g] = doc[g]
  <2>1. DOMAIN handles' = DOMAIN handles /\ handles'[f] = n
    BY <1>3, <1>6
  <2>2. \A g \in Fids \ {f} : handles'[g] = handles[g]
    BY <1>6
  <2>3. call'[f] = k /\ \A g \in Fids \ {f} : call'[g] = call[g]
    BY <1>2, <1>12
  <2>4. \A g \in Fids \ {f} : doc'[g] = doc[g]
    BY <1>2, <1>12
  <2>5. QED BY <2>1, <2>2, <2>3, <2>4
<1>14. FileMatches(handles'[f], call'[f], doc'[f][File])
  BY <1>2, <1>5, <1>7, <1>11, <1>13 DEF FileMatches
<1>15. QED BY <1>3, <1>10, <1>13, <1>14, OneFileMatches

\* A connection, or a session, starts without files.
LEMMA SetupKeepsDocuments ==
    ASSUME DocumentsInv, SetupStep
    PROVE  DocumentsInv'
<1>1. ASSUME handles' = <<>>, doc' = NoDocs, UNCHANGED <<captured, finished>>
      PROVE  DocumentsInv'
  <2>1. DOMAIN handles' = {}
    BY <1>1
  <2>2. \A f \in Fids : doc'[f][File] = NoDoc
    BY <1>1, FileIsPrinter DEF NoDocs
  <2>3. QED BY <1>1, <2>1, <2>2 DEF DocumentsInv, Fids, File
<1>2. UNCHANGED unspooled => DocumentsInv'
  BY DEF unspooled, spooling, DocumentsInv, Fids, File
<1>3. QED BY <1>1, <1>2 DEF SetupStep, Connect, Negotiate, Leg1, Leg2, BadSetup

LEMMA InitDocuments == Init => DocumentsInv
<1> SUFFICES ASSUME Init PROVE DocumentsInv
  OBVIOUS
<1>1. DOMAIN handles = {}
  BY DEF Init
<1>2. \A f \in Fids : doc[f][File] = NoDoc
  BY FileIsPrinter DEF Init, NoDocs
<1>3. Match(captured, finished)
  <2>1. captured = <<>> /\ finished = <<>> /\ Len(<<>>) = 0
    BY DEF Init
  <2>2. QED BY <2>1 DEF Match
<1>4. QED BY <1>1, <1>2, <1>3 DEF DocumentsInv

LEMMA NextDocuments ==
    OnePrinter /\ LoginInv /\ TypesInv /\ DocumentsInv /\ [Next]_vars => DocumentsInv'
<1> SUFFICES ASSUME OnePrinter, LoginInv, TypesInv, DocumentsInv, [Next]_vars
             PROVE  DocumentsInv'
  OBVIOUS
<1>1. UNCHANGED <<handles, call, doc, captured, finished>> => DocumentsInv'
  BY DEF DocumentsInv, Fids, File
<1>2. CASE SetupStep
  BY <1>2, SetupKeepsDocuments
<1>3. CASE SpoolStep
  <2>1. ASSUME NEW share, NEW tree, TreeConnect(share) \/ TreeDisconnect(tree) \/ Ineffective
        PROVE  DocumentsInv'
    BY <1>1, <2>1 DEF TreeConnect, TreeDisconnect, Ineffective, server, spooling
  <2>2. QED BY <1>3, <2>1, SpoolStepSplit, CreateKeepsDocuments, WriteSpoolKeepsDocuments,
           CloseKeepsDocuments, ReadKeepsDocuments, WritePipeKeepsDocuments
<1>4. CASE Gone \/ UNCHANGED vars
  BY <1>1, <1>4 DEF Gone, vars, server, spooling
<1>5. QED BY <1>2, <1>3, <1>4, NextSplit

\* With one printer opened over a pipe, a document whose end was acknowledged,
\* by CLOSE or by EndDocPrinter, is captured once and holds what was
\* acknowledged of it, in order and up to the cap, whatever fragments, logins
\* and disconnected trees came in between; and nothing else is captured.
\* (handleClose, realSpoolssDispatcher)
THEOREM DocumentsAreCaptured ==
    ASSUME OnePrinter
    PROVE  Spec => []CapturedAsEnded
<1>1. Init => DocumentsInv
  BY InitDocuments
<1>2. LoginInv /\ TypesInv /\ DocumentsInv /\ [Next]_vars => DocumentsInv'
  BY NextDocuments
<1>3. TypesInv /\ DocumentsInv => CapturedAsEnded
  BY MatchIsCaptured DEF DocumentsInv
<1>4. QED BY <1>1, <1>2, <1>3, Invariance, PTL DEF Spec
=============================================================================
