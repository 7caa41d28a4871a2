----------------------------- MODULE SmbServer -----------------------------
(***************************************************************************)
(* One connection to the SMB print share (handleSMBConn) and the client at *)
(* its other end.  The handler reads a frame, opens and verifies it, runs  *)
(* the handler of its command to the end and answers before it reads the   *)
(* next one, so a request and its answer are one step.                     *)
(*                                                                         *)
(* The client hashes the handshake as MS-SMB2 has it: every login starts   *)
(* from the transcript of the NEGOTIATE.  What it takes to be in a         *)
(* document is kept in doc, and a document whose end was acknowledged in   *)
(* finished.                                                               *)
(***************************************************************************)
EXTENDS Spoolss, SmbCrypto, FiniteSets

CONSTANTS
    Accounts,       \* the configured users: a function to their passwords
    Passwords,      \* what a client may try
    Configs,        \* what may be configured, with two bounds:
                    \* [requireAuth, sign, mids, pieces]: messages of the
                    \* handshakes of a connection, pieces of documents sent
    Offers,         \* what a client may offer: [dialects, ciphers]
    Printers,       \* the printers a client may open over one pipe
    MaxConns,       \* bound: connections one after the other
    MaxFids,        \* bound: files opened in a session
    MaxTrees,       \* bound: trees connected in a session
    MaxJobs         \* bound: documents captured

ASSUME SmbAssumption ==
    /\ Configs \subseteq [requireAuth: BOOLEAN, sign: BOOLEAN, mids: Nat, pieces: Nat]
    /\ {MaxConns, MaxFids, MaxTrees, MaxJobs} \subseteq Nat
    /\ Printers # {}

VARIABLES
    cfg,            \* the configuration in force
    conn,           \* "open" or "closed"
    conns,          \* connections so far
    sess,           \* the smbSession, or NoSession
    trees,          \* the connected trees of the session: what each is
    nextTree,
    handles,        \* the open files of the session
    nextFid,
    captured,       \* the jobs handed to the sink
    \* The client
    client,         \* its transcripts, the keys it derived and its logins
    call,           \* per file: the request it has sent the first parts of
    doc,            \* per file and printer: what it takes to be in a document
    piece,          \* pieces sent so far
    finished,       \* the documents whose end was acknowledged
    proved          \* the users it has logged in as since the NEGOTIATE

server == <<sess, trees, nextTree, handles, nextFid>>
peer == <<client, proved>>
spooling == <<call, doc, piece, finished, captured>>
vars == <<cfg, conn, conns, server, peer, spooling>>

Users == DOMAIN Accounts
Fids == 1..MaxFids
NoSession == [id |-> 0]
NoCall == [op |-> "none", printer |-> CHOOSE q \in Printers: TRUE, pieces |-> <<>>]
NoDoc == [open |-> FALSE, pieces |-> <<>>]
NoDocs == [f \in Fids |-> [q \in Printers |-> NoDoc]]
File == CHOOSE q \in Printers: TRUE
NoToken == [type |-> "none"]
NoKeys == [signing |-> None]
Fresh == [mid |-> 0, base |-> None, login |-> None, token |-> NoToken, keys |-> NoKeys, logins |-> 0]

\* newSMBSession
NewSession(id, dialect, cipher) ==
    [id |-> id, dialect |-> dialect, cipher |-> cipher, preauth |-> None,
     challenge |-> None, auth |-> FALSE, guest |-> FALSE, user |-> "", keys |-> NoKeys, signing |-> FALSE]

Init ==
    /\ cfg \in Configs
    /\ conn = "closed" /\ conns = 0
    /\ sess = NoSession /\ trees = <<>> /\ nextTree = 0
    /\ handles = <<>> /\ nextFid = 0
    /\ client = Fresh /\ proved = {}
    /\ call = [f \in Fids |-> NoCall] /\ doc = NoDocs
    /\ piece = 0 /\ finished = <<>> /\ captured = <<>>

\* serveSMB: a connection starts with nothing of the one before it.
Connect ==
    /\ conn = "closed" /\ conns < MaxConns
    /\ conn' = "open" /\ conns' = conns + 1
    /\ sess' = NoSession /\ trees' = <<>> /\ nextTree' = 0
    /\ handles' = <<>> /\ nextFid' = 0
    /\ client' = Fresh /\ proved' = {}
    /\ call' = [f \in Fids |-> NoCall] /\ doc' = NoDocs
    /\ UNCHANGED <<cfg, piece, finished, captured>>

\* handleSMBConn returns: the connection ends between two requests, or the
\* handler closes it.
Disconnect ==
    /\ conn = "open"
    /\ conn' = "closed"
    /\ UNCHANGED <<cfg, conns, server, peer, spooling>>

---------------------------------------------------------------------------
\* What a NEGOTIATE settles

\* selectDialect: the highest dialect both know, of those modelled.
SelectDialect(offered) ==
    IF "3.1.1" \in offered THEN "3.1.1" ELSE IF "2.1" \in offered THEN "2.1" ELSE "none"

\* parseRequestContexts: GCM, else CCM, else GCM; other dialects settle none.
SelectCipher(dialect, offered) ==
    IF dialect # "3.1.1" THEN "none"
    ELSE IF "ccm" \in offered /\ "gcm" \notin offered THEN "ccm" ELSE "gcm"

---------------------------------------------------------------------------
\* Frames

Keyed(s) == s # NoSession /\ s.keys # NoKeys
Signs(s) == s # NoSession /\ s.auth /\ s.signing /\ ~s.guest

\* A frame of the client, protected as it chooses with the keys it derived and
\* the cipher the NEGOTIATE has settled.
Protections == {"plain", "signed", "sealed"}
Frame(p, msg) ==
    CASE p = "plain" -> Unsigned(msg)
      [] p = "signed" -> Sign(client.keys.signing, msg)
      [] p = "sealed" -> [Encrypt(client.keys.c2s, Unsigned(msg))
                            EXCEPT !.sealedBy[1] = sess.cipher]
CanProtect(p) == p # "plain" => client.keys # NoKeys

\* The checks before a request is dispatched: one that fails closes the
\* connection.  An unsigned request is served although signing is on.
Admitted(p, frame) ==
    IF p = "sealed"
    THEN Keyed(sess) /\ Decrypts(sess.keys.c2s, frame)
    ELSE Signs(sess) /\ frame.flagged => VerifySign(sess.keys.signing, frame)

\* How an answer goes out, and whether the client can read it: signed in a
\* session that signs, sealed when the request was.
Answer(p, s, msg) ==
    LET signed == IF Signs(s) THEN Sign(s.keys.signing, msg) ELSE Unsigned(msg)
    IN IF p = "sealed" /\ Keyed(s) THEN Encrypt(s.keys.s2c, signed) ELSE signed
Readable(answer) ==
    IF "sealedBy" \in DOMAIN answer
    THEN answer.sealedBy = <<sess.cipher, client.keys.s2c>>
    ELSE answer.flagged => client.keys # NoKeys /\ VerifySign(client.keys.signing, answer)

\* A request that gets to the handler of its command.
Request ==
    /\ conn = "open"
    /\ {p \in Protections: CanProtect(p) /\ Admitted(p, Frame(p, "request"))} # {}
    /\ UNCHANGED <<cfg, conn, conns>>

\* A frame that is refused, does not parse or is longer than it may be, a
\* NEGOTIATE without a common dialect, a command before its session: the
\* handler returns.
Refuse ==
    /\ conn = "open"
    /\ \/ \E p \in Protections: CanProtect(p) /\ ~Admitted(p, Frame(p, "request"))
       \/ \E offer \in Offers: SelectDialect(offer.dialects) = "none"
       \/ sess = NoSession
       \/ sess # NoSession /\ ~sess.auth
    /\ conn' = "closed"
    /\ UNCHANGED <<cfg, conns, server, peer, spooling>>

---------------------------------------------------------------------------
\* NEGOTIATE and SESSION_SETUP

\* A message of the handshake, and its answer as patchResponseHeader leaves it.
Req(cmd) == <<cmd, "request", client.mid + 1>>
Resp(cmd) == <<cmd, "answer", client.mid + 1>>
Handshakes == client.mid < cfg.mids
\* A session that is authenticated already may sign a further handshake.
Handshake == Handshakes /\ Request

\* A NEGOTIATE, at any time: a new session without files or trees, whatever was
\* spooled in the old one.  Both its messages enter the hash.
Negotiate(offer) ==
    LET dialect == SelectDialect(offer.dialects)
        hash == UpdatePreauth(UpdatePreauth(None, Req("negotiate")), Resp("negotiate"))
    IN /\ Handshake
       /\ dialect # "none"
       /\ sess' = [NewSession(client.mid + 1, dialect, SelectCipher(dialect, offer.ciphers))
                     EXCEPT !.preauth = hash]
       /\ trees' = <<>> /\ nextTree' = 0 /\ handles' = <<>> /\ nextFid' = 0
       /\ client' = [Fresh EXCEPT !.mid = client.mid + 1, !.base = hash]
       /\ proved' = {}
       /\ call' = [f \in Fids |-> NoCall] /\ doc' = NoDocs
       /\ UNCHANGED <<piece, finished, captured>>

unspooled == <<trees, nextTree, handles, nextFid, spooling>>

\* handleSMBConn hashes a SESSION_SETUP before its handler derives any key.
HashedLate(s) == s
Hashed(s) == [s EXCEPT !.preauth = UpdatePreauth(@, Req("setup"))]

\* Leg 1: a new challenge, even in an authenticated session.  The request is
\* hashed before the handler runs, the answer because a second leg follows.
\* The client starts a login: it hashes on from its NEGOTIATE.
Leg1 ==
    LET challenge == BuildChallenge(<<"challenge", client.mid + 1>>, TargetInfo("domain", "PRINTCAP"))
        token == ExtractNTLM(SpnegoWrap("accept-incomplete", challenge))
    IN /\ sess # NoSession /\ Handshake
       /\ sess' = [Hashed(sess) EXCEPT !.preauth = UpdatePreauth(@, Resp("setup")),
                                      !.challenge = token.challenge]
       /\ client' = [client EXCEPT
            !.mid = @ + 1,
            !.login = UpdatePreauth(UpdatePreauth(client.base, Req("setup")), Resp("setup")),
            !.token = token, !.logins = @ + 1]
       /\ UNCHANGED <<proved, unspooled>>

\* finishGuestSession: all-zero key, never signed; the user of an earlier login
\* stays.
GuestSession(s) ==
    [s EXCEPT !.guest = TRUE, !.auth = TRUE, !.signing = FALSE,
              !.keys = DeriveSessionKeys(<<"zero">>, s.preauth)]

\* The end of leg 2 for a verified user.
UserSession(s, user, sbk) ==
    [s EXCEPT !.user = user, !.auth = TRUE, !.signing = cfg.sign,
              !.keys = DeriveSessionKeys(sbk, s.preauth)]

\* An unknown user, a wrong password or a message that does not parse.
UnverifiedGuest(s) == GuestSession(s)
Unverified(s) == IF cfg.requireAuth THEN s ELSE GuestSession(s)

\* Leg 2, answering the challenge of leg 1 as user with a password.  The keys
\* of both sides come from the transcript up to this request.
Proof(user, password) ==
    NTProofStr(Ntowfv2(user, "domain", password), client.token.challenge,
               Temp("nonce", client.token.info))
Authenticate(user, password) ==
    BuildAuthenticate(user, "domain", Proof(user, password), Temp("nonce", client.token.info))
Verified(msg) ==
    /\ ParseAuthenticate(msg) /\ msg.user \in Users
    /\ VerifyNTLMv2(msg.user, "domain", Accounts[msg.user], sess.challenge, msg)

Leg2(user, password, msg) ==
    LET sbk == SessionBaseKey(Ntowfv2(user, "domain", password), Proof(user, password))
    IN /\ sess # NoSession /\ client.token # NoToken /\ Handshake
       /\ sess' = IF Verified(msg) THEN UserSession(Hashed(sess), user, sbk)
                  ELSE Unverified(Hashed(sess))
       /\ client' = [client EXCEPT
            !.mid = @ + 1, !.login = None, !.token = NoToken,
            !.keys = IF Verified(msg)
                     THEN DeriveSessionKeys(sbk, UpdatePreauth(client.login, Req("setup")))
                     ELSE NoKeys]
       /\ proved' = IF Verified(msg) THEN proved \cup {user} ELSE proved
       /\ UNCHANGED unspooled

\* A SESSION_SETUP without a token in it.  The request is hashed all the same.
BadSetup ==
    /\ sess # NoSession /\ Handshake
    /\ sess' = Hashed(sess)
    /\ client' = [client EXCEPT !.mid = @ + 1, !.login = None, !.token = NoToken,
                                !.logins = @ + 1]
    /\ UNCHANGED <<proved, unspooled>>

---------------------------------------------------------------------------
\* Trees and files of an authenticated session

Command == sess # NoSession /\ sess.auth /\ Request

\* IPC$ or the print share; any other name is refused.
TreeConnect(share) ==
    /\ Command /\ nextTree < MaxTrees
    /\ share \in {"pipe", "print"}
    /\ nextTree' = nextTree + 1
    /\ trees' = [t \in DOMAIN trees \cup {nextTree'} |->
                    IF t = nextTree' THEN share ELSE trees[t]]
    /\ UNCHANGED <<sess, handles, nextFid, peer, spooling>>

\* The files of the tree stay open.
TreeDisconnect(tree) ==
    /\ Command
    /\ trees' = [t \in DOMAIN trees \ {tree} |-> trees[t]]
    /\ UNCHANGED <<sess, nextTree, handles, nextFid, peer, spooling>>

\* On a tree of the print share any name opens a spool file; on any other tree,
\* connected or not, only the name of the pipe opens one.
Create(tree, name) ==
    LET print == tree \in DOMAIN trees /\ trees[tree] = "print"
    IN /\ Command /\ nextFid < MaxFids
       /\ print \/ name = "spoolss"
       /\ nextFid' = nextFid + 1
       /\ handles' = Append(handles,
            [open |-> TRUE, print |-> print, buf |-> <<>>, pipe |-> NewPipe, unread |-> 0])
       /\ UNCHANGED <<sess, trees, nextTree, peer, spooling>>

Opened(f) == f \in DOMAIN handles /\ handles[f].open

\* A WRITE to a spool file.
WriteSpool(f) ==
    /\ Command /\ Opened(f) /\ handles[f].print /\ piece < cfg.pieces
    /\ piece' = piece + 1
    /\ handles' = [handles EXCEPT ![f].buf = AppendCapped(@, <<piece'>>)]
    /\ doc' = [doc EXCEPT ![f][File] = [open |-> TRUE, pieces |-> Append(@.pieces, piece')]]
    /\ UNCHANGED <<sess, trees, nextTree, nextFid, peer, call, finished, captured>>

\* A job as CLOSE builds it, and as EndDocPrinter does, which names no user.
Job(data, user) == [data |-> data, user |-> user]

\* CLOSE of a spool file hands what was written to the sink, if anything was;
\* CLOSE of a pipe drops what is in it.
Close(f) ==
    LET h == handles[f]
        job == IF h.print /\ h.buf # <<>> THEN <<Job(h.buf, sess.user)>> ELSE <<>>
    IN /\ Command /\ Opened(f) /\ Len(captured \o job) <= MaxJobs
       /\ captured' = captured \o job
       /\ handles' = [handles EXCEPT ![f] =
                        [@ EXCEPT !.open = FALSE, !.buf = <<>>, !.pipe = NewPipe, !.unread = 0]]
       /\ finished' = IF h.print /\ doc[f][File].open
                      THEN Append(finished, doc[f][File].pieces) ELSE finished
       /\ doc' = [doc EXCEPT ![f] = NoDocs[f]]
       /\ call' = [call EXCEPT ![f] = NoCall]
       /\ UNCHANGED <<sess, trees, nextTree, nextFid, peer, piece>>

\* What the client makes of the success of a call on one of its printers.
Heard(c, docs) ==
    LET d == docs[c.printer]
    IN [docs EXCEPT ![c.printer] =
        CASE c.op \in {"OpenPrinter", "ClosePrinter", "EndDoc"} -> NoDoc
          [] c.op = "StartDoc" -> [open |-> TRUE, pieces |-> <<>>]
          [] c.op = "WritePrinter" /\ d.open -> [d EXCEPT !.pieces = @ \o c.pieces]
          [] OTHER -> d]

\* A WRITE to a pipe: a fragment of the request c of the client.
WritePipe(f, pdu, c) ==
    LET r == OnWrite(handles[f].pipe, pdu)
        done == pdu.type = "request" /\ r.reply = "response"
        ended == c.op = "EndDoc" /\ done /\ doc[f][c.printer].open
    IN /\ Command /\ Opened(f) /\ ~handles[f].print
       /\ handles[f].unread = 0 /\ Len(captured \o r.captured) <= MaxJobs
       /\ handles' = [handles EXCEPT ![f].pipe = r.pipe,
                                     ![f].unread = IF r.reply = "none" THEN @ ELSE @ + 1]
       /\ captured' = captured \o [i \in DOMAIN r.captured |-> Job(r.captured[i], "")]
       /\ call' = [call EXCEPT ![f] = IF pdu.last THEN NoCall ELSE c]
       /\ doc' = IF done THEN [doc EXCEPT ![f] = Heard(c, @)] ELSE doc
       /\ finished' = IF ended THEN Append(finished, doc[f][c.printer].pieces) ELSE finished
       /\ UNCHANGED <<sess, trees, nextTree, nextFid, peer>>

Pdu(type, first, last, op, n) ==
    [type |-> type, first |-> first, last |-> last, op |-> op, part |-> [op |-> op, piece |-> n]]

\* The client starts a request, abandoning one it has not finished.
Calls(f, q, op, last) ==
    LET n == IF op = "WritePrinter" THEN piece + 1 ELSE 0
    IN /\ op = "WritePrinter" => piece < cfg.pieces
       /\ piece' = IF n # 0 THEN n ELSE piece
       /\ WritePipe(f, Pdu("request", TRUE, last, op, n),
            [op |-> op, printer |-> q, pieces |-> IF n # 0 THEN <<n>> ELSE <<>>])

\* It goes on with one, sending a part of that request or of another.
Continues(f, op, last) ==
    LET c == call[f]
        n == IF op = "WritePrinter" THEN piece + 1 ELSE 0
    IN /\ op = "WritePrinter" => piece < cfg.pieces
       /\ piece' = IF n # 0 THEN n ELSE piece
       /\ WritePipe(f, Pdu("request", FALSE, last, op, n),
            [c EXCEPT !.pieces = IF n # 0 THEN Append(@, n) ELSE @])

\* A BIND, or a PDU of another type.
Binds(f, type) ==
    /\ UNCHANGED piece
    /\ WritePipe(f, Pdu(type, TRUE, FALSE, "other", 0), call[f])

\* READ takes what the pipe has answered, or nothing.
Read(f) ==
    /\ Command /\ Opened(f)
    /\ handles' = [handles EXCEPT ![f].unread = 0]
    /\ UNCHANGED <<sess, trees, nextTree, nextFid, peer, spooling>>

\* Answered without any effect: FLUSH, LOGOFF, which leaves the session as it
\* is, a command that is not supported, a file that is not open, a name that is
\* not known, a body that does not parse.
Ineffective == Command /\ UNCHANGED <<server, peer, spooling>>

Next ==
    \/ Connect \/ Disconnect \/ Refuse
    \/ \E offer \in Offers: Negotiate(offer)
    \/ Leg1 \/ BadSetup
    \/ \E user \in Users, password \in Passwords:
            \/ Leg2(user, password, Authenticate(user, password))
            \/ Leg2(user, password, NoToken)
    \/ \E share \in {"pipe", "print"}: TreeConnect(share)
    \/ \E tree \in 1..MaxTrees: TreeDisconnect(tree)
    \/ \E tree \in 0..MaxTrees, name \in {"spoolss", "document"}: Create(tree, name)
    \/ Ineffective
    \/ \E f \in Fids:
        \/ WriteSpool(f) \/ Close(f) \/ Read(f)
        \/ \E type \in {"bind", "other"}: Binds(f, type)
        \/ \E last \in BOOLEAN:
            \/ \E op \in {call[f].op, "other"}: Continues(f, op, last)
            \/ \E op \in Ops, q \in Printers: Calls(f, q, op, last)

Spec == Init /\ [][Next]_vars

---------------------------------------------------------------------------
\* Properties

\* A document as the client ended it, as much of it as a job keeps.
Kept(pieces) == AppendCapped(<<>>, pieces)

\* The variables keep their types, a session that is authenticated has keys,
\* and only an open connection of a session has files (smbSession).
TypeOK ==
    /\ cfg \in Configs /\ conn \in {"open", "closed"} /\ conns \in 0..MaxConns
    /\ DOMAIN trees \subseteq 1..nextTree /\ nextTree <= MaxTrees
    /\ Len(handles) = nextFid /\ nextFid <= MaxFids
    /\ sess # NoSession => (sess.auth => sess.keys # NoKeys) /\ (sess.guest => sess.auth)
    /\ (sess = NoSession \/ ~sess.auth) => trees = <<>> /\ handles = <<>>
    /\ \A f \in DOMAIN handles: Len(handles[f].buf) <= Cap /\ Len(handles[f].pipe.spool.buf) <= Cap
    /\ piece \in 0..cfg.pieces /\ Len(captured) <= MaxJobs

\* A document whose end was acknowledged, by CLOSE or by EndDocPrinter, is
\* captured once and holds what was acknowledged of it, in order and up to the
\* cap, whatever fragments, printers, logins and disconnected trees came in
\* between; and nothing else is captured (handleClose, realSpoolssDispatcher).
CapturedAsEnded ==
    [i \in DOMAIN captured |-> captured[i].data] = [i \in DOMAIN finished |-> Kept(finished[i])]

\* Behind RequireAuth a job is captured only for a client that has proved a
\* password to the session it prints in; and the user a job names has proved
\* his (handleSMBConn, handleClose).
JobsAreAttributed ==
    [][\A i \in DOMAIN captured' \ DOMAIN captured:
            /\ cfg.requireAuth => proved # {}
            /\ captured'[i].user \in proved \cup {""}]_vars

\* A client that has logged in under 3.1.1 has the keys of the server: each of
\* its frames is admitted and it can read each answer (handleSMBConn: the
\* folding of the handshake into the preauth hash).
Understood ==
    client.keys # NoKeys /\ conn = "open" =>
        \A p \in Protections: /\ Admitted(p, Frame(p, "request"))
                              /\ Readable(Answer(p, sess, "answer"))
FirstLogin == client.logins = 1 /\ sess.dialect = "3.1.1" /\ sess.cipher = "gcm"
FirstLoginUnderstood == sess # NoSession /\ FirstLogin => Understood
=============================================================================
