----------------------------- MODULE SmbCrypto -----------------------------
(***************************************************************************)
(* What the SMB server computes with keys, as terms.  A hash or a cipher   *)
(* is an uninterpreted constructor: two terms are equal exactly when the   *)
(* same function was applied to the same arguments, and a sealed message   *)
(* opens only under the key that sealed it.  Byte orders, paddings, block  *)
(* rounds and DER lengths are left out; which values go into which         *)
(* computation is not.                                                     *)
(***************************************************************************)

None == <<"none">>

Md4(data) == <<"md4", data>>

\* ntowfv2: only the account name is folded to upper case, which the names of
\* these instances already are.
Ntowfv2(user, domain, password) == <<"ntowf", Md4(password), user, domain>>

\* ntlmv2Response: NTProofStr and SessionBaseKey.
NTProofStr(ntowf, challenge, temp) == <<"proof", ntowf, challenge, temp>>
SessionBaseKey(ntowf, proof) == <<"sbk", ntowf, proof>>

\* The AV_PAIR list the client copies into its temp blob.
TargetInfo(domain, computer) == <<"av", domain, computer>>
Temp(clientChallenge, info) == <<"temp", clientChallenge, info>>

\* buildChallenge and its SPNEGO wrapping: extractNTLM finds the NTLM token
\* wherever it stands in a security buffer, so a wrapped token is the token.
BuildChallenge(challenge, info) ==
    [type |-> "challenge", challenge |-> challenge, info |-> info]
SpnegoWrap(state, token) == [state |-> state, token |-> token]
ExtractNTLM(secBuf) == secBuf.token

\* buildAuthenticate, the client's answer; parseAuthenticate reads the fields
\* back, or fails on a message that is cut short.
BuildAuthenticate(user, domain, proof, temp) ==
    [type |-> "authenticate", user |-> user, domain |-> domain,
     proof |-> proof, temp |-> temp]
ParseAuthenticate(msg) == "user" \in DOMAIN msg

\* verifyNTLMv2 computes with the domain of the configured account, not with
\* the one the message names.
VerifyNTLMv2(user, domain, password, challenge, msg) ==
    msg.proof = NTProofStr(Ntowfv2(user, domain, password), challenge, msg.temp)

\* smbKDF and the three keys deriveSessionKeys makes with it.
SmbKDF(key, label, context) == <<"kdf", key, label, context>>
DeriveSessionKeys(sbk, preauth) ==
    [signing |-> SmbKDF(sbk, "SMBSigningKey", preauth),
     c2s |-> SmbKDF(sbk, "SMBC2SCipherKey", preauth),
     s2c |-> SmbKDF(sbk, "SMBS2CCipherKey", preauth)]

\* updatePreauth: the hash of a transcript is its sequence of messages.
UpdatePreauth(preauth, msg) == <<"sha512", preauth, msg>>

AesCMAC(key, msg) == <<"cmac", key, msg>>
Sign(key, msg) == [flagged |-> TRUE, sig |-> AesCMAC(key, msg), msg |-> msg]
Unsigned(msg) == [flagged |-> FALSE, sig |-> None, msg |-> msg]
VerifySign(key, frame) == frame.sig = AesCMAC(key, frame.msg)

\* smbEncrypt and smbDecrypt: AES-128-GCM whatever cipher was negotiated.
Encrypt(key, frame) == [sealedBy |-> <<"gcm", key>>, frame |-> frame]
Decrypts(key, sealed) == sealed.sealedBy = <<"gcm", key>>
=============================================================================
