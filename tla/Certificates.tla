---------------------------- MODULE Certificates ----------------------------
(***************************************************************************)
(* Private keys and X.509 certificates: pkg/util/x509.go.                  *)
(*                                                                         *)
(* Keys and certificates travel between template functions as PEM text, in *)
(* the registry or in request parameters.  A document is its PEM block and *)
(* whether other text follows it; a key is its type and an identity, a     *)
(* certificate also who signed it.  What a call returns is an outcome: a   *)
(* value, or the kind of the error.                                        *)
(***************************************************************************)
EXTENDS Naturals, Sequences, FiniteSets

Ok(v) == [ok |-> v]
Fail(why) == [err |-> why]
Succeeded(o) == "ok" \in DOMAIN o

CONSTANTS
    RSAMinimum,  \* external: the size from which rsa.GenerateKey finds a key
    RSASigning   \* external: the size from which an RSA key can sign a hash

ASSUME SizeAssumption == RSAMinimum \in Nat \ {0} /\ RSASigning \in Nat

Elliptic == {"EllipticP224", "EllipticP256", "EllipticP384", "EllipticP521"}
KeyTypes == {"RSA", "ED25519"} \cup Elliptic

(* The names of the encodings, which are not those of the manual. *)
KeyEncodingPKCS1 == "PKCS#1"
KeyEncodingPKCS8 == "PKCS#8"
KeyEncodingSEC1 == "SEC 1"

(* The PEM label of an encoding, and the keys it can hold. *)
Label == [e \in {KeyEncodingPKCS1, KeyEncodingPKCS8, KeyEncodingSEC1} |->
            CASE e = KeyEncodingPKCS1 -> "RSA_PRIVATE_KEY"
              [] e = KeyEncodingPKCS8 -> "PRIVATE_KEY"
              [] OTHER                -> "EC_PRIVATE_KEY"]

Holds(label) == CASE label = "RSA_PRIVATE_KEY" -> {"RSA"}
                  [] label = "PRIVATE_KEY"     -> KeyTypes
                  [] label = "EC_PRIVATE_KEY"  -> Elliptic
                  [] OTHER                     -> {}

KeyDocument(label, type, bits, id) ==
    [label |-> label, type |-> type, bits |-> bits, id |-> id, extra |-> FALSE]

(* GenerateKey.  bits is 0 when it is not given; only RSA looks at it.     *)
GenerateKey(type, encoding, bits, id) ==
    IF \/ type \notin KeyTypes \/ (type = "RSA" /\ bits < RSAMinimum)
       \/ encoding \notin DOMAIN Label
       \/ type \notin Holds(Label[encoding])
    THEN Fail("config")
    ELSE Ok(KeyDocument(Label[encoding], type, bits, id))

-----------------------------------------------------------------------------
(* DecodePrivateKey: one PEM block of a known label that parses.           *)
DecodePrivateKey(doc) ==
    IF doc.extra \/ doc.type \notin Holds(doc.label)
    THEN Fail("config")
    ELSE Ok([type |-> doc.type, bits |-> doc.bits, id |-> doc.id])

DecodeCertificate(doc) ==
    IF doc.extra \/ doc.label # "CERTIFICATE" THEN Fail("config") ELSE Ok(doc)

(* A subject alternative name is a type and a name. *)
SANTypes == {"DNS", "EMAIL"}
SanValid(san) == Len(san) = 2 /\ san[1] \in SANTypes

Usages == {"CA", "Server", "Client"}

(* External: the hash that is signed fits into the key. *)
CanSign(key) == key.type = "RSA" => key.bits >= RSASigning

(* Mutant: the usage CA sets the usage of the key only. *)
IsCANever(usage) == FALSE

(* Only a certificate for the usage CA may issue others. *)
IsCA(usage) == usage = "CA"

(* The certificate of a key, signed with signer in the name of issuer.     *)
Certificate(key, usage, signer, issuer) ==
    [label |-> "CERTIFICATE", type |-> key.type, id |-> key.id,
     extra |-> FALSE, isCA |-> IsCA(usage), signer |-> signer, issuer |-> issuer]

(* The certificate authority is optional: << >> is nil.  It is used if its *)
(* key is given; its certificate alone is ignored.  Nothing asks whether   *)
(* the certificate given for it is a CA's.  External: CreateCertificate    *)
(* refuses a key that is not that of the parent's certificate.             *)
Sign(key, usage, caKey, caCert) ==
    IF caKey = << >> THEN Ok(Certificate(key, usage, key.id, key.id))
    ELSE LET k == DecodePrivateKey(caKey[1])
         IN  IF ~Succeeded(k) \/ caCert = << >> THEN Fail("config")
             ELSE LET c == DecodeCertificate(caCert[1])
                  IN  IF ~Succeeded(c) \/ ~CanSign(k.ok) \/ c.ok.id # k.ok.id
                      THEN Fail("config")
                      ELSE Ok(Certificate(key, usage, k.ok.id, c.ok.id))

(* GenerateCertificate, its checks in the order of the code.  The key      *)
(* signs a request for its own certificate first.                          *)
GenerateCertificate(keyDoc, usage, sans, caKey, caCert) ==
    LET key == DecodePrivateKey(keyDoc)
    IN  IF \/ ~Succeeded(key) \/ key.ok.type = "ED25519" \/ ~CanSign(key.ok)
           \/ \E i \in DOMAIN sans : ~SanValid(sans[i])
           \/ usage \notin Usages
        THEN Fail("config")
        ELSE Sign(key.ok, usage, caKey, caCert)
=============================================================================
