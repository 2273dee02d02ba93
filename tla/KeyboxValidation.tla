-------------------------- MODULE KeyboxValidation --------------------------
(***************************************************************************)
(* What makes a keybox acceptable (rust/src/keybox/validate.rs): the chain *)
(* of certificates behind each key, the trust anchors, the validity of the *)
(* leaf, the private key, and the revocation list, which is only reported. *)
(*                                                                         *)
(* Cryptography is abstract: a certificate names the key that signed it,   *)
(* and a signature verifies under that key and no other.  The wording of   *)
(* the report is left out, and with it NumberOfCertificates, of which a    *)
(* wrong value is only worth a message.                                    *)
(***************************************************************************)
EXTENDS Integers, Sequences

CONSTANTS
    PublicKeys,
    KeyType,        \* "rsa", "p256" or "p384" for each of them
    AnchorType,     \* the root type of the keys that are trust anchors
    Certificates,   \* with subject, issuer, key, signer, algorithm, validity
    RevokedOnline, RevokedEmbedded,    \* the two lists: sets of certificates
    Unusable,       \* a Certificate element whose content does not decode
    Ignored,        \* a Certificate element that is not PEM or is blank
    Absent,         \* no such element; no list; no report yet
    Garbled,        \* a private key that does not parse
    Documents,      \* the files to check
    Times, PreNtp   \* the clock's readings, and the first believable one

Anchors == DOMAIN AnchorType

ASSUME ValidationAssumption ==
    /\ KeyType \in [PublicKeys -> {"rsa", "p256", "p384"}]
    /\ Anchors \subseteq PublicKeys
    /\ \A k \in Anchors : AnchorType[k] \in {"google", "aosp_ec", "aosp_rsa", "knox"}
    /\ Times \subseteq Nat /\ PreNtp \in Nat
    /\ {Absent, Garbled} \cap PublicKeys = {}
    /\ {Unusable, Ignored} \cap Certificates = {}
    /\ \A c \in Certificates : c.not_before \in Int /\ c.not_after \in Int

VARIABLES
    document,      \* the file: whether it is readable XML, and its keyboxes
    now,
    revocations,   \* load_revocation's cache, Absent when it is older than 60 s
    report         \* what validate_full returned last

validationVars == <<document, now, revocations, report>>

-----------------------------------------------------------------------------
(* Certificates *)

\* verify_signature: the algorithms ring verifies, each for its kind of key.
AlgorithmsFor == [rsa  |-> {"rsa_sha1", "rsa_sha256", "rsa_sha384", "rsa_sha512"},
                  p256 |-> {"ecdsa_sha256"},
                  p384 |-> {"ecdsa_sha384"}]

verify_signature(son, key) ==
    son.signer = key /\ son.algorithm \in AlgorithmsFor[KeyType[key]]

verify_link(son, father) ==
    son.issuer = father.subject /\ verify_signature(son, father.key)

\* Mutant of verify_chain: the last hop, to the root, is not checked.
verify_chain_short(certs) ==
    \A i \in 1..Len(certs) - 2 : verify_link(certs[i], certs[i + 1])

verify_chain(certs) ==
    \A i \in 1..Len(certs) - 1 : verify_link(certs[i], certs[i + 1])

detect_root_type(root) == IF root.key \in Anchors THEN AnchorType[root.key] ELSE "unknown"

\* A clock that has not been set yet does not expire anything.
check_validity(leaf, time) ==
    time >= PreNtp => leaf.not_before <= time /\ time <= leaf.not_after

match_private_key(private, leaf) ==
    CASE private = Absent    -> "skipped"
      [] private = leaf.key  -> "matched"
      [] OTHER               -> "mismatched"    \* another key, or one that does not parse

-----------------------------------------------------------------------------
(* Keys *)

\* The Certificate elements that count.
Pems(key) == IF key.chain = Absent THEN <<>> ELSE SelectSeq(key.chain, LAMBDA c : c # Ignored)

Decodes(certs) == \A i \in DOMAIN certs : certs[i] # Unusable

FailedKey == [ok |-> FALSE, chain_valid |-> FALSE, validity_ok |-> FALSE,
              root_type |-> "unknown", key_match |-> "skipped", revoked |-> FALSE]

\* check_key, once there is a decoded chain.
CheckChain(certs, private, time, revoked) ==
    LET leaf == Head(certs)
        root == certs[Len(certs)]
        root_type == detect_root_type(root)
        chain_valid == /\ Len(certs) >= 2
                       /\ verify_chain(certs)
                       /\ root_type # "unknown" => verify_link(root, root)
        validity_ok == check_validity(leaf, time)
        key_match == match_private_key(private, leaf)
    IN  [chain_valid |-> chain_valid, validity_ok |-> validity_ok,
         root_type |-> root_type, key_match |-> key_match,
         revoked |-> leaf \in revoked,
         ok |-> /\ chain_valid /\ validity_ok
                /\ root_type # "unknown" /\ key_match # "mismatched"]

check_key(key, time, revoked) ==
    LET certs == Pems(key)
    IN  IF certs = <<>> \/ ~Decodes(certs)
        THEN FailedKey
        ELSE CheckChain(certs, key.private, time, revoked)

-----------------------------------------------------------------------------
(* Files *)

KeyAt(doc, i, j) == doc.keyboxes[i][j]

\* Every key of every keybox.
Positions(doc) == UNION {{<<i, j>> : j \in DOMAIN doc.keyboxes[i]} : i \in DOMAIN doc.keyboxes}

\* validate_full returns an error instead of a report: an empty, oversized or
\* unreadable file, or one without a keybox or without a key.
NoReport(doc) == ~doc.readable \/ Positions(doc) = {}

\* What is left of a chain without the elements that do not count are
\* certificates, decoded or not.
ASSUME DocumentsAssumption ==
    \A doc \in Documents :
        /\ doc.readable \in BOOLEAN
        /\ \A p \in Positions(doc) :
              Pems(KeyAt(doc, p[1], p[2])) \in Seq(Certificates \cup {Unusable})

validate_full(doc, time, list) ==
    LET revoked == IF list = "online" THEN RevokedOnline ELSE RevokedEmbedded
        keys == [p \in Positions(doc) |-> check_key(KeyAt(doc, p[1], p[2]), time, revoked)]
    IN  [ok |-> \E p \in Positions(doc) : keys[p].ok, keys |-> keys, source |-> list]

\* validate: what fetch, set_custom and has_valid_existing_keybox ask.  The
\* revocation list plays no part in it.
Accepts(doc, time) == ~NoReport(doc) /\ validate_full(doc, time, "embedded").ok

-----------------------------------------------------------------------------
(* The process that validates *)

\* load_revocation and validate_full.  The list is downloaded unless there is
\* a fresh one; when that fails, the embedded one takes its place for as long.
\* Whether there is any key is only asked after that.
Validate ==
    /\ IF ~document.readable \/ document.keyboxes = <<>>
       THEN report' = Absent /\ UNCHANGED revocations
       ELSE \E list \in IF revocations = Absent THEN {"online", "embedded"} ELSE {revocations} :
              /\ revocations' = list
              /\ report' = IF NoReport(document) THEN Absent
                           ELSE validate_full(document, now, list)
    /\ UNCHANGED <<document, now>>

\* REVOCATION_CACHE_TTL passes.
CacheExpires ==
    /\ revocations # Absent
    /\ revocations' = Absent
    /\ UNCHANGED <<document, now, report>>

ValidationInit ==
    /\ document \in Documents /\ now \in Times
    /\ revocations = Absent
    /\ report = Absent

ValidationNext == Validate \/ CacheExpires

ValidationSpec == ValidationInit /\ [][ValidationNext]_validationVars

-----------------------------------------------------------------------------
(* Properties *)

ValidationTypeOK ==
    /\ document.readable \in BOOLEAN /\ now \in Times
    /\ revocations \in {Absent, "online", "embedded"}
    /\ report # Absent =>
         /\ report.source \in {"online", "embedded"}
         /\ \A p \in Positions(document) :
              /\ report.keys[p].root_type
                   \in {"google", "aosp_ec", "aosp_rsa", "knox", "unknown"}
              /\ report.keys[p].key_match \in {"matched", "mismatched", "skipped"}

\* The definition the check is measured against.  The keys vouched for by a
\* set of certificates: the least set with the anchors and with the key of
\* each certificate that a key of the set has signed.
VouchedFor(key, certs) ==
    \A trusted \in SUBSET {c.key : c \in certs} :
        (\A c \in certs : c.key \in Anchors \/ c.signer \in trusted \cup Anchors => c.key \in trusted)
        => key \in trusted

\* A key to trust: its leaf is in force, vouched for by the chain's own
\* certificates, and goes with the private key if there is one.
Trustworthy(key, time) ==
    /\ Pems(key) # <<>> /\ Decodes(Pems(key))
    /\ LET leaf == Head(Pems(key))
           certs == {Pems(key)[i] : i \in DOMAIN Pems(key)}
       IN  /\ VouchedFor(leaf.key, certs)
           /\ time \in leaf.not_before..leaf.not_after \/ time < PreNtp
           /\ key.private \in {leaf.key, Absent}

\* "never installs a broken keybox" (README.md:61): what validate_full accepts
\* has a key to trust, whatever order, names, algorithms and signatures the
\* certificates of the file have.
AcceptedIsTrusted ==
    report # Absent /\ report.ok =>
        \E p \in Positions(document) : Trustworthy(KeyAt(document, p[1], p[2]), now)
=============================================================================
