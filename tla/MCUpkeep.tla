------------------------------ MODULE MCUpkeep ------------------------------
(***************************************************************************)
(* An instance of Upkeep: five components that share no state.             *)
(*                                                                         *)
(* Keybox and KeyboxValidation do meet in one place: which of the keyboxes *)
(* of Keybox are accepted is what KeyboxValidation says of three files.    *)
(***************************************************************************)
EXTENDS Upkeep

CONSTANTS k1, k2, gen,     \* two published keyboxes and one that was generated
          Garbage, Spaces  \* Certificate elements that do not decode, and do not count

-----------------------------------------------------------------------------
(* Certificates: Google's root key, an intermediate, a device's leaf, and *)
(* somebody else's key, in proper, weak, expired and false chains.        *)

ThePublicKeys == {"google", "middle", "device", "other"}
TheKeyType == [google |-> "rsa", middle |-> "p384", device |-> "p256", other |-> "rsa"]
TheAnchorType == [google |-> "google"]

Cert(subject, issuer, key, signer, algorithm) ==
    [subject |-> subject, issuer |-> issuer, key |-> key, signer |-> signer,
     algorithm |-> algorithm, not_before |-> 2, not_after |-> 3]

Root      == Cert("root", "root", "google", "google", "rsa_sha256")
Middle    == Cert("mid", "root", "middle", "google", "rsa_sha256")
RootLeaf  == Cert("leaf", "root", "device", "google", "rsa_sha256")
MidLeaf   == Cert("leaf", "mid", "device", "middle", "ecdsa_sha384")
WeakLeaf  == Cert("leaf", "mid", "device", "middle", "ecdsa_sha512")
Expired   == [RootLeaf EXCEPT !.not_after = 2]
Forged    == Cert("leaf", "root", "device", "other", "rsa_sha256")
OwnRoot   == Cert("root", "root", "other", "other", "rsa_sha256")
CrossRoot == Cert("root", "mid", "google", "middle", "ecdsa_sha384")
TheCertificates ==
    {Root, Middle, RootLeaf, MidLeaf, WeakLeaf, Expired, Forged, OwnRoot, CrossRoot}
TheRevokedOnline   == {RootLeaf, Middle}
TheRevokedEmbedded == {Middle}

KeyOf(chain, private) == [chain |-> chain, private |-> private]
FileOf(keyboxes) == [readable |-> TRUE, keyboxes |-> keyboxes]
Single(key) == FileOf(<<<<key>>>>)

GoodKey == KeyOf(<<RootLeaf, Root>>, "device")
LongKey == KeyOf(<<MidLeaf, Middle, Root>>, "device")
BadKey  == KeyOf(<<Forged, Root>>, "device")
OwnKey  == KeyOf(<<OwnRoot>>, "other")    \* `keybox generate': one self-signed certificate
NoChain == KeyOf(Absent, "other")         \* and a key without any

\* Every chain of up to three elements with every private key, and a few files
\* with other numbers of keys and keyboxes.
TheDocuments ==
    {Single(KeyOf(chain, private)) :
        chain \in UNION {[1..n -> TheCertificates \cup {Garbage, Spaces}] : n \in 0..3},
        private \in {"device", "other", Absent, Garbled}}
    \cup {FileOf(<<<<a, b>>>>) : a, b \in {GoodKey, BadKey, OwnKey, NoChain}}
    \cup {FileOf(<<<<a>>, <<b>>>>) : a, b \in {GoodKey, BadKey}}
    \cup {FileOf(<<>>), FileOf(<<<<>>>>), [readable |-> FALSE, keyboxes |-> <<>>]}

-----------------------------------------------------------------------------
(* Keyboxes *)

TheSources == <<"yurikey", "upstream", "custom">>
DocumentOf(k) == CASE k = k1 -> Single(LongKey)
                   [] k = k2 -> FileOf(<<<<BadKey, GoodKey>>>>)
                   [] OTHER  -> FileOf(<<<<OwnKey, NoChain>>>>)
ASSUME SoundAreAccepted == Sound = {k \in Keyboxes : Accepts(DocumentOf(k), 3)}

-----------------------------------------------------------------------------
(* Security patch dates *)

ModuleProp(james, beakthoven, simulator, version) ==
    [james |-> james, beakthoven |-> beakthoven, simulator |-> simulator, version |-> version]
TheStores == {ModuleProp(TRUE, FALSE, FALSE, 0), ModuleProp(TRUE, TRUE, FALSE, 0),
              ModuleProp(FALSE, FALSE, FALSE, 158), ModuleProp(FALSE, FALSE, FALSE, 157)}
TheCustomDates == {<<2025, 6>>, <<2025, 6, 5>>}
\* In James' file: nothing, a custom date, and the device's own.
TheFoundDates == {Unset, <<2025, 6>>, <<2024, 5, 1>>}
TheFactoryDates ==
    {[system |-> <<2024, 5, 1>>, bootimage |-> Unset, vendor |-> <<2024, 3, 5>>],
     [system |-> Unset, bootimage |-> Unset, vendor |-> Unset]}
TheOwnParts == {{}, {"boot", "vendor"}}
LineOf(cell, date) == [cell |-> cell, date |-> date]
ThePages == {<<>>, <<LineOf(FALSE, <<2026, 1, 5>>), LineOf(TRUE, <<2026, 2, 5>>)>>}
TheTable == <<2026, 3, 1>>
Midnight(y, m, d) == 48 * (MonthStart(y, m) + d - 1)
\* Around the table's expiry, a month's last half hour, and the day after a leap day.
TheInstants == {Midnight(2026, 7, 1), Midnight(2026, 8, 1),
                Midnight(2027, 2, 1) - 1, Midnight(2028, 3, 1)}

-----------------------------------------------------------------------------
(* Region *)

TheBooted == [hwc |-> "CN", sku |-> ""]

-----------------------------------------------------------------------------

NoDevconfig == [line |-> Unset, comment |-> Unset, shared |-> FALSE]

\* Where a component with several initial states starts when it is not its turn.
Fixed ==
    /\ part \in Parts
    /\ IF part = "keybox" THEN TRUE ELSE files = [n \in Names |-> Nil]
    /\ IF part = "validation" THEN TRUE ELSE document = Single(GoodKey) /\ now = 3
    /\ IF part = "patch" THEN TRUE
       ELSE /\ store = ModuleProp(FALSE, FALSE, FALSE, 158)
            /\ clock = Midnight(2026, 7, 1)
            /\ properties = [system |-> Unset, bootimage |-> Unset, vendor |-> Unset]
            /\ devconfig = NoDevconfig
    /\ IF part = "status" THEN TRUE ELSE facts = (CHOOSE t \in Texts : TRUE) /\ hidden = FALSE

\* Only James reads devconfig.toml.
JamesOnly == Variant = "James" \/ devconfig = NoDevconfig

MCUpkeepInit == Fixed /\ UpkeepInit /\ JamesOnly
MCUpkeepSpec == MCUpkeepInit /\ [][UpkeepNext]_upkeepVars /\ UpkeepFairness
=============================================================================
