------------------------------ MODULE MCReview ------------------------------
(***************************************************************************)
(* Instances of Review for TLC: three artifacts whose attestations pin one *)
(* another in every way (chains, forks, cycles, itself), as the gate would *)
(* have stored them.                                                       *)
(***************************************************************************)
EXTENDS Review, TLC
LOCAL INSTANCE SequencesExt

Live   == "live"       \* anchored
Leaked == "leaked"     \* anchored and revoked
Gone   == "gone"       \* revoked, no longer anchored, known from the feed
MCKeys == {Live, Leaked, Gone, "tsa"}

MCNames == {"a", "b", "c"}
MCLower == [n \in MCNames |-> n]
Art(n) == [name |-> n, sha |-> n]
Sha(n) == [sha256 |-> n, other |-> NoDigest]

\* An upload of artifact n: who signed its attestation and what it pins.
Upload(n, key, pins) == [of |-> n, key |-> key, pins |-> pins]

MCContentOf(u) ==
  [form |-> "ok", sigs |-> <<[signer |-> u.key, keyid |-> u.key]>>,
   st |-> [subjects   |-> {[name |-> u.of, digest |-> Sha(u.of)]},
           provenance |-> [builder |-> "builder", uri |-> "repo", commit |-> "c1",
                           deps |-> [i \in DOMAIN u.pins |->
                                       [name |-> u.pins[i], digest |-> Sha(u.pins[i])]]]]]

MCMixed ==
  {Upload("a", Leaked, <<>>),    Upload("a", Live, <<"c">>),
   Upload("b", Live, <<"a">>),   Upload("b", Gone, <<"a", "b">>),
   Upload("c", Live, <<"b">>),   Upload("c", Leaked, <<"a", "b">>),
   Upload("c", "tsa", <<"a">>)}
MCUploads == MCMixed \cup {Upload("c", Live, <<"a">>)}
MCContent == [u \in MCUploads |-> MCContentOf(u)]

MCConfig ==
  [anchors |-> (Live :> "builder" @@ Leaked :> "builder"), untrusted |-> {}, tsas |-> {"tsa"},
   policy  |-> [id |-> "p1", builders |-> {"builder"}, sources |-> {"repo"}, from |-> 0, until |-> 10],
   feed    |-> [version |-> 2, events |-> (Leaked :> [comp |-> 5, pem |-> FALSE]
                                           @@ Gone :> [comp |-> 5, pem |-> TRUE])]]

\* The store after the gate handled the uploads us, one after another, and
\* registered the artifacts regs (those of us among them).
Rows(us) == [i \in DOMAIN us |-> [artifact |-> Art(us[i].of), envelope |-> us[i],
                                  acceptedKey |-> VerifyEnvelope(us[i], KnownKeys(MCConfig)).acceptedKey]]
Edges(us) ==
  FoldLeft(LAMBDA es, i : es \o [k \in DOMAIN DeclaredPins(MCConfig, us[i]) |->
             [artifact |-> Art(us[i].of), attestation |-> i,
              name |-> DeclaredPins(MCConfig, us[i])[k].name,
              sha  |-> DeclaredPins(MCConfig, us[i])[k].sha]],
           <<>>, [i \in DOMAIN us |-> i])
StoreAfter(us, regs) ==
  [config |-> MCConfig, artifacts |-> {Art(n) : n \in regs},
   attestations |-> Rows(us), dependencies |-> Edges(us)]

\* Every set of uploads, and one where an artifact was registered by a request
\* that then failed before its attestation was stored.
MCStores ==
  {StoreAfter(SetToSeq(us), {u.of : u \in us}) : us \in SUBSET MCMixed \ {{}}}
    \cup {StoreAfter(<<Upload("a", Live, <<"c">>), Upload("b", Live, <<"a">>)>>, MCNames)}
\* Two artifacts, b and c, built from the same input.
MCStoresSiblings == {StoreAfter(<<Upload("a", Leaked, <<>>), Upload("b", Live, <<"a">>),
                                  Upload("c", Live, <<"a">>)>>, MCNames)}
MCStoresFew == {StoreAfter(<<Upload("a", Leaked, <<>>), Upload("b", Live, <<"a">>),
                             Upload("c", Leaked, <<"a", "b">>)>>, MCNames),
                \* a cycle, with an upload that pins itself
                StoreAfter(<<Upload("a", Live, <<"c">>), Upload("a", Leaked, <<>>),
                             Upload("b", Gone, <<"a", "b">>), Upload("c", Live, <<"b">>)>>, MCNames)}

Genuinely(u, t) == [claimed |-> u, bound |-> u, tsa |-> "tsa", signer |-> "tsa", time |-> t]
AEarly == Genuinely(Upload("a", Leaked, <<>>), 4)
ALate  == Genuinely(Upload("a", Leaked, <<>>), 5)
BEarly == Genuinely(Upload("b", Gone, <<"a", "b">>), 4)
CLate  == Genuinely(Upload("c", Leaked, <<"a", "b">>), 6)
Forged == [AEarly EXCEPT !.signer = NoKey, !.time = 3]
Misbound == [AEarly EXCEPT !.bound = Upload("b", Gone, <<"a", "b">>), !.time = 2]
NoAuthority == [AEarly EXCEPT !.tsa = Live, !.signer = Live, !.time = 1]

MCStamps == {ALate, BEarly, CLate, Forged, Misbound, NoAuthority}
MCStampsFew == {ALate, AEarly, Forged, Misbound, NoAuthority}
=============================================================================
