----------------------------- MODULE MCOffline -----------------------------
(***************************************************************************)
(* Instances of Offline for TLC: two releases of one bundle (the policy's  *)
(* window, the root's authorities and the feed change), attestations that  *)
(* pass or fail in different ways, and genuine, late, unbound and forged   *)
(* time stamps.                                                            *)
(***************************************************************************)
EXTENDS Offline

MCKeys == {"keyA", "keyB", "keyR", "tsa"}
MCDigests == {"aa", "AA", "bb"}
MCLower == [d \in MCDigests |-> IF d = "AA" THEN "aa" ELSE d]

Sha(d) == [sha256 |-> d, other |-> NoDigest]
Sig(k) == [signer |-> k, keyid |-> k]
Prov(b) == [builder |-> b, uri |-> "repo", commit |-> "c1", deps |-> <<>>]
Env(k, d, prov) == [form |-> "ok", sigs |-> <<Sig(k)>>,
                    st |-> [subjects |-> {[name |-> "app", digest |-> d]}, provenance |-> prov]]

MCContent == [
  good     |-> Env("keyA", Sha("AA"), Prov("builderA")),
  again    |-> Env("keyB", [sha256 |-> "aa", other |-> "bb"], Prov("builderB")),
  old      |-> Env("keyR", Sha("aa"), Prov("builderR")),
  wrong    |-> Env("keyA", Sha("bb"), Prov("builderA")),
  noBody   |-> [form |-> "ok", sigs |-> <<Sig("keyR")>>, st |-> NoStatement],
  bare     |-> [form |-> "unparseable", sigs |-> <<>>, st |-> NoStatement]]
MCEnvelopes == DOMAIN MCContent

MCPolicyIn == [pol |-> [id |-> "p1", builders |-> {"builderA", "builderB", "builderR"},
                        sources |-> {"repo"}, from |-> 0, until |-> 10]]
Anchors == [keyA |-> "builderA", keyB |-> "builderB", keyR |-> "builderR"]
MCRootIn == [root1 |-> [anchors |-> Anchors, tsas |-> {"tsa"}],
             root2 |-> [anchors |-> [keyA |-> "builderA"], tsas |-> {}]]
MCFeedIn == [feed1 |-> [version |-> 1, events |-> <<>>],
             feed2 |-> [version |-> 2, events |-> [keyR |-> [comp |-> 5, pem |-> TRUE]]]]
MCEnvelopeIn == [eGood |-> "good", eAgain |-> "again", eOld |-> "old", eWrong |-> "wrong",
                 eNoBody |-> "noBody", eBare |-> "bare"]
Stamp(e, k, t) == [bound |-> e, tsa |-> "tsa", signer |-> k, time |-> t]
MCStampIn == [sEarly  |-> Stamp("old", "tsa", 4), sLate |-> Stamp("old", "tsa", 5),
              sOther  |-> Stamp("good", "tsa", 3), sForged |-> Stamp("old", "keyR", 2)]
MCFiles == DOMAIN MCPolicyIn \cup DOMAIN MCRootIn \cup DOMAIN MCFeedIn
             \cup DOMAIN MCEnvelopeIn \cup DOMAIN MCStampIn

Att(b, f) == [base |-> b, file |-> f, name |-> "app"]
Unnamed(b, f) == [base |-> b, file |-> f, name |-> "artifact"]
Ts(b, f) == [base |-> b, file |-> f]
Bundle(root, feed, atts, stamps) ==
  [policy |-> "pol", root |-> root, feed |-> feed, attestations |-> atts, stamps |-> stamps]

MCSpecs == {
  Bundle("root1", "feed1", <<Att("a", "eGood"), Att("b", "eAgain")>>, <<>>),
  Bundle("root1", "feed2", <<Att("a", "eOld"), Att("b", "eGood")>>,
         <<Ts("a", "sLate"), Ts("b", "sEarly")>>),
  Bundle("root1", "feed2", <<Att("b", "eNoBody"), Att("a", "eOld")>>,
         <<Ts("b", "sOther"), Ts("a", "sForged")>>),
  Bundle("root2", "feed2", <<Att("b", "eOld"), Att("a", "eBare")>>, <<Ts("a", "sEarly")>>),
  Bundle("root1", "feed1", <<Att("a", "eWrong"), Unnamed("a", "eGood")>>, <<>>),
  Bundle("root1", "feed2", <<>>, <<>>)}

\* For the collision of two sources.
MCSpecsOne == {Bundle("root1", "feed1", <<Att("a", "eWrong"), Att("a", "eGood")>>, <<>>)}

Query(arts, now) == [artifacts |-> arts, now |-> now]
MCQueries == {Query([app |-> "aa"], 5), Query([app |-> "aa"], 10)}

MCForeign == {"torn", "feed1", "eGood"}
=============================================================================
