------------------------------- MODULE MCGate -------------------------------
(***************************************************************************)
(* Instances of Gate for TLC: artifact "app" (and "lib", which it pins),   *)
(* with envelopes that pass or fail the four checks each in another way.   *)
(***************************************************************************)
EXTENDS Gate

MCKeys == {"keyA", "keyB", "keyU", "keyR"}
MCDigests == {"aa", "AA", "bb"}
MCLower == [d \in MCDigests |-> IF d = "AA" THEN "aa" ELSE d]

Sha(d) == [sha256 |-> d, other |-> NoDigest]
Subject(n, d) == [name |-> n, digest |-> d]
Sig(k) == [signer |-> k, keyid |-> k]
Prov(b, c, deps) == [builder |-> b, uri |-> "repo", commit |-> c, deps |-> deps]
Env(sigs, st) == [form |-> "ok", sigs |-> sigs, st |-> st]
St(subjects, prov) == [subjects |-> subjects, provenance |-> prov]

App == [name |-> "app", sha |-> "aa"]
AppAA == {Subject("app", Sha("aa"))}
OnLib == <<Subject("lib", Sha("bb"))>>
OnBoth == <<Subject("lib", Sha("bb")), Subject("lib", [sha256 |-> NoDigest, other |-> "bb"])>>

MCContent == [
  good      |-> Env(<<Sig("keyA")>>, St(AppAA, Prov("builderA", "c1", OnLib))),
  upper     |-> Env(<<[signer |-> "keyA", keyid |-> NoKey]>>,
                    St({Subject("app", Sha("AA")), Subject("lib", Sha("aa"))},
                       Prov("builderA", "c1", OnBoth))),
  otherSrc  |-> Env(<<Sig("keyB")>>, St(AppAA, Prov("builderB", "c1", <<>>))),
  unbound   |-> Env(<<Sig("keyB")>>, St(AppAA, Prov("builderA", "c1", <<>>))),
  unpinned  |-> Env(<<Sig("keyA")>>, St(AppAA, Prov("builderA", NoCommit, <<>>))),
  untrusted |-> Env(<<Sig("keyU")>>, St(AppAA, Prov("builderA", "c1", OnLib))),
  revoked   |-> Env(<<Sig("keyR")>>, St(AppAA, Prov("builderA", "c1", OnLib))),
  tampered  |-> Env(<<Sig("keyA")>>, St({Subject("app", Sha("bb")), Subject("app", Sha("aa"))},
                                        Prov("builderA", "c1", OnLib))),
  extraAlg  |-> Env(<<Sig("keyA")>>,
                    St({Subject("app", [sha256 |-> "aa", other |-> "bb"])},
                       Prov("builderA", "c1", <<>>))),
  twoSigs   |-> Env(<<Sig("keyU"), Sig("keyA")>>, St(AppAA, Prov("builderA", "c1", <<>>))),
  noBody    |-> Env(<<Sig("keyA")>>, NoStatement),
  forged    |-> Env(<<[signer |-> NoKey, keyid |-> "keyA"]>>,
                    St(AppAA, Prov("builderA", "c1", OnLib)))]
MCEnvelopes == DOMAIN MCContent

MCPolicy == [id |-> "p1", builders |-> {"builderA", "builderB"}, sources |-> {"repo"},
             from |-> 0, until |-> 10]
Cfg(feed) == [anchors   |-> [keyA |-> "builderA", keyB |-> "builderB"],
              untrusted |-> {"keyU"}, tsas |-> {}, policy |-> MCPolicy, feed |-> feed]
MCConfigs == {Cfg([version |-> 1, events |-> [keyR |-> [comp |-> 5, pem |-> TRUE]]]),
              Cfg(NoFeed)}

Req(es, now) == [artifact |-> App, envelopes |-> es, now |-> now]
MCRequests == {Req(<<"good">>, 5), Req(<<"good">>, 10),
               Req(<<"upper", "otherSrc">>, 5), Req(<<"good", "untrusted">>, 5),
               Req(<<"revoked", "good">>, 5), Req(<<"tampered", "good">>, 9),
               Req(<<"unbound">>, 5), Req(<<"unpinned">>, 5),
               Req(<<"noBody", "upper">>, 5), Req(<<"good", "forged">>, 5),
               Req(<<"twoSigs", "otherSrc">>, 5)}

\* For liveness.
MCConfigsOne == {Cfg(NoFeed)}
MCRequestsFew == {Req(<<"upper", "otherSrc">>, 5), Req(<<"revoked">>, 5)}

\* For the run about digests by an algorithm that is not supported.
MCRequestsExtra == {Req(<<"extraAlg">>, 5)}
=============================================================================
