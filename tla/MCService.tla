----------------------------- MODULE MCService ------------------------------
(***************************************************************************)
(* Instances of Service for TLC: a library signed by a key that will leak, *)
(* and an application that pins it, uploaded in either order.              *)
(***************************************************************************)
EXTENDS Service, TLC

MCKeys == {"live", "leaked", "tsa"}
MCNames == {"app", "lib"}
MCLower == [n \in MCNames |-> n]
Art(n) == [name |-> n, sha |-> n]
Sha(n) == [sha256 |-> n, other |-> NoDigest]

Env(of, key, pins) ==
  [form |-> "ok", sigs |-> <<[signer |-> key, keyid |-> key]>>,
   st |-> [subjects   |-> {[name |-> of, digest |-> Sha(of)]},
           provenance |-> [builder |-> "builder", uri |-> "repo", commit |-> "c1",
                           deps |-> [i \in DOMAIN pins |->
                                       [name |-> pins[i], digest |-> Sha(pins[i])]]]]]

MCContent == [libLeaked |-> Env("lib", "leaked", <<>>),
              appLive   |-> Env("app", "live", <<"lib">>),
              appLeaked |-> Env("app", "leaked", <<"lib">>)]
MCEnvelopes == DOMAIN MCContent

Cfg(feed) ==
  [anchors |-> [live |-> "builder", leaked |-> "builder"], untrusted |-> {}, tsas |-> {"tsa"},
   policy  |-> [id |-> "p1", builders |-> {"builder"}, sources |-> {"repo"}, from |-> 0, until |-> 10],
   feed    |-> feed]
NoneRevoked == Cfg([version |-> 1, events |-> [k \in {} |-> [comp |-> 0, pem |-> FALSE]]])
LeakKnown   == Cfg([version |-> 2, events |-> [leaked |-> [comp |-> 5, pem |-> FALSE]]])
AllRevoked  == Cfg([version |-> 3, events |-> [leaked |-> [comp |-> 4, pem |-> FALSE],
                                               live |-> [comp |-> 4, pem |-> FALSE],
                                               tsa |-> [comp |-> 1, pem |-> TRUE]]])
MCConfigs == {NoneRevoked, LeakKnown, AllRevoked}

Req(n, es) == [artifact |-> Art(n), envelopes |-> es, now |-> 5]
MCRequests == {Req("lib", <<"libLeaked">>), Req("app", <<"appLive">>), Req("app", <<"appLeaked">>)}
MCRequestsOne == {Req("lib", <<"libLeaked">>), Req("app", <<"appLive">>)}

Late(e) == [claimed |-> e, bound |-> e, tsa |-> "tsa", signer |-> "tsa", time |-> 5]
Early(e) == [Late(e) EXCEPT !.time = 3]
MCStamps == {Late("libLeaked"), Early("libLeaked")}
MCStampsLate == {Late("libLeaked")}

OneRelease == <<LeakKnown>>
\* A feed that grows, and a roll-back that trusts one of the signers again.
Rollout == <<NoneRevoked, LeakKnown, AllRevoked, LeakKnown>>
=============================================================================
