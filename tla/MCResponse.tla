------------------------------ MODULE MCResponse ------------------------------
(***************************************************************************)
(* Instances of Response for TLC.                                          *)
(***************************************************************************)
EXTENDS Response

MCLists == {"ioc", "watch", "misp"}
MCShipped == [l \in MCLists |-> IF l = "ioc" THEN {"hash"} ELSE {}]
MCMisp == <<"misp", "watch", "misp", "misp">>
Src(t, l) == [type |-> t, list |-> l]
MCConfigs == {<<Src("feodotracker", "ioc"), Src("misp", "misp")>>,
              <<Src("abuseipdb", "watch"), Src("plaintext", "ioc")>>}
Line(f, k) == [form |-> f, key |-> k]
MCPages == {{Line("bare", "net"), Line("pair", "domain")}}
MCPosts == {{"hash"}}

Step(t, given, cont, l, k) ==
    [type |-> t, given |-> given, cont |-> cont, list |-> l, key |-> k]
Watch(l, k) == Step("add_to_watchlist", TRUE, FALSE, l, k)
Plain(t, cont) == Step(t, TRUE, cont, "watch", "ip")

Book(dry, on, actions) ==
    [enabled |-> TRUE, dry |-> dry, trigger |-> on, actions |-> actions]
Severe == Trigger({}, {}, {}, 10)

MCBooks ==
    <<Book(FALSE, Severe, <<Watch("watch", "ip"), Plain("webhook", TRUE),
                             Watch("ioc", "dotted")>>),
      Book(FALSE, Trigger({1}, {"auth"}, {"host"}, 0),
           <<Step("block_ip", FALSE, TRUE, "watch", "ip"),
             Plain("create_case", FALSE), Watch("ioc", "ip6")>>)>>
MCDrafts == {Book(TRUE, Severe, <<Plain("isolate_host", FALSE)>>),
             Book(FALSE, Severe, << >>),
             Book(FALSE, Severe, <<Plain("isolate_host", FALSE),
                                   Plain("notify_email", FALSE)>>)}
MCPatches == {[enabled |-> FALSE], [dry |-> TRUE]}
MCAlerts == {[rule |-> 1, groups |-> {"auth"}, agent |-> "host", level |-> 12],
             [rule |-> 2, groups |-> {"fim"}, agent |-> "host", level |-> 12]}
=============================================================================
