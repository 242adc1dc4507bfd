------------------------------ MODULE MCPolicy ------------------------------
(* The policy engine for TLC: a domain and a subdomain of it; and beside   *)
(* it the parsers, on an input that never changes.                         *)
EXTENDS Policy, Parsers, TLC

MCDomains == {<<"x">>, <<"s", "x">>}

MCHost == [c \in Conns |-> <<"s", "x">>]

MCIp == [c \in Conns |-> "ip1"]

MCNoRules == [block_domains |-> {}, exception_domains |-> {}, cosmetic |-> {}, global |-> FALSE]

NoConsent == [enabled |-> FALSE, default_consent |-> "essential_only", analytics_domains |-> {},
              site_overrides |-> <<>>, user_profiles |-> <<>>]

MCConsents ==
    {NoConsent} \cup
    [enabled : {TRUE}, default_consent : Levels, analytics_domains : SUBSET Domains,
     site_overrides : {<<>>, <<"x">> :> "all", <<"s", "x">> :> "analytics_ok",
                       (<<"x">> :> "analytics_ok") @@ (<<"s", "x">> :> "essential_only")},
     user_profiles : {<<>>, "ip1" :> "all"}]

NoBody == [enabled |-> FALSE, manual |-> FALSE, css_inject |-> FALSE,
           referer_spoof_domains |-> {}, query_param_strip |-> FALSE]

(* Every combination that decides a session or a DNS plan. The DNS plan    *)
(* does not look at the consent rule, and consent depends on the filter    *)
(* lists only in which hosts they make trackers, so that the consent rules *)
(* are combined with a few rule sets and all the others with every one.    *)
Plans(dns, consents) ==
    [mode : Modes,
     tracker_set_cookie : [enabled : {TRUE}, domains : SUBSET Domains \ {{}}]
                             \cup [enabled : {FALSE}, domains : {Domains}],
     dns_block : [enabled : dns, domains : {{<<"x">>}}], body_rewrite : {NoBody},
     consent_enforcement : consents, websocket_blocking : {TRUE}]

MCConsentConfigs == Plans({FALSE}, MCConsents)

MCPlanConfigs == Plans(BOOLEAN, {NoConsent})

MCPlanRules ==
    [block_domains : SUBSET Domains, exception_domains : SUBSET Domains,
     cosmetic : {{}}, global : {FALSE}]

MCConsentRules ==
    {MCNoRules,
     [MCNoRules EXCEPT !.block_domains = {<<"x">>}],
     [MCNoRules EXCEPT !.block_domains = {<<"s", "x">>}],
     [MCNoRules EXCEPT !.block_domains = {<<"x">>}, !.exception_domains = {<<"s", "x">>}]}

(* A few that differ in what a connection sees, one of them not valid. *)
MCBase == [mode |-> "enforce", tracker_set_cookie |-> [enabled |-> TRUE, domains |-> {<<"x">>}],
           dns_block |-> [enabled |-> FALSE, domains |-> {}], body_rewrite |-> NoBody,
           consent_enforcement |-> NoConsent, websocket_blocking |-> TRUE]

MCBody == [enabled |-> TRUE, manual |-> TRUE, css_inject |-> FALSE,
           referer_spoof_domains |-> {<<"x">>}, query_param_strip |-> TRUE]

(* The one beside the inputs of the parsers. *)
MCIdle == [MCBase EXCEPT !.mode = "disabled"]

MCReloadConfigs ==
    {MCBase,
     [MCBase EXCEPT !.mode = "report_only", !.body_rewrite = MCBody],
     [MCBase EXCEPT !.mode = "disabled", !.body_rewrite = MCBody],
     [MCBase EXCEPT !.consent_enforcement =
                       [NoConsent EXCEPT !.enabled = TRUE, !.default_consent = "all"]],
     [MCBase EXCEPT !.body_rewrite = [NoBody EXCEPT !.enabled = TRUE]]}

MCReloadRules ==
    {[MCNoRules EXCEPT !.exception_domains = {<<"s", "x">>}, !.block_domains = {<<"x">>}],
     [MCNoRules EXCEPT !.cosmetic = {<<"x">>}]}

-----------------------------------------------------------------------------
(* A policy that nothing changes any more and no connection follows. *)
SettledInit(C, R) ==
    /\ cfg \in {c \in C : validate(c)}
    /\ disk = Broken
    /\ rules \in R
    /\ mtime = MaxEdits + 1
    /\ poll = [pc |-> "idle", last_mtime |-> mtime, seen |-> mtime, got |-> cfg]
    /\ conn = [c \in Conns |-> [NewConnection EXCEPT !.pc = "done", !.steady = FALSE]]
    /\ refreshes = MaxRefreshes

MCName(type, bytes) == [type |-> type, name |-> bytes]

(* A name of no bytes, a character of two bytes and the first of them. *)
MCServerNames == {<<>>, <<MCName(0, <<97>>)>>, <<MCName(0, <<>>)>>, <<MCName(0, <<195, 169>>)>>, <<MCName(0, <<195>>)>>,
                  <<MCName(1, <<0, 0>>), MCName(0, <<97, 98>>)>>,
                  <<MCName(0, <<97>>), MCName(0, <<98>>)>>}

MCExtensions == [type : {0}, names : MCServerNames, data : {<<>>}]
                  \cup [type : {10}, names : {<<>>}, data : {<<>>, <<0, 0, 0, 1, 97>>}]

MCHellos == [session : {<<>>, <<0, 22, 1>>}, ciphers : {<<19, 1>>},
             extensions : UNION {[1..n -> MCExtensions] : n \in 0..2}]

MCHelloInputs == UNION {{HelloInput(h, n) : n \in 0..(Len(HelloBytes(h)) + 2)} : h \in MCHellos}

(* Sizes with a leading zero, a sign, a blank, an extension, a letter and  *)
(* two digits; data that looks like a line end and like a last chunk.      *)
MCChunks ==
    {[size |-> s, data |-> d] : s \in {<<49>>, <<48, 49>>, <<43, 49, 32>>, <<49, 59, 48>>}, d \in {<<13>>, <<48>>}}
      \cup {[size |-> <<53>>, data |-> <<48, 13, 10, 13, 10>>],
            [size |-> <<65>>, data |-> [i \in 1..10 |-> 48]],
            [size |-> <<49, 48>>, data |-> [i \in 1..16 |-> 48]]}

MCMessages ==
    [chunks : UNION {[1..n -> MCChunks] : n \in 0..2}, trailers : {<<>>, <<<<97>>>>, <<<<97>>, <<48>>>>}]

MCChunksInputs ==
    UNION {{ChunksInput(m, n) : n \in 0..(Len(MessageBytes(m)) + Len(LastChunk))} : m \in MCMessages}

MCRules ==
    LET D == {<<"a">>, <<"a", ".", "a">>} IN
    {DomainBlock(d) : d \in D} \cup {UrlPattern(d, <<"/", "a">>) : d \in D}
      \cup {CosmeticGlobal(<<"a">>)} \cup {CosmeticDomainScoped(d, <<"a">>) : d \in D}
      \cup {Exception(d) : d \in D}

(* Lines of at most five tokens. *)
MCLines ==
    LET Body == UNION {[1..n -> {"##", "^", "$", "/", "a", "*", " ", "."}] : n \in 0..4} IN
    {p \o b : p \in {<<>>, <<"||">>, <<"@@||">>}, b \in Body}

MCListInputs ==
    UNION {{ListInput(<<l>>, r) : l \in Spellings(r)} : r \in MCRules}
      \cup {ListInput(<<l>>, NoRule) : l \in MCLines}
      \cup {ListInput(<<<<"@@||", "a">>, l, <<"!", "a">>, <<" ">>, <<"##", t>>>>, NoRule) :
               l \in Spellings(DomainBlock(<<"a">>)), t \in {"a", ":has(", "<"}}

MCVars == <<vars, input>>

MCInit ==
    \/ Init /\ input = NoInput
    \/ SettledInit(MCPlanConfigs, MCPlanRules) /\ input = NoInput
    \/ SettledInit(MCConsentConfigs, MCConsentRules) /\ input = NoInput
    \/ SettledInit({MCIdle}, {MCNoRules}) /\ input \in MCHelloInputs
    \/ SettledInit({MCIdle}, {MCNoRules}) /\ input \in MCChunksInputs
    \/ SettledInit({MCIdle}, {MCNoRules}) /\ input \in MCListInputs

MCNext == Next /\ UNCHANGED input

(* The interval timer of the reload task keeps ticking. *)
MCSpec == MCInit /\ [][MCNext]_MCVars /\ WF_MCVars(ReloadTask /\ UNCHANGED input)
=============================================================================
