----------------------------- MODULE ListParser -----------------------------
(***************************************************************************)
(* src/filter_list_parser.rs and aggregate_rules of src/filter_list.rs:    *)
(* what the lines of filter lists become. A line is a sequence of tokens:  *)
(* the separators the parser looks for, a letter in either case, a class   *)
(* of extended CSS and a selector that lol_html refuses.                   *)
(***************************************************************************)
EXTENDS Naturals, Sequences, SequencesExt, FiniteSetsExt

Tokens == {"@@||", "||", "##", "^", "$", "/", ".", ",", "*", " ", "!", "a", "A", ":has(", "<"}

(* None, and the rules of ParsedRule. *)
NoRule == [kind |-> "none"]

DomainBlock(d) == [kind |-> "domain_block", domain |-> d]

UrlPattern(d, p) == [kind |-> "url_pattern", domain |-> d, path |-> p]

CosmeticGlobal(s) == [kind |-> "cosmetic_global", selector |-> s]

CosmeticDomainScoped(d, s) == [kind |-> "cosmetic_domain_scoped", domain |-> d, selector |-> s]

Exception(d) == [kind |-> "exception", domain |-> d]

Kinds == {"domain_block", "url_pattern", "cosmetic_global", "cosmetic_domain_scoped", "exception"}

-----------------------------------------------------------------------------
(* str::find *)
FirstOf(s, t) == Min({i \in DOMAIN s : s[i] = t})

(* s.split(t).next() *)
Before(s, t) == IF Contains(s, t) THEN SubSeq(s, 1, FirstOf(s, t) - 1) ELSE s

(* trim_end_matches, trim *)
TrimEnd(s, t) == SubSeq(s, 1, Max({0} \cup {i \in DOMAIN s : s[i] # t}))

Trim(s) == Reverse(TrimEnd(Reverse(TrimEnd(s, " ")), " "))

Lower(s) == [i \in DOMAIN s |-> IF s[i] = "A" THEN "a" ELSE s[i]]

(* The domain of a rule, or <<>> for None. *)
normalize_filter_domain(raw) ==
    LET d == Lower(TrimEnd(Trim(raw), ".")) IN
    IF Contains(d, "*") \/ Contains(d, " ") THEN <<>> ELSE d

(* One "^" is stripped; a path makes it an exception for a URL. *)
parse_exception(rest) ==
    LET part == Before(rest, "$")
        stripped == IF part # <<>> /\ Last(part) = "^" THEN Front(part) ELSE part
        d == normalize_filter_domain(stripped)
    IN IF d = <<>> \/ Contains(d, "/") THEN NoRule ELSE Exception(d)

contains_extended_css(selector) == Contains(selector, ":has(")

(* selector.parse::<lol_html::Selector>(), for the one that it refuses. *)
ValidSelector(selector) == ~Contains(selector, "<")

parse_cosmetic(line, idx) ==
    LET domain_part == SubSeq(line, 1, idx - 1)
        selector == SubSeq(line, idx + 1, Len(line))
        d == normalize_filter_domain(Before(domain_part, ","))
    IN IF selector = <<>> \/ contains_extended_css(selector) \/ ~ValidSelector(selector)
         THEN NoRule
         ELSE IF domain_part = <<>>
           THEN CosmeticGlobal(selector)
           ELSE IF d = <<>> THEN NoRule ELSE CosmeticDomainScoped(d, selector)

(* Mutant: the path is not looked at. *)
domain_without_path(rest) ==
    LET d == normalize_filter_domain(TrimEnd(Before(Before(rest, "$"), "/"), "^")) IN
    IF d = <<>> THEN NoRule ELSE DomainBlock(d)

parse_domain_or_url(rest) ==
    LET plain == Before(rest, "$")
        path == TrimEnd(SubSeq(plain, FirstOf(plain, "/"), Len(plain)), "^")
        d == normalize_filter_domain(
               IF Contains(plain, "/") THEN Before(plain, "/") ELSE TrimEnd(plain, "^"))
    IN IF d = <<>>
         THEN NoRule
         ELSE IF ~Contains(plain, "/") \/ path = <<"/">> THEN DomainBlock(d) ELSE UrlPattern(d, path)

IsComment(line) == line # <<>> /\ line[1] = "!"

parse_line(raw) ==
    LET line == Trim(raw) IN
    IF line = <<>> \/ IsComment(line)
      THEN NoRule
      ELSE IF line[1] = "@@||"
        THEN parse_exception(Tail(line))
        ELSE IF Contains(line, "##")
          THEN parse_cosmetic(line, FirstOf(line, "##"))
          ELSE IF line[1] = "||" THEN parse_domain_or_url(Tail(line)) ELSE NoRule

-----------------------------------------------------------------------------
(* parse_filter_list on the lines of a list: its rules in order, and the   *)
(* counts of ParseStats.                                                   *)
parse_filter_list(lines) ==
    LET parsed == [i \in DOMAIN lines |-> parse_line(lines[i])]
        skipped == {i \in DOMAIN lines : parsed[i] = NoRule /\ Trim(lines[i]) # <<>>}
        comments == {i \in skipped : IsComment(Trim(lines[i]))}
    IN [rules |-> SelectSeq(parsed, LAMBDA r : r # NoRule),
        stats |-> [total_lines |-> Len(lines),
                   by_kind |-> [k \in Kinds |-> Cardinality({i \in DOMAIN parsed : parsed[i].kind = k})],
                   skipped_comments |-> Cardinality(comments),
                   skipped_unsupported |-> Cardinality(skipped \ comments)]]

(* aggregate_rules: sorted and deduplicated, so sets. *)
aggregate_rules(results) ==
    LET all == UNION {ToSet(results[i].rules) : i \in DOMAIN results}
        of(k) == {r \in all : r.kind = k}
    IN [block_domains |-> {r.domain : r \in of("domain_block")},
        tracker_script_patterns |-> {r.domain \o r.path : r \in of("url_pattern")},
        cosmetic_selectors |-> {r.selector : r \in of("cosmetic_global")},
        domain_cosmetic_map |-> [d \in {r.domain : r \in of("cosmetic_domain_scoped")} |->
            {r.selector : r \in {x \in of("cosmetic_domain_scoped") : x.domain = d}}],
        exception_domains |-> {r.domain : r \in of("exception")}]
=============================================================================
