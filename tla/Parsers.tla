------------------------------- MODULE Parsers -------------------------------
(* What is read from bytes and lines that come from outside, for one input *)
(* at a time: a part of a stream, or the lines of a filter list.           *)
EXTENDS StreamParsers, ListParser

ListInput(lines, rule) == [kind |-> "list", lines |-> lines, rule |-> rule]

-----------------------------------------------------------------------------
(* The ways a list may write a rule: in capitals, with a trailing dot,     *)
(* separators, options and blanks.                                         *)

Join(parts) ==
    {FlattenSeq(s) : s \in {t \in [DOMAIN parts -> UNION {parts[i] : i \in DOMAIN parts}] :
                              \A i \in DOMAIN parts : t[i] \in parts[i]}}

Maybe(S) == {<<>>} \cup S

DomainSpellings(d) ==
    LET Upper == [i \in DOMAIN d |-> IF d[i] = "a" THEN "A" ELSE d[i]] IN
    Join(<<{d, Upper}, Maybe({<<".">>})>>)

Options == Maybe({<<"$", "a", "/", "a">>})

Spellings(r) ==
    LET Line(parts) == Join(<<Maybe({<<" ">>})>> \o parts \o <<Maybe({<<" ">>})>>) IN
    CASE r.kind = "domain_block" ->
            Line(<<{<<"||">>}, DomainSpellings(r.domain), Maybe({<<"^">>, <<"^", "^">>, <<"/">>}), Options>>)
      [] r.kind = "url_pattern" ->
            Line(<<{<<"||">>}, DomainSpellings(r.domain), {r.path}, Maybe({<<"^">>}), Options>>)
      [] r.kind = "cosmetic_global" -> Line(<<{<<"##">>}, {r.selector}>>)
      [] r.kind = "cosmetic_domain_scoped" ->
            Line(<<DomainSpellings(r.domain), Maybe({<<",", "a">>}), {<<"##">>}, {r.selector}>>)
      [] r.kind = "exception" ->
            Line(<<{<<"@@||">>}, DomainSpellings(r.domain), Maybe({<<"^">>}), Options>>)

(* In front of its options the line has the mark and the name d, and       *)
(* nothing else but what ends a name: no path and no longer name.          *)
NamesAllOf(raw, mark, d) ==
    LET line == Trim(raw)
        plain == Lower(Trim(Before(Tail(line), "$")))
    IN /\ line # <<>>
       /\ line[1] = mark
       /\ IsPrefix(d, plain)
       /\ \A i \in (Len(d) + 1)..Len(plain) : plain[i] \in {".", "^", "/", " "}

-----------------------------------------------------------------------------
(* Properties *)

(* A rule is read back from each of its spellings. A list blocks a whole   *)
(* domain, or exempts it, only where the part of a blocking line, or of an *)
(* exception, in front of its options names all of that domain: no path,   *)
(* no longer name and no line of the other kind does. parse_domain_or_url  *)
(* and parse_exception drop the options themselves, so a line that they    *)
(* restrict counts without the restriction. The statistics account for     *)
(* every line.                                                             *)
ListRead ==
    input.kind = "list" =>
        LET result == parse_filter_list(input.lines)
            all == aggregate_rules(<<result>>)
            stats == result.stats
            blank == Cardinality({i \in DOMAIN input.lines : Trim(input.lines[i]) = <<>>})
        IN /\ input.rule # NoRule => result.rules = <<input.rule>>
           /\ \A d \in all.block_domains :
                 \E i \in DOMAIN input.lines : NamesAllOf(input.lines[i], "||", d)
           /\ \A d \in all.exception_domains :
                 \E i \in DOMAIN input.lines : NamesAllOf(input.lines[i], "@@||", d)
           /\ stats.total_lines = Len(result.rules) + stats.skipped_comments
                                    + stats.skipped_unsupported + blank
           /\ Len(result.rules) = MapThenSumSet(LAMBDA k : stats.by_kind[k], Kinds)
=============================================================================
