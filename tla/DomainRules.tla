---------------------------- MODULE DomainRules ----------------------------
(***************************************************************************)
(* The table of domain rules of option -G (src/main.c: trim_ascii_space,    *)
(* normalize_domain, nspconf_add_direct_domain, nspconf_domain_matches).    *)
(* Rules and names are sequences of characters: the code compares suffixes  *)
(* of strings, the option is documented in terms of domains, and the        *)
(* property below relates the two.  The array that holds the rules grows as *)
(* the one of the module CidrRules does, and is a plain sequence here.      *)
(***************************************************************************)
EXTENDS Integers, Sequences, FiniteSets, SequencesExt

CONSTANTS
  RuleTexts,  \* lines of the file
  Names,      \* names in DNS questions, as dns_read_name() writes them
  MaxLines    \* bound: different lines read

VARIABLES domains,  \* direct_domains[0 .. direct_domain_count - 1]
          lines     \* the lines read so far

vars == <<domains, lines>>

Init == domains = <<>> /\ lines = {}

-----------------------------------------------------------------------------
\* The text without its last characters that are in S, or without its first.
TrimEnd(t, S) ==
  SubSeq(t, 1, SelectLastInSeq(t, LAMBDA ch : ch \notin S))

trim_ascii_space(t) ==
  LET u == TrimEnd(t, {" "})
  IN IF u = <<>> THEN u ELSE SubSeq(u, SelectInSeq(u, LAMBDA ch : ch # " "), Len(u))

Lower(ch) == IF ch = "A" THEN "a" ELSE ch

\* A leading '=' is no letter, so that skipping it changes nothing.
normalize_domain(t) == TrimEnd([i \in DOMAIN t |-> Lower(t[i])], {"."})

TrimFirst(t) == normalize_domain(trim_ascii_space(t))

nspconf_add_direct_domain(t) ==
  LET trimmed == TrimFirst(t)
  IN /\ Cardinality(lines) < MaxLines
     /\ domains' = IF trimmed \in {<<>>, <<"=">>} \/ Contains(domains, trimmed)
                   THEN domains
                   ELSE Append(domains, trimmed)
     /\ lines' = lines \cup {t}

-----------------------------------------------------------------------------
\* Mutant of EndsAfterDot: the suffix may start inside a label.
EndsOnly(name, suffix) ==
  /\ Len(name) > Len(suffix)
  /\ SubSeq(name, Len(name) - Len(suffix) + 1, Len(name)) = suffix

\* strcmp() of the end of name with suffix, and the character before it.
EndsAfterDot(name, suffix) ==
  /\ Len(name) > Len(suffix)
  /\ SubSeq(name, Len(name) - Len(suffix) + 1, Len(name)) = suffix
  /\ name[Len(name) - Len(suffix)] = "."

RuleMatches(rule, name) ==
  IF rule[1] = "=" THEN name = Tail(rule)
  ELSE IF Len(rule) > 1 /\ rule[1] = "*" /\ rule[2] = "."
  THEN EndsAfterDot(name, SubSeq(rule, 3, Len(rule)))
  ELSE name = rule \/ EndsAfterDot(name, rule)

nspconf_domain_matches(domain) ==
  \E i \in DOMAIN domains : RuleMatches(domains[i], normalize_domain(domain))

-----------------------------------------------------------------------------
\* load_direct_domains_file(), line by line; a comment is cut off before.
Next == \E t \in RuleTexts : nspconf_add_direct_domain(t)

Spec == Init /\ [][Next]_vars

-----------------------------------------------------------------------------
(* Properties *)

\* The labels of a domain name, from the left.
LabelsOf(t) ==
  LET dots == {i \in DOMAIN t : t[i] = "."} \cup {0, Len(t) + 1}
      ends == SetToSortSeq(dots, <)
  IN [k \in 1 .. Len(ends) - 1 |-> SubSeq(t, ends[k] + 1, ends[k + 1] - 1)]

\* What a line of the file says of a name in lower case without a final dot.
Covers(line, name) ==
  LET rule == normalize_domain(trim_ascii_space(line))
      labels == LabelsOf(name)
  IN CASE rule \in {<<>>, <<"=">>} -> FALSE
       [] rule # <<>> /\ rule[1] = "=" -> labels = LabelsOf(Tail(rule))
       [] Len(rule) > 1 /\ SubSeq(rule, 1, 2) = <<"*", ".">> ->
            IsStrictSuffix(LabelsOf(SubSeq(rule, 3, Len(rule))), labels)
       [] OTHER -> IsSuffix(LabelsOf(rule), labels)

\* nspconf_domain_matches() finds a name exactly when a line read so far covers it
\* label by label: the domain itself and its subdomains, only the domain after
\* '=', only the subdomains after '*.'; duplicates, blanks, case and final dots
\* change nothing.
MatchesByLabel ==
  \A d \in Names :
    nspconf_domain_matches(d) = \E l \in lines : Covers(l, normalize_domain(d))
=============================================================================
