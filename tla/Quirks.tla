-------------------------------- MODULE Quirks --------------------------------
(***************************************************************************)
(* The rewriting of texts in app/services/post_status_service.rb: every    *)
(* account may have a list of regular expressions and a list of what to    *)
(* put for each match (the quirks).  Mentions, links, names of emoji and   *)
(* what is in brackets are spared: they are swapped for a placeholder      *)
(* before each rule and put back after it.                                 *)
(*                                                                         *)
(* A text is a sequence of tokens: the exceptions, which match the         *)
(* expression in line 120 as a whole, and others.  A rule's expression     *)
(* matches some tokens, or the end of the text.                            *)
(***************************************************************************)
EXTENDS Naturals, Sequences, SequencesExt

CONSTANT Exceptions

HOLD == "HOLD"

\* Columns that are NULL until the profile is saved
Unset == [quirk |-> "null", regex |-> "null"]

\* String#sub: the first one only
Sub(text, old, new) == ReplaceFirstSubSeq(<<new>>, <<old>>, text)

SafeHold(text, list) ==
  LET hold(t, term) == Sub(t, term, HOLD) IN FoldLeft(hold, text, list)

\* Variant: put back from the last one
SafeReturnFromLast(text, list) ==
  LET return(t, term) == Sub(t, HOLD, term) IN FoldLeft(return, text, Reverse(list))

SafeReturn(text, list) ==
  LET return(t, term) == Sub(t, HOLD, term) IN FoldLeft(return, text, list)

Scan(text) ==
  FlattenSeq([i \in DOMAIN text |-> IF text[i] \in Exceptions THEN <<text[i]>> ELSE <<>>])

Replaced(text, regex, quirk, matches) ==
  FlattenSeq([i \in DOMAIN text |-> IF text[i] \in matches THEN quirk ELSE <<text[i]>>])
  \o (IF regex.atEnd THEN quirk ELSE <<>>)

Gsub(text, regex, quirk) == Replaced(text, regex, quirk, regex.matches)

Rule(text, regex, quirk) ==
  LET exceptions == Scan(text) IN
  SafeReturn(Gsub(SafeHold(text, exceptions), regex, quirk), exceptions)

\* Rules are applied one after the other, if there is a quirk for each
QuirkifyText(account, text) ==
  LET rule(t, i) == Rule(t, account.regexes[i], account.quirks[i]) IN
  IF Len(account.quirks) # Len(account.regexes) THEN text
  ELSE FoldLeftDomain(rule, text, account.quirks)

-----------------------------------------------------------------------------
(* What is meant: each rule replaces what it matches but exceptions *)

Meant(account, text) ==
  LET rule(t, i) == Replaced(t, account.regexes[i], account.quirks[i],
                             account.regexes[i].matches \ Exceptions)
  IN
  IF Len(account.quirks) # Len(account.regexes) THEN text
  ELSE FoldLeftDomain(rule, text, account.quirks)

\* The placeholder is nobody's business
LeavesHold(account) ==
  /\ \A i \in DOMAIN account.regexes : HOLD \notin account.regexes[i].matches
  /\ \A i \in DOMAIN account.quirks : HOLD \notin ToSet(account.quirks[i])
=============================================================================
