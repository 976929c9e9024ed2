---------------------------- MODULE MCBackOffice ----------------------------
(***************************************************************************)
(* BackOffice on small sets: two hands of everything, and a few inputs of  *)
(* each kind, among them the ones that a check in the code is about.       *)
(***************************************************************************)
EXTENDS BackOffice, TLC

\* Delivery reports of one message, in the order a provider would send them.
MCReports == {[type |-> t, key |-> 1] : t \in {"sent", "delivered", "read", "failed"}}

\* Rows of a file: p has a code and changes its details, q has none.
Line(who, coded, details, number, readable) ==
  [who |-> who, coded |-> coded, details |-> details, number |-> number, readable |-> readable]
MCLines == {Line("p", TRUE, 1, "none", TRUE), Line("p", TRUE, 2, "i1", TRUE),
            Line("q", FALSE, 1, "i1", TRUE), Line("q", FALSE, 1, "none", FALSE)}

\* Unregistered SMS words, a foreign-language mail, and legal words of which one version is approved.
Template(level, channel, exact, approved, registered) ==
  [level |-> level, channel |-> channel, exact |-> exact, approved |-> approved,
   registered |-> registered]
MCTemplates == {Template(1, "SMS", TRUE, TRUE, FALSE), Template(1, "EMAIL", FALSE, FALSE, TRUE),
                Template(1, "VOICE", TRUE, FALSE, TRUE), Template(2, "VOICE", TRUE, TRUE, TRUE),
                Template(3, "VOICE", FALSE, FALSE, TRUE), Template(3, "VOICE", FALSE, TRUE, TRUE)}

\* Somebody who may be called, somebody on DND, and who answers mail only; the calendar closes.
Phone(dnd, fresh) == [valid |-> TRUE, dnd |-> dnd, fresh |-> fresh]
Callable == [active |-> TRUE, withdrawn |-> FALSE, suppressed |-> FALSE, calendar |-> "open",
             phones |-> {Phone("CLEAR", TRUE)}, channels |-> {"SMS", "VOICE"}, optedOut |-> {"SMS"},
             email |-> TRUE]
MCPeople == {Callable, [Callable EXCEPT !.withdrawn = TRUE], [Callable EXCEPT !.calendar = "BLACKOUT_DATE"],
             [Callable EXCEPT !.channels = {"SMS", "EMAIL"}],
             [Callable EXCEPT !.phones = {Phone("REGISTERED", TRUE), Phone("CLEAR", FALSE)}]}

\* An ample applicant with an unverified turnover, and one who owes elsewhere.
Form(requested, turnover, years, other, references, gst, verified) ==
  [requested |-> requested, turnover |-> turnover, years |-> years, other |-> other,
   references |-> references, gst |-> gst, verified |-> verified]
MCForms == {Form(500, 24000, 6, 0, 2, "yes", FALSE), Form(100, 9600, 2, 900, 0, "unsaid", TRUE)}
MCBehaviours == {[days |-> -1, kept |-> -1], [days |-> 25, kept |-> 90]}

\* The company that is looked for, and what sources return: two of its name in other places,
\* its number under an odd name, its PAN in another state, and strangers near and far.
Company(name, state, pan, number, address) ==
  [name |-> name, gstin |-> [state |-> state, pan |-> pan, number |-> number], cin |-> "none",
   pan |-> "none", state |-> "none", address |-> address]
MCEntity == Company({"sharma", "steel", "traders"}, "27", "P", "27P1", {"market", "road"})
MCFound == {
    Company({"sharma", "steel", "traders"}, "27", "none", "none", {"station", "lane"}),
    Company({"traders", "sharma", "steel"}, "none", "none", "none", {"market", "road", "east"}),
    Company({"sharma"}, "27", "P", "27P1", {}), Company({"verma"}, "29", "P", "29P1", {}),
    Company({"sharma", "steel", "traders"}, "29", "Q", "29Q1", {"market", "road"}),
    Company({"sharma", "steel"}, "29", "none", "none", {}),
    Company({"sharma", "cloth"}, "27", "Q", "27Q1", {})}

\* No initial value tells two hands, or two papers, apart, and nothing CHOOSEs among them.
Symmetry == Permutations(Hands) \cup Permutations(Papers)
=============================================================================
