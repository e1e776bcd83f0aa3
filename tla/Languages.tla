----------------------------- MODULE Languages -----------------------------
(***************************************************************************)
(* The language of an answer.  LanguageGuard picks it from the header      *)
(* Accept-Language, and messages that are codes of a dictionary are        *)
(* translated to it; others are left as they are.                          *)
(***************************************************************************)
EXTENDS Integers, Sequences

Supported == {"vi", "en"}
DefaultLanguage == "vi"
Undecided == "undecided"    \* request.language before the guard has run
Verbatim == "verbatim"      \* a message that is not translated

(* A header is a sequence of tags, of which the part before "-" counts,    *)
(* with weights in tenths; `q` may be missing, or not a number.            *)
Absent == -1
NotANumber == -2
Weight(item) ==
    CASE item.q = Absent -> 10 [] item.q = NotANumber -> 0 [] OTHER -> item.q

Tag(primary, q) == [primary |-> primary, q |-> q]

(* Some headers of each kind; an empty one is no header. *)
Headers ==
    {<<>>, <<Tag("fr", Absent)>>,
     <<Tag("vi", Absent), Tag("en", 8)>>, <<Tag("vi", 5), Tag("en", Absent)>>,
     <<Tag("vi", NotANumber), Tag("en", 1)>>, <<Tag("en", 0)>>,
     <<Tag("fr", 10), Tag("en", 7), Tag("vi", 7)>>}

(* resolveLanguage: the first supported one after a stable sort by weight. *)
Resolve(header) ==
    LET known == {i \in DOMAIN header : header[i].primary \in Supported}
        Before(i, j) == \/ Weight(header[i]) > Weight(header[j])
                        \/ Weight(header[i]) = Weight(header[j]) /\ i <= j
    IN  IF known = {} THEN DefaultLanguage
        ELSE header[CHOOSE i \in known : \A j \in known : Before(i, j)].primary

(* What the client prefers: of the languages it weights most the one it    *)
(* names first; Vietnamese, if it names none that is spoken here.          *)
Preferred(header) ==
    LET Heaviest(i) == \A j \in DOMAIN header :
            header[j].primary \in Supported =>
                Weight(header[j]) <= Weight(header[i])
        best == {i \in DOMAIN header :
                   header[i].primary \in Supported /\ Heaviest(i)}
    IN  IF best = {} THEN DefaultLanguage
        ELSE header[CHOOSE i \in best : \A j \in best : i <= j].primary

(* Messages are codes, codes with a detail after ": ", or any other text.  *)
Messages == {"code", "code: detail", "text"}

(* translateMessage: every code has a text in each supported language.     *)
Translated(message, language) ==
    IF message = "text" THEN Verbatim
    ELSE IF language = Undecided THEN DefaultLanguage ELSE language
=============================================================================
