--------------------------- MODULE RequestInputs ---------------------------
(***************************************************************************)
(* What the service does with the text of a request: the checks and the     *)
(* origin of a URL, the check of a sitekey, and the stub page, whose widget *)
(* carries sitekey, cdata and action as attributes.                         *)
(*                                                                          *)
(* A text is a sequence of symbols.  A symbol is a character, or a word     *)
(* that no rule looks into, such as "http" or the name of an entity.        *)
(***************************************************************************)
EXTENDS Integers, SequencesExt, FiniteSets

CONSTANTS
    SitekeyMin,  \* the least length of a sitekey
    Symbols,     \* what the texts of a request are made of
    UrlSymbols, UrlLength,    \* what may follow a URL that is asked for
    TextSymbols, TextLength,  \* what cdata and action may be
    None         \* no such text

ASSUME InputAssumption ==
    /\ SitekeyMin \in Nat
    /\ UrlLength \in Nat
    /\ TextLength \in Nat

Delimiters == {"/", "?", "#"}

(* The part of s before the first symbol of D. *)
Before(s, D) == SubSeq(s, 1, SelectInSeq(s \o <<CHOOSE d \in D : TRUE>>, LAMBDA x : x \in D) - 1)

(* Where "://" stands in a URL, and the part behind the first of them.      *)
SchemeEnds(url) ==
    {i \in 1 .. Len(url) - 2 : url[i] = ":" /\ url[i + 1] = "/" /\ url[i + 2] = "/"}
Rest(url) == SubSeq(url, Min(SchemeEnds(url)) + 3, Len(url))

Quote == "\""
Semicolon == ";"

(* A character as HTML refers to it by name. *)
Reference(name) == <<"&", name, Semicolon>>

Replace(s, x, t) == FlattenSeq([i \in DOMAIN s |-> IF s[i] = x THEN t ELSE <<s[i]>>])

-----------------------------------------------------------------------------
(* Forms of the operators below with a plausible bug; nothing uses them.    *)
(* They show which property would notice the bug.                           *)

EscapeAmpersandLast(s) ==
    Replace(Replace(Replace(Replace(Replace(s,
        "<", Reference("lt")), ">", Reference("gt")),
        Quote, Reference("quot")), "'", Reference("#39")),
        "&", Reference("amp"))

OriginUpToPath(url) ==
    LET authority == Before(Rest(url), {"/"}) IN
    IF SchemeEnds(url) = {} \/ authority = <<>> THEN None
    ELSE SubSeq(url, 1, Min(SchemeEnds(url)) + 2) \o authority

-----------------------------------------------------------------------------
EscapeHtml(s) ==
    Replace(Replace(Replace(Replace(Replace(s,
        "&", Reference("amp")),
        "<", Reference("lt")), ">", Reference("gt")),
        Quote, Reference("quot")), "'", Reference("#39"))

Attribute(name, value) == <<" ", name, "=", Quote>> \o EscapeHtml(value) \o <<Quote>>

(* An attribute without a value is left out. *)
OptionalAttribute(name, value) == IF value = None THEN <<>> ELSE Attribute(name, value)

(* The tag of the widget. *)
Widget(sitekey, cdata, action) ==
    Attribute("data-sitekey", sitekey)
        \o OptionalAttribute("data-cdata", cdata)
        \o OptionalAttribute("data-action", action)

ValidSitekey(sitekey) ==
    /\ Len(sitekey) >= SitekeyMin
    /\ sitekey # <<>>
    /\ \A i \in DOMAIN sitekey : sitekey[i] \in {"x", "_", "-"}

ValidUrl(url) == \E scheme \in {"http", "https"} : IsPrefix(<<scheme, ":", "/", "/">>, url)

(* The URL is split at the first "://", and what is behind it at the first  *)
(* delimiter.                                                               *)
OriginOf(url) ==
    LET authority == Before(Rest(url), Delimiters) IN
    IF SchemeEnds(url) = {} \/ authority = <<>> THEN None
    ELSE SubSeq(url, 1, Min(SchemeEnds(url)) + 2) \o authority

-----------------------------------------------------------------------------
(* What a browser makes of the text of an attribute: the entities it knows  *)
(* stand for a symbol each, and everything else for itself.                 *)
Entity == [name \in {"amp", "lt", "gt", "quot", "#39"} |->
    IF name = "amp" THEN "&"
    ELSE IF name = "lt" THEN "<"
    ELSE IF name = "gt" THEN ">"
    ELSE IF name = "quot" THEN Quote
    ELSE "'"]

EntityAt(s, i) ==
    i \in 1 .. Len(s) - 2 /\ s[i] = "&" /\ s[i + 1] \in DOMAIN Entity /\ s[i + 2] = Semicolon

Unescape(s) ==
    FlattenSeq([i \in 1 .. Len(s) |->
        IF EntityAt(s, i) THEN <<Entity[s[i + 1]]>>
        ELSE IF EntityAt(s, i - 1) \/ EntityAt(s, i - 2) THEN <<>>
        ELSE <<s[i]>>])

(* ... and of a tag: a quote opens a value when an even number of them came *)
(* before it, and the next one closes it.                                   *)
Quotes(tag) == {i \in 1 .. Len(tag) : tag[i] = Quote}
Opening(tag) == {i \in Quotes(tag) : Cardinality({j \in Quotes(tag) : j < i}) % 2 = 0}

AttributeAt(tag, i) ==
    [name |-> tag[i - 2],
     value |-> Unescape(Before(SubSeq(tag, i + 1, Len(tag)), {Quote}))]

Attributes(tag) == {AttributeAt(tag, i) : i \in Opening(tag)}

Texts == SeqOf(TextSymbols, TextLength)
Tails == SeqOf(UrlSymbols, UrlLength)

Sent(name, value) == IF value = None THEN {} ELSE {[name |-> name, value |-> value]}

(* The browser finds in the widget what the client has sent, and nothing    *)
(* else: no value ends its attribute, and none is escaped twice.            *)
WidgetKeeps(sitekey, cdata, action) ==
    Attributes(Widget(sitekey, cdata, action)) =
        Sent("data-sitekey", sitekey) \cup Sent("data-cdata", cdata) \cup Sent("data-action", action)

(* The origin of a URL is all of it up to the path, the query or the        *)
(* fragment, whichever comes first behind the scheme: no more, because none *)
(* of them is in its host, and no less, because one follows it.  It is its  *)
(* own origin, and passes for a URL if the URL does.                        *)
OriginFits(url) ==
    LET origin == OriginOf(url) IN
    origin # None =>
        /\ IsPrefix(origin, url)
        /\ OriginOf(origin) = origin
        /\ ToSet(Rest(origin)) \cap Delimiters = {}
        /\ origin = url \/ url[Len(origin) + 1] \in Delimiters
        /\ ValidUrl(url) => ValidUrl(origin)
=============================================================================
