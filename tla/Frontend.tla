------------------------------ MODULE Frontend ------------------------------
(***************************************************************************)
(* The lexer and the parser one after the other, as compileToBytecode and  *)
(* run call them (cangjie_lua.cj 47-66): the whole text becomes tokens     *)
(* first; if that fails there is nothing to parse.                         *)
(***************************************************************************)
EXTENDS Parser, Lexer, TLC, SequencesExt

NameOf(text) == FoldLeft(LAMBDA a, c : a \o c, "", text)
(* How the parser names what the lexer read; it does not look at lines.    *)
TokenTypes == "+" :> "PLUS" @@ "-" :> "MINUS" @@ "*" :> "STAR" @@ "/" :> "SLASH"
  @@ "(" :> "LPAREN" @@ ")" :> "RPAREN" @@ "{" :> "LBRACE" @@ "}" :> "RBRACE"
  @@ "," :> "COMMA" @@ ":" :> "COLON" @@ "=" :> "ASSIGN" @@ "==" :> "EQEQ" @@ "!=" :> "NEQ"
  @@ "<" :> "LT" @@ "<=" :> "LTE" @@ ">" :> "GT" @@ ">=" :> "GTE"
ParserToken(l) ==
  LET type == IF l.t \in DOMAIN TokenTypes THEN TokenTypes[l.t] ELSE l.t
  IN [t |-> type, text |-> IF type \in {"NUMBER", "IDENTIFIER"} THEN NameOf(l.text) ELSE type]

(* Reading a text, or at the point where a text of given tokens was read.  *)
FrontInit ==
  \/ /\ LexInit
     /\ tokens = <<>> /\ pos = 0 /\ error = None /\ outcome = "waiting"
     /\ varTypes = NoTypes /\ functionReturnTypes = NoTypes /\ todo = <<>> /\ vals = <<>>
  \/ /\ Init
     /\ source = <<>> /\ place = 0 /\ line = 1 /\ lexemes = <<>> /\ badLine = 0 /\ reading = "given"

StartParser ==
  /\ reading = "done" /\ outcome = "waiting"
  /\ tokens' = [j \in 1..Len(lexemes) |-> ParserToken(lexemes[j])]
  /\ outcome' = "parsing" /\ todo' = <<Several("program", 0)>>
  /\ UNCHANGED <<pos, error, vals, lexVars>> /\ SameTypes

Read == nextToken /\ UNCHANGED vars
Parse == Next /\ UNCHANGED lexVars
FrontNext == Read \/ StartParser \/ Parse
FrontSpec == FrontInit /\ [][FrontNext]_<<vars, lexVars>>
               /\ WF_<<vars, lexVars>>(FrontNext)

(* Every text is read as its longest lexemes (see Lexer).                  *)
LongestLexemes ==
  outcome = "waiting" =>
    LineOfPlace /\ (reading # "given" /\ (\A j \in 1..Len(source) : source[j] # "NUL") => ReadLongest)

(* Parsing ends, also when errors make it skip tokens or run past the last *)
(* one (parse 87, parseBlock 261, the parameter loop 134); and before it   *)
(* the loop of tokenize (lexer.cj 289).                                    *)
FrontEnds == <>(reading = "failed" \/ outcome \notin {"waiting", "parsing"})
=============================================================================
