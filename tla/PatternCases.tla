---------------------------- MODULE PatternCases ----------------------------
(* What patternfuzz matches: patterns, written as the strings they are (a   *)
(* control byte is written @), and the subjects each is tried on; and what  *)
(* the Lua manual says of a pattern before it is tried: whether it is well  *)
(* formed.                                                                  *)
EXTENDS Integers, Sequences, FiniteSets, SequencesExt

CONSTANT MaxK  \* how long the repeated patterns get: 600 in the code

Classes == {"%a", "%c", "%d", "%g", "%l", "%p", "%s", "%u", "%w", "%x",
            "%A", "%C", "%D", "%G", "%L", "%P", "%S", "%U", "%W", "%X"}
MAGIC == {"(", ")", ".", "%", "+", "-", "*", "?", "[", "]", "^", "$"}
QUANTS == {"*", "+", "-", "?"}
SINGLES == {"a", "b", "A", "1", " ", ".", "_", "z"}
PUNCT_ESCAPES == {"%(", "%)", "%.", "%%", "%+", "%-", "%*", "%?", "%[", "%]", "%^", "%$", "%/",
                  "%!", "%@", "%,"}
Each(as, bs) == {a \o b : a \in as, b \in bs}
-----------------------------------------------------------------------------
(* The tiers.                                                               *)
tier0 ==
  Classes \union PUNCT_ESCAPES \union SINGLES \union MAGIC \union Each(Classes \union {".", "a"}, QUANTS)
  \union {"^", "$", "^a", "a$", "^a$", "^$", "^.$", ""}

tier1 ==
  {"[abc]", "[^abc]", "[a-z]", "[A-Z]", "[0-9]", "[a-zA-Z0-9]", "[^a-z]", "[%d]", "[%a]", "[%s]",
   "[^%d]", "[%d_]", "[%a%d]", "[%w_]", "[-a]", "[a-]", "[]a]", "[^]a]", "[]]", "[^]]", "[a-c-e]",
   "[%]]", "[%^]", "[%-]", "[ \t]", "[\\n]", "[@-@]", "[^@]", "[!-~]", "[%l%u]", "[abc%d-]", "[^^]",
   "[$]", "[.]", "[*+?]", "[][]"}
  \union Each({"[abc]", "[^abc]", "[a-z]", "[%d]", "[%w_]"}, QUANTS)
  \union LET twoclass == {"%a", "%d", "%s", "%w", "%p", "."}
         IN Each(Each(twoclass, QUANTS \union {""}), twoclass)
  \union LET quantified == Each({"%a", "%d", "%w", "."}, QUANTS)
         IN Each({"^"}, quantified) \union Each(quantified, {"$"}) \union Each({"^"}, Each(quantified, {"$"}))
  \union {"[%a_][%w_]*", "%a%w*", "%d+%.%d+", "%d-%.%d+", "[+-]?%d+", "%s*%S+%s*", "[%u][%l]+", "%x+",
          "0[xX]%x+", "[abc]+[def]*", "%a*%d*", ".-", ".*", ".+", "a.-b", "a.*b", "a.+b", "a-b"}

tier2 ==
  {"(%a+)", "(%d+)", "(.)", "(.-)", "(.*)", "(%a)(%a)", "(%w+)%s+(%w+)", "(%a+)=(%a+)", "((%a)(%d))",
   "(a(b)c)", "(%d+)%.(%d+)", "()", "()a", "a()", "()a()", "(()a())", "%a+()", "()%a+", "(%a+())",
   "(()%a+)", "()()", "a()b()c", "((a))", "((a)(b))", "(a(b(c)))", "(%a(%d)%a)", "(()(()))", "(%a)%1",
   "(%a+)%1", "(.)%1", "(%w)(%w)%2%1", "(a)(b)%1%2", "(.)(.)%1", "(%a)%1*", "(%a)%1+", "(%a)%1-",
   "(%a)%1?", "%b()", "%b[]", "%b{}", "%b<>", "%baa", "%b\"\"", "%b''", "x%b()y", "(%b())", "%b()%b[]",
   "%f[%a]", "%f[%w]", "%f[%s]", "%f[^%a]", "%f[abc]", "%f[%a]%a+", "%f[%w]%w+%f[%W]", "%f[^%s]",
   "%f[@]", "%f[%d]%d+", "%f[%l]", "^(%a+)", "(%a+)$", "^(%a+)$", "^(%w+)%s+(%w+)$", "^%s*(.-)%s*$",
   "(%a+)%s*=%s*(%a+)", "%((%a+)%)"}

illegal ==
  {"%", "a%", "abc%", "%a%", "(%a)%", "[", "[a", "[abc", "[^", "[^a", "[a-", "[a-z", "[%", "[%a", "[]",
   "[^]", "%b", "%bx", "a%b", "(%b)", "%b(", "%f", "%fa", "%f%a", "%fx", "a%f", "%f(", "(", "((", "(a",
   "(a(b)", "(()", "()(", ")", "%1", "(%a)%2", "%0", "%9", "(a)%9", "(a)(b)%3", "%5", "[a%", "[\\",
   "((a)", "(a))b"}

(* Lengths over MaxK repeat what the shorter ones show of well-formedness.  *)
DEPTH_K == {k \in {1, 8, 31, 32, 33, 50, 100, 150, 198, 199, 200, 201, 250, 400, 600} : k <= MaxK}
Times(unit, k) == LET times[n \in 0 .. k] == IF n = 0 THEN "" ELSE unit \o times[n - 1] IN times[k]
tier_depth ==
  {Times(unit, k) : unit \in {"a*", "a-", "a?", ".-", ".*", "[%a]*", "%a*", "a*b*", "()", "%a", "ab"},
                    k \in DEPTH_K}
  \union {"a+" \o Times("b*", k) : k \in DEPTH_K} \union {"%a+" \o Times(".-", k) : k \in DEPTH_K}
  \union UNION {{Times("(", k) \o "a?" \o Times(")", k), Times("(a?)", k)} : k \in {d \in DEPTH_K : d <= 64}}
  \union UNION {{Times("%f[%a]", k), Times("%b()", k)} : k \in {d \in DEPTH_K : d <= 200}}

_rand_atom ==
  SINGLES \union Classes \union PUNCT_ESCAPES \union QUANTS \union {"(", ")", "()"}
  \union Each({"[", "[^"}, Each(SINGLES \union {"a-z", "0-9", "%d", "%a", "-", "^"}, {"]"}))
  \union {"%b()", "%b[]", "%b{}", "%f[%a]", "%f[%w]", "%f[^%s]"} \union {"^", "$", ".", "%1", "%2"}
tier3(maxatoms) ==
  LET upto[n \in 1 .. maxatoms] == IF n = 1 THEN _rand_atom ELSE upto[n - 1] \union Each(upto[n - 1], _rand_atom)
  IN upto[maxatoms]
-----------------------------------------------------------------------------
(* The subjects; every pattern is tried on each of those of its tier.       *)
FIXED_SUBJECTS ==
  {"", "a", "abc", "aaa", "abcabc", "hello world", "  leading", "trailing  ", "a b c", "a\tb\tc",
   "line1\nline2", "\n\n\n", "ABCdef123", "123-456-789", "key=value;k2=v2", "3.14159", "-42", "+0x1F",
   "UPPER lower", "camelCaseWord", "snake_case_word", "a.b.c.d", "(nested(paren))", "[bracket]stuff",
   "{a,b,c}", "<tag>body</tag>", "%percent%", "a*b+c?d", "^anchor$", "$dollar^caret", "foo123bar456",
   "   ", "@abc@", "a@b", "hi@there", "@@@", "caf@@", "tab\tand space", "word1 word2 word3", "aAbBcC",
   "....", "a---b", "x123y456z", "  spaced out  ", "MixedCASE123!@#", "the quick brown fox", "end.",
   ".start", "aXbXc", "repeat repeat repeat"}
CORE_SUBJECTS ==
  {"", "abc", "aaa", "abcabc", "hello world", "  leading", "123-456", "ABCdef123", "a.b.c",
   "(nested(paren))", "%percent%", "^anchor$", "line1\nline2", "a@b", "@@@", "a b c d e", "aXbXcX",
   "the quick brown fox"}
DEPTH_SUBJECTS == {"", "a", "aaaa", Times("a", 64), Times("ab", 64), "abc def ghi", "(((nested)))", "@"}
random_subject == {Times("(", 24), Times("ab %", 6)}
Subjects(tier) == CASE tier \in {"0", "1", "2"} -> FIXED_SUBJECTS
                    [] tier = "illegal"         -> CORE_SUBJECTS
                    [] tier = "depth"           -> DEPTH_SUBJECTS
                    [] OTHER                    -> CORE_SUBJECTS \union random_subject

(* The driver compares how often gmatch and gsub matched, but it stops      *)
(* gmatch after Guard matches and notes that as one more.                   *)
Guard == 200
Counted(iterations) == IF iterations > Guard THEN Guard + 2 ELSE iterations
CountsAgree(matches) == Counted(matches) = matches
-----------------------------------------------------------------------------
(* The matcher of the manual reads a pattern item by item: what starts at   *)
(* i, and where the next one does; 0 when the item is malformed.            *)
MaxCaptures == 32
At(p, i) == IF i <= Len(p) THEN SubSeq(p, i, i) ELSE ""
SetEnd(p, i) ==
  LET close[j \in i .. Len(p) + 2] ==
        LET k == IF At(p, j) = "%" /\ j < Len(p) THEN j + 2 ELSE j + 1
        IN IF j > Len(p) THEN 0 ELSE IF At(p, k) = "]" THEN k + 1 ELSE close[k]
  IN IF At(p, i + 1) = "^" THEN close[i + 2] ELSE close[i + 1]
Digits == <<"1", "2", "3", "4", "5", "6", "7", "8", "9", "0">>
Item(kind, next) == [kind |-> kind, next |-> next, ref |-> 0]
ItemAt(p, i) ==
  LET c == At(p, i)
      d == At(p, i + 1)
  IN CASE c = "(" /\ d = ")" -> Item("position", i + 2)
       [] c = "(" /\ d # ")" -> Item("open", i + 1)
       [] c = ")"            -> Item("close", i + 1)
       [] c = "["            -> Item("single", SetEnd(p, i))
       [] c = "%" /\ d = ""  -> Item("single", 0)
       [] c = "%" /\ d = "b" -> Item("single", IF i + 3 > Len(p) THEN 0 ELSE i + 4)
       [] c = "%" /\ d = "f" -> Item("single", IF At(p, i + 2) = "[" THEN SetEnd(p, i + 2) ELSE 0)
       [] c = "%" /\ (\E n \in 1 .. 10 : Digits[n] = d) ->
            [kind |-> "ref", next |-> i + 2, ref |-> CHOOSE n \in 1 .. 10 : Digits[n] = d]
       [] c = "%" /\ d \notin {"", "b", "f"} /\ (\A n \in 1 .. 10 : Digits[n] # d) -> Item("single", i + 2)
       [] OTHER              -> Item("single", i + 1)

(* Reading p: the place, whether all is well, and the captures so far, TRUE *)
(* for one that is still open.                                              *)
Unread == [at |-> 1, ok |-> TRUE, caps |-> <<>>]
ReadItem(p, r) ==
  LET item == ItemAt(p, r.at)
      opened == {i \in DOMAIN r.caps : r.caps[i]}
      last == CHOOSE i \in opened : \A j \in opened : j <= i
      fits == /\ item.next > 0
              /\ item.kind \in {"open", "position"} => Len(r.caps) < MaxCaptures
              /\ item.kind = "close" => opened # {}
              /\ item.kind = "ref" => item.ref \in DOMAIN r.caps /\ item.ref \notin opened
  IN IF ~fits THEN [r EXCEPT !.ok = FALSE]
     ELSE [at |-> item.next, ok |-> TRUE,
           caps |-> CASE item.kind \in {"open", "position"} -> Append(r.caps, item.kind = "open")
                      [] item.kind = "close" -> [r.caps EXCEPT ![last] = FALSE]
                      [] OTHER -> r.caps]
Reading(p, r) == r.ok /\ r.at <= Len(p)
WellFormed(r) == r.ok /\ \A i \in DOMAIN r.caps : ~r.caps[i]
=============================================================================
