------------------------------ MODULE MCModDns ------------------------------
(* ModDns with three names and the answer sections a resolver gives: none, *)
(* an address, an address behind one alias, an address behind two.         *)
EXTENDS ModDns

CONSTANTS a, b, c

A(name, addr) == [type |-> "A", name |-> name, data |-> addr]
CName(name, alias) == [type |-> "CNAME", name |-> name, data |-> alias]

NoAnswers == {<<>>}

OneAlias ==
  {<<A(x, addr)>> : x \in {a, b}, addr \in Addr} \union
  {<<CName(a, b), A(b, addr)>> : addr \in Addr}

TwoAliases == {<<CName(a, b), CName(b, c), A(c, addr)>> : addr \in Addr}

QuerySymmetry == Permutations(QueryId) \union Permutations(Key)
=============================================================================
