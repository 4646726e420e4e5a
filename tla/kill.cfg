SPECIFICATION FairSpec
CONSTANTS
 a = a
 b = b
 c = c
 x = x
 Thread = {a, b, c}
 Killer = Killer
 Name = {x}
 Nobody = Nobody
 Statement <- MCStatement
 Killable = {"user_lock"}
INVARIANTS CountRight NoLostSignal
PROPERTIES KilledLeaves
