------------------------------- MODULE MCBwt -------------------------------
(* Three byte values.  All short texts, and long ones whose reduced texts    *)
(* take every memory layout and every way of sorting at two levels of the    *)
(* recursion.                                                                *)
EXTENDS Bwt

Digits(s) == [x \in 1..Len(s) |-> CHOOSE d \in 0..2 : SubSeq(s, x, x) = SubSeq("012", d + 1, d + 1)]

MCTexts == UNION {[1..len -> 0..2] : len \in 2..6} \cup {Digits(s) : s \in
  {
    "2020202", "202020", "002010111002010111",
    "01022120111121201111212011112120", "01110110022011101100220111011002",
    "1212002022002022002022", "011112120021200201", "02020202",
    "01020102010201020", "120212021202120", "01202002202002202002202",
    "011001011001011001011", "0102010201020", "20212021212",
    "20111010201020102", "21202120102", "01010200201010",
    "0201120102010201020", "202010110101101011", "20220202201022",
    "202010201020102", "2010201020102", "20201020102",
    "21212001200200010110001121200112120010201011121200112120010201",
    "020111010010212122002001020110022021201112212",
    "20220202202202020220211202112",
    "01121201121201121200202201121200202201121200202201121200",
    "1202001120200102200102200112020010220010220011202001022",
    "20212112021211201002020102002020102002020102",
    "202010110010200202010110010200202", "20110102010110102010110102010110102",
    "2120221202120221202120221202120",
    "202201202201022012022010220120220102201202",
    "0102002121201020021212010200212120102", "2120102002120102002120102",
    "2120212022120212021202120212021202120212",
    "2120212021212021202121121211212002120212", "0102010201020110201020102",
    "21202120212020212021202021202120202120212",
    "0102010220102010220201020102202",
    "01020102020102010202010201212010201020201020121201020102020102012120"
  }}

MCDamaged == UNION {[in : [1..len -> 0..2], idx : 0..len + 1] : len \in 0..5}
=============================================================================
