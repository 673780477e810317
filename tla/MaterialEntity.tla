---------------------------- MODULE MaterialEntity ----------------------------
(***************************************************************************)
(* The domain entity Material: what its constructor and update() accept,   *)
(* and the movements of its stock.  Constant operators on the record of an *)
(* entity; Inventory owns the rows.                                        *)
(*                                                                         *)
(* An amount is a number of grains.  Only two facts about amounts matter:  *)
(* which are whole units, and which the column quantity of an estimate     *)
(* item, Decimal(10,3), can hold; the stock itself is a double.  Four      *)
(* grains to the unit and two to the last decimal of that column tell them *)
(* apart.  Of the units of measure the code distinguishes UNIT only.       *)
(***************************************************************************)
EXTENDS Integers

Whole == 4          \* grains of one unit

Resolution == 2     \* grains of the last decimal of an item's quantity

IsWhole(amount) == amount % Whole = 0

MaterialTypes == {"PART", "SUPPLY"}

StockUnits == {"UNIT", "LITER"}

Keep == "undefined"     \* a field the body of a PATCH leaves out

Material == [type : MaterialTypes, unit : StockUnits, stock : Int]

(***************************************************************************)
(* What the constructor accepts, and so what can be loaded: toDomain runs  *)
(* it on every row it reads.                                               *)
(***************************************************************************)
ValidStockQuantity(type, amount) ==
    /\ amount >= 0
    /\ type = "PART" => IsWhole(amount)

ValidTypeAndUnit(type, unit) == type = "PART" => unit = "UNIT"

Constructs(material) ==
    /\ ValidStockQuantity(material.type, material.stock)
    /\ ValidTypeAndUnit(material.type, material.unit)

DefaultMaterial == [type |-> "PART", unit |-> "UNIT", stock |-> 0]

(***************************************************************************)
(* update(props): the given fields replace the old ones, and the result    *)
(* must be valid as a whole.                                               *)
(***************************************************************************)
Given(value, default) == IF value = Keep THEN default ELSE value

\* Mutant: the fields the body leaves out are overwritten too.
UpdatedWithUndefined(material, props) ==
    [type  |-> props.type,
     unit  |-> props.unit,
     stock |-> IF props.stock < 0 THEN material.stock ELSE props.stock]

Updated(material, props) ==
    [type  |-> Given(props.type, material.type),
     unit  |-> Given(props.unit, material.unit),
     stock |-> IF props.stock < 0 THEN material.stock ELSE props.stock]

ValidMovement(material, amount) ==
    /\ amount > 0
    /\ material.type = "PART" => IsWhole(amount)

AddStock(material, amount) == [material EXCEPT !.stock = @ + amount]

CanDecrement(material, amount) ==
    ValidMovement(material, amount) /\ material.stock >= amount

\* What the database keeps of the quantity of an item: rounded to the column's
\* last decimal, half up.
Rounded(amount) == ((amount + Resolution \div 2) \div Resolution) * Resolution
=============================================================================
