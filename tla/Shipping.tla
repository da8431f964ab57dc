------------------------------ MODULE Shipping ------------------------------
(***************************************************************************)
(* ShippingService and ShippingController: countries and cities in MySQL,  *)
(* the rates of methods and weights in MongoDB, and the cost of an order,  *)
(* which is put together from four of them, each read by a call of its     *)
(* own.  Money is counted in whole units.                                  *)
(***************************************************************************)
EXTENDS Requests

CONSTANTS
    Countries, \* bound: countries that may be added
    Cities,    \* bound: cities that may be added
    Places,    \* names of countries and cities
    Loads,     \* weights of the orders that costs are asked for, in kg
    MaxRate    \* bound: the highest rate

ASSUME ShippingAssumption == Loads \in SUBSET Nat /\ MaxRate \in Nat \ {0}

VARIABLES
    country,   \* of each slot: its state, name and rate
    city,      \* of each slot: its state, name and country
    methodRate, safeRate,
    weightRate \* rates of weight categories

shippingVars == <<country, city, methodRate, safeRate, weightRate>>

NoCountry == [state |-> "none", name |-> None, rate |-> 0]
NoCity == [state |-> "none", name |-> None, country |-> None]
DeletedCountry == [NoCountry EXCEPT !.state = "deleted"]
DeletedCity == [NoCity EXCEPT !.state = "deleted"]
Rates == 1..MaxRate

(* The categories determineWeightCategory tells apart, and those that the  *)
(* collection has rates for.                                               *)
WeightCategories == {"light", "standard", "heavy", "very-heavy", "extra-heavy"}
RatedCategories == {"light", "standard", "heavy"}

ShippingSteps ==
    {"country.find", "country.insert", "city.country", "city.find", "city.insert", "cities.list",
     "country.get", "country.save", "city.get", "city.save", "country.destroy", "city.destroy",
     "method.find", "method.save", "weight.find", "weight.save", "cart.find",
     "cost.country", "cost.safe", "cost.weight"}

ShippingArgs ==
    [country : Countries \cup {None}, city : Cities \cup {None}, name : Places \cup {None},
     rate : 0..4 * MaxRate, weight : WeightCategories, safe : BOOLEAN, quote : BOOLEAN]
Blank == [country |-> None, city |-> None, name |-> None, rate |-> 0,
          weight |-> "light", safe |-> FALSE, quote |-> FALSE]

ShippingOK ==
    /\ country \in [Countries -> {NoCountry, DeletedCountry}
                                \cup [state : {"live"}, name : Places, rate : Rates]]
    /\ city \in [Cities -> {NoCity, DeletedCity}
                          \cup [state : {"live"}, name : Places, country : Countries]]
    /\ \A t \in Cities : city[t].state = "live" => country[city[t].country].state = "live"
    /\ methodRate \in Rates /\ safeRate \in Rates
    /\ weightRate \in [RatedCategories -> Rates]

ShippingInit ==
    /\ country = [c \in Countries |-> NoCountry]
    /\ city = [t \in Cities |-> NoCity]
    /\ methodRate = 1 /\ safeRate = 1
    /\ weightRate = [w \in RatedCategories |-> 1]

LiveCountry(c) == country[c].state = "live"
LiveCity(t) == city[t].state = "live"
locations == <<country, city>>
rates == <<methodRate, safeRate, weightRate>>

-----------------------------------------------------------------------------
(* addShippingCountry: findOrCreate on a column that is unique.            *)

Named(n) == \E c \in Countries : LiveCountry(c) /\ country[c].name = n

AddCountry(r, n, rate) ==
    /\ Begin(r, [Blank EXCEPT !.name = n, !.rate = rate], "country.find")
    /\ UNCHANGED shippingVars

AddCountryFind(r) ==
    /\ At(r, "country.find")
    /\ IF Named(arg[r].name) THEN Answer(r, BadRequest) ELSE Goto(r, "country.insert")
    /\ UNCHANGED shippingVars

(* Found after all: the index refuses the row, and findOrCreate looks once *)
(* more.                                                                   *)
AddCountryInsert(r) ==
    /\ At(r, "country.insert")
    /\ \/ Named(arg[r].name) /\ Answer(r, BadRequest) /\ UNCHANGED country
       \/ /\ ~Named(arg[r].name)
          /\ \E c \in Countries :
                /\ country[c] = NoCountry
                /\ country' = [country EXCEPT ![c] =
                      [state |-> "live", name |-> arg[r].name, rate |-> arg[r].rate]]
          /\ WriteAnswerLog(r, Found)
    /\ UNCHANGED <<city, rates>>

-----------------------------------------------------------------------------
(* addCityToCountry: a city's name is taken in whatever country.           *)

AddCity(r, c, n) ==
    /\ Begin(r, [Blank EXCEPT !.country = c, !.name = n], "city.country")
    /\ UNCHANGED shippingVars

AddCityCountry(r) ==
    /\ At(r, "city.country")
    /\ IF LiveCountry(arg[r].country) THEN Goto(r, "city.find") ELSE Answer(r, NotFound)
    /\ UNCHANGED shippingVars

AddCityFind(r) ==
    LET taken == \E t \in Cities : LiveCity(t) /\ city[t].name = arg[r].name IN
    /\ At(r, "city.find")
    /\ IF taken THEN Answer(r, BadRequest) ELSE Goto(r, "city.insert")
    /\ UNCHANGED shippingVars

(* The foreign key refuses a city whose country has gone meanwhile.        *)
AddCityInsert(r) ==
    LET a == arg[r] IN
    /\ At(r, "city.insert")
    /\ \/ ~LiveCountry(a.country) /\ Answer(r, ServerError) /\ UNCHANGED city
       \/ /\ LiveCountry(a.country)
          /\ \E t \in Cities :
                /\ city[t] = NoCity
                /\ city' = [city EXCEPT ![t] =
                      [state |-> "live", name |-> a.name, country |-> a.country]]
          /\ WriteAnswerLog(r, Found)
    /\ UNCHANGED <<country, rates>>

(* getShippingCitiesByCountryId                                            *)
ListCities(r, c) ==
    /\ Begin(r, [Blank EXCEPT !.country = c], "cities.list")
    /\ UNCHANGED shippingVars

ListCitiesAnswer(r) ==
    /\ At(r, "cities.list")
    /\ Answer(r, IF LiveCountry(arg[r].country) THEN Found ELSE NotFound)
    /\ UNCHANGED shippingVars

-----------------------------------------------------------------------------
(* updateShippingCountry and updateShippingCity                            *)

UpdateCountry(r, c, n, rate) ==
    /\ Begin(r, [Blank EXCEPT !.country = c, !.name = n, !.rate = rate], "country.get")
    /\ UNCHANGED shippingVars

UpdateCountryFind(r) ==
    /\ At(r, "country.get")
    /\ IF LiveCountry(arg[r].country) THEN Goto(r, "country.save") ELSE Answer(r, NotFound)
    /\ UNCHANGED shippingVars

(* A name that another country has is refused by the index.                *)
UpdateCountrySave(r) ==
    LET a == arg[r]
        taken == \E c \in Countries \ {a.country} : LiveCountry(c) /\ country[c].name = a.name
    IN
    /\ At(r, "country.save")
    /\ \/ taken /\ Answer(r, ServerError) /\ UNCHANGED country
       \/ /\ ~taken
          /\ country' = IF LiveCountry(a.country)
                        THEN [country EXCEPT ![a.country].name = a.name, ![a.country].rate = a.rate]
                        ELSE country
          /\ WriteAnswerLog(r, Found)
    /\ UNCHANGED <<city, rates>>

UpdateCity(r, t, n) ==
    /\ Begin(r, [Blank EXCEPT !.city = t, !.name = n], "city.get")
    /\ UNCHANGED shippingVars

UpdateCityFind(r) ==
    /\ At(r, "city.get")
    /\ IF LiveCity(arg[r].city) THEN Goto(r, "city.save") ELSE Answer(r, NotFound)
    /\ UNCHANGED shippingVars

UpdateCitySave(r) ==
    LET a == arg[r] IN
    /\ At(r, "city.save")
    /\ city' = IF LiveCity(a.city) THEN [city EXCEPT ![a.city].name = a.name] ELSE city
    /\ WriteAnswerLog(r, Found)
    /\ UNCHANGED <<country, rates>>

-----------------------------------------------------------------------------
(* deleteShippingCountry, whose cities the foreign key deletes with it,    *)
(* and deleteShippingCity.                                                 *)

DeleteCountry(r, c) ==
    /\ Begin(r, [Blank EXCEPT !.country = c], "country.destroy")
    /\ UNCHANGED shippingVars

(* The cities stay: faulty.                                                *)
DeleteCountryAlone(r) ==
    LET c == arg[r].country IN
    /\ At(r, "country.destroy")
    /\ \/ ~LiveCountry(c) /\ Answer(r, NotFound) /\ UNCHANGED country
       \/ /\ LiveCountry(c)
          /\ country' = [country EXCEPT ![c] = DeletedCountry]
          /\ WriteAnswerLog(r, Deleted)
    /\ UNCHANGED <<city, rates>>

DeleteCountryDestroy(r) ==
    LET c == arg[r].country IN
    /\ At(r, "country.destroy")
    /\ \/ ~LiveCountry(c) /\ Answer(r, NotFound) /\ UNCHANGED locations
       \/ /\ LiveCountry(c)
          /\ country' = [country EXCEPT ![c] = DeletedCountry]
          /\ city' = [t \in Cities |-> IF city[t].country = c THEN DeletedCity ELSE city[t]]
          /\ WriteAnswerLog(r, Deleted)
    /\ UNCHANGED rates

DeleteCity(r, t) ==
    /\ Begin(r, [Blank EXCEPT !.city = t], "city.destroy")
    /\ UNCHANGED shippingVars

(* No matter how many rows went: faulty.                                   *)
DeleteCityAnyhow(r) ==
    LET t == arg[r].city IN
    /\ At(r, "city.destroy")
    /\ \/ ~LiveCity(t) /\ AnswerLog(r, Deleted) /\ UNCHANGED city
       \/ /\ LiveCity(t)
          /\ city' = [city EXCEPT ![t] = DeletedCity]
          /\ WriteAnswerLog(r, Deleted)
    /\ UNCHANGED <<country, rates>>

DeleteCityDestroy(r) ==
    LET t == arg[r].city IN
    /\ At(r, "city.destroy")
    /\ \/ ~LiveCity(t) /\ Answer(r, NotFound) /\ UNCHANGED city
       \/ /\ LiveCity(t)
          /\ city' = [city EXCEPT ![t] = DeletedCity]
          /\ WriteAnswerLog(r, Deleted)
    /\ UNCHANGED <<country, rates>>

-----------------------------------------------------------------------------
(* changeShippingMethodRate and changeShippingWeightRate.  A method that   *)
(* the collection does not have is not found, and so is a weight.          *)

ChangeMethod(r, safe, rate) ==
    /\ Begin(r, [Blank EXCEPT !.safe = safe, !.rate = rate], "method.find")
    /\ UNCHANGED shippingVars

ChangeMethodFind(r) ==
    /\ At(r, "method.find")
    /\ Goto(r, "method.save") \/ Answer(r, NotFound)
    /\ UNCHANGED shippingVars

ChangeMethodSave(r) ==
    /\ At(r, "method.save")
    /\ IF arg[r].safe
       THEN safeRate' = arg[r].rate /\ UNCHANGED methodRate
       ELSE methodRate' = arg[r].rate /\ UNCHANGED safeRate
    /\ WriteAnswerLog(r, Found)
    /\ UNCHANGED <<locations, weightRate>>

ChangeWeight(r, w, rate) ==
    /\ Begin(r, [Blank EXCEPT !.weight = w, !.rate = rate], "weight.find")
    /\ UNCHANGED shippingVars

ChangeWeightFind(r) ==
    /\ At(r, "weight.find")
    /\ IF arg[r].weight \in RatedCategories THEN Goto(r, "weight.save") ELSE Answer(r, NotFound)
    /\ UNCHANGED shippingVars

ChangeWeightSave(r) ==
    /\ At(r, "weight.save")
    /\ weightRate' = [weightRate EXCEPT ![arg[r].weight] = arg[r].rate]
    /\ WriteAnswerLog(r, Found)
    /\ UNCHANGED <<locations, methodRate, safeRate>>

-----------------------------------------------------------------------------
(* determineWeightCategory                                                 *)

WeightCategory(load) ==
    CASE load > 100 -> "extra-heavy"
      [] load > 50 /\ load <= 100 -> "very-heavy"
      [] load > 25 /\ load <= 50 -> "heavy"
      [] load > 10 /\ load <= 25 -> "standard"
      [] load <= 10 -> "light"

(* determineWeightCategoryForCart includes the customer without its alias, *)
(* which Sequelize refuses: neither the weight nor the cost of a cart is   *)
(* ever answered, and costs are what the checkout asks for its items.      *)
WeighCart(r) ==
    /\ Begin(r, Blank, "cart.find")
    /\ UNCHANGED shippingVars

WeighCartFind(r) ==
    /\ At(r, "cart.find")
    /\ Answer(r, ServerError)
    /\ UNCHANGED shippingVars

(* What an order costs to ship as the rates are.                           *)
Cost(c, w, safe) ==
    IF LiveCountry(c) /\ w \in RatedCategories
    THEN country[c].rate + methodRate + weightRate[w] + (IF safe THEN safeRate ELSE 0)
    ELSE 0

(* calculateShippingCost: the rates of the country and of the method, of   *)
(* safe shipping, and of the weight.  The method may not be found.         *)
Calculate(r, c, load, safe) ==
    /\ Begin(r, [Blank EXCEPT !.country = c, !.weight = WeightCategory(load), !.safe = safe],
             "cost.country")
    /\ UNCHANGED shippingVars

CostCountry(r) ==
    LET a == arg[r] IN
    /\ At(r, "cost.country")
    /\ \/ /\ LiveCountry(a.country)
          /\ Learn(r, [a EXCEPT !.rate = country[a.country].rate + methodRate],
                   IF a.safe THEN "cost.safe" ELSE "cost.weight")
       \/ Answer(r, NotFound)
    /\ UNCHANGED shippingVars

CostSafe(r) ==
    /\ At(r, "cost.safe")
    /\ Learn(r, [arg[r] EXCEPT !.rate = @ + safeRate], "cost.weight")
    /\ UNCHANGED shippingVars

CostWeight(r) ==
    LET w == arg[r].weight IN
    /\ At(r, "cost.weight")
    /\ IF w \in RatedCategories
       THEN AnswerWith(r, [arg[r] EXCEPT !.rate = @ + weightRate[w], !.quote = TRUE], Found)
       ELSE Answer(r, NotFound)
    /\ UNCHANGED shippingVars

-----------------------------------------------------------------------------
ShippingArrive(r) ==
    \/ \E n \in Places, rate \in Rates : AddCountry(r, n, rate)
    \/ \E c \in Countries :
          \/ DeleteCountry(r, c) \/ ListCities(r, c)
          \/ \E n \in Places : AddCity(r, c, n) \/ \E rate \in Rates : UpdateCountry(r, c, n, rate)
          \/ \E load \in Loads, safe \in BOOLEAN : Calculate(r, c, load, safe)
    \/ \E t \in Cities : DeleteCity(r, t) \/ \E n \in Places : UpdateCity(r, t, n)
    \/ \E rate \in Rates :
          \/ \E safe \in BOOLEAN : ChangeMethod(r, safe, rate)
          \/ \E w \in WeightCategories : ChangeWeight(r, w, rate)
    \/ WeighCart(r)

ShippingContinue(r) ==
    \/ AddCountryFind(r) \/ AddCountryInsert(r)
    \/ AddCityCountry(r) \/ AddCityFind(r) \/ AddCityInsert(r) \/ ListCitiesAnswer(r)
    \/ UpdateCountryFind(r) \/ UpdateCountrySave(r) \/ UpdateCityFind(r) \/ UpdateCitySave(r)
    \/ DeleteCountryDestroy(r) \/ DeleteCityDestroy(r)
    \/ ChangeMethodFind(r) \/ ChangeMethodSave(r) \/ ChangeWeightFind(r) \/ ChangeWeightSave(r)
    \/ WeighCartFind(r) \/ CostCountry(r) \/ CostSafe(r) \/ CostWeight(r)

=============================================================================
