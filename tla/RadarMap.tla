------------------------------ MODULE RadarMap ------------------------------
(***************************************************************************)
(* The interactive map feeder (apis/interactive-map-feeder-api): it fetches *)
(* the radar composite of the current five minutes, and answers with the    *)
(* colour of each city for an LED map, or with a picture that stacks the    *)
(* layers of the map and a dot per city.                                    *)
(*                                                                          *)
(* Degrees are in ten-thousandths, kilometres in tenths, the samples of an  *)
(* image in the flat sequence sharp decodes it to.  The weather service,    *)
(* sharp and the rounding of @radoslavirha/utils are external.              *)
(***************************************************************************)
EXTENDS Absence, Integers, Sequences, FiniteSets, FiniteSetsExt

CONSTANTS
    Grids,      \* the pictures a composite may show: pixel |-> samples
    Sizes,      \* of the surface layer, <<width, height>>
    Radii,      \* a query may ask for, None for the default
    KmWide, KmHigh,   \* of the bounding box (GeoUtils, external)
    MaxMinute

\* A picture has a pixel in every row of every column, each of as many samples; the
\* surface layer has room for a city at its edges.
Pictures(width, height, channels) == [(0..width - 1) \X (0..height - 1) -> [1..channels -> Nat]]

ASSUME MapAssumption ==
    /\ MaxMinute \in Nat /\ KmWide \in Nat \ {0} /\ KmHigh \in Nat \ {0}
    /\ None \notin Int /\ Radii \subseteq Int \cup {None}
    /\ \A grid \in Grids : \E width, height \in 1..Cardinality(DOMAIN grid), channels \in 1..Len(grid[<<0, 0>>]) :
          grid \in Pictures(width, height, channels)
    /\ \A size \in Sizes : size \in Nat \X Nat /\ size[1] >= 3 /\ size[2] >= 4

VARIABLES
    minute,      \* the clock
    published,   \* slot of five minutes |-> the composite the service offers, or None
    query,       \* what was asked: kind, radius, the slot of the composite
    stage,       \* "idle", the layer being fetched, "answered", "failed"
    surface,     \* the size of the surface layer
    cities, dots \* the answer

mapVars == <<minute, published, query, stage, surface, cities, dots>>

-----------------------------------------------------------------------------
\* CITIES, in the order of the LEDs: <<latitude, longitude>>.
Cities0To23 == <<
    <<507727, 142129>>, <<507664, 150544>>, <<507222, 151704>>, <<506612, 140532>>,
    <<506786, 145398>>, <<506053, 153282>>, <<506446, 138354>>, <<505655, 159092>>,
    <<505385, 141306>>, <<505017, 136330>>, <<504636, 134108>>, <<504354, 153611>>,
    <<504147, 161657>>, <<504135, 149085>>, <<503540, 144819>>, <<503541, 138035>>,
    <<502320, 128721>>, <<502247, 171981>>, <<502105, 158253>>, <<501746, 126600>>,
    <<501857, 150438>>, <<501661, 162778>>, <<501473, 141029>>, <<501062, 137398>>>>

Cities24To47 == <<
    <<500796, 123700>>, <<499883, 174638>>, <<500756, 144379>>, <<500344, 157813>>,
    <<500274, 152028>>, <<499723, 163998>>, <<499408, 178949>>, <<499779, 169719>>,
    <<499673, 140864>>, <<499525, 152688>>, <<499498, 157952>>, <<498568, 185433>>,
    <<498210, 182626>>, <<497953, 126337>>, <<497553, 164693>>, <<497816, 146870>>,
    <<497385, 133737>>, <<497382, 135930>>, <<496820, 183674>>, <<496855, 139990>>,
    <<495944, 180136>>, <<495939, 172510>>, <<496044, 155798>>, <<495643, 159395>>>>

Cities48To71 == <<
    <<494566, 174503>>, <<494725, 171069>>, <<494398, 129312>>, <<494307, 152231>>,
    <<494131, 146776>>, <<494159, 155955>>, <<493957, 132952>>, <<493650, 166479>>,
    <<493390, 179940>>, <<492918, 173995>>, <<493036, 141581>>, <<492776, 169962>>,
    <<492605, 139104>>, <<492245, 176629>>, <<492149, 158797>>, <<491952, 166069>>,
    <<491446, 150062>>, <<490599, 174960>>, <<490110, 140001>>, <<489758, 144804>>,
    <<488576, 171240>>, <<488560, 160544>>, <<488128, 143176>>, <<487532, 168826>>>>

Cities == Cities0To23 \o Cities24To47 \o Cities48To71

bbox == [top |-> 521670, left |-> 112670, bottom |-> 481000, right |-> 207700]

\* The nearest integer to a / b, halves upwards.
Round(a, b) == (2 * a + b) \div (2 * b)

\* getPositionOnImage.
Position(city, width, height) ==
    <<Round(width * (city[2] - bbox.left), bbox.right - bbox.left),
      Round(height * (bbox.top - city[1]), bbox.top - bbox.bottom)>>

\* calculatePixelFromKilometers: the mean of both resolutions.
PixelsFromKilometers(radius, width, height) ==
    Round(radius * (width * KmHigh + height * KmWide), 20 * KmWide * KmHigh)

-----------------------------------------------------------------------------
\* sharp: the width, height, channels and samples of a picture, row after row.
Widths(grid) == {p[1] : p \in DOMAIN grid}
Decoded(grid) ==
    LET width == Cardinality(Widths(grid))
        channels == Len(grid[<<0, 0>>])
        pixel(k) == grid[<<(k \div channels) % width, (k \div channels) \div width>>]
    IN  [width |-> width, height |-> Cardinality(DOMAIN grid) \div width, channels |-> channels,
         data |-> [k \in 1..channels * Cardinality(DOMAIN grid) |-> pixel(k - 1)[((k - 1) % channels) + 1]]]

Smaller(a, b) == IF a < b THEN a ELSE b
Larger(a, b) == IF a > b THEN a ELSE b

\* Mutant: the row below the image is read as well.
PixelsPastTheEnd(position, image, radius) ==
    (Larger(0, position[1] - radius)..Smaller(image.width - 1, position[1] + radius))
        \X (Larger(0, position[2] - radius)..Smaller(image.height, position[2] + radius))

\* getPixelsWithRadius: the square around a position, cut off at the edges.
PixelsWithRadius(position, image, radius) ==
    (Larger(0, position[1] - radius)..Smaller(image.width - 1, position[1] + radius))
        \X (Larger(0, position[2] - radius)..Smaller(image.height - 1, position[2] + radius))

\* One channel of a pixel; a sample past the end is undefined and spoils the mean.
Sample(image, pixel, channel) ==
    LET index == (pixel[2] * image.width + pixel[1]) * image.channels + channel
    IN  IF index \in DOMAIN image.data THEN image.data[index] ELSE None

\* getRGBAOnCoordinates, of which a city keeps red, green and blue: the mean of
\* each channel, None for the mean of nothing.
Color(city, image, radius) ==
    LET km == IF radius = None THEN 25 ELSE radius
        pixels == PixelsWithRadius(Position(city, image.width, image.height), image,
                                   PixelsFromKilometers(km, image.width, image.height))
        Mean(channel) ==
            IF pixels = {} \/ \E p \in pixels : Sample(image, p, channel) = None
            THEN None
            ELSE Round(MapThenSumSet(LAMBDA p : Sample(image, p, channel), pixels), Cardinality(pixels))
    IN  [channel \in 1..3 |-> Mean(channel)]

\* getPixelsWithRadius throws where a sampled image has not four channels.
Unreadable(image, radius) ==
    /\ image.channels # 4
    /\ \E k \in DOMAIN Cities :
          PixelsWithRadius(Position(Cities[k], image.width, image.height), image,
                           PixelsFromKilometers(IF radius = None THEN 25 ELSE radius, image.width, image.height)) # {}

\* getCityPixelOffset: a quarter of a per cent of the smaller side, halved.
CityPixelOffset(width, height) == Round(Smaller(width, height), 400) \div 2

\* createCitiesImage: the pixels it paints red.
CitiesImage(width, height) ==
    LET offset == CityPixelOffset(width, height)
        Dot(city) == LET p == Position(city, width, height)
                     IN  ((p[1] - offset)..(p[1] + offset)) \X ((p[2] - offset)..(p[2] + offset))
    IN  (UNION {Dot(Cities[k]) : k \in DOMAIN Cities}) \cap ((0..width - 1) \X (0..height - 1))

-----------------------------------------------------------------------------
MapInit ==
    /\ minute = 0 /\ published \in [0..MaxMinute \div 5 -> {None}]
    /\ query = None /\ stage = "idle" /\ surface = None /\ cities = <<>> /\ dots = {}

\* The clock, and a service that publishes a composite when it is ready.
Minute ==
    /\ minute < MaxMinute /\ minute' = minute + 1
    /\ UNCHANGED <<published, query, stage, surface, cities, dots>>

Publish ==
    /\ \E slot \in 0..minute \div 5, grid \in Grids :
          published[slot] = None /\ published' = [published EXCEPT ![slot] = grid]
    /\ UNCHANGED <<minute, query, stage, surface, cities, dots>>

\* getCurrentDate: the minutes of now, floored to five.
CurrentDate == minute \div 5

\* A request for the colours or the picture; both fetch the composite first.
Ask ==
    /\ stage \in {"idle", "answered", "failed"}
    /\ \E kind \in {"cities", "image"}, radius \in Radii :
          query' = [kind |-> kind, radius |-> IF kind = "cities" THEN radius ELSE None, slot |-> CurrentDate, at |-> minute]
    /\ stage' = "radar" /\ surface' = None /\ cities' = <<>> /\ dots' = {}
    /\ UNCHANGED <<minute, published>>

\* A composite that is not there is a 404 of the service, and any fetch may fail.
Fails ==
    /\ stage \in {"radar", "surface", "names", "borders"}
    /\ stage' = "failed"
    /\ UNCHANGED <<minute, published, query, surface, cities, dots>>

\* getCitiesFromRadar, from the composite on.
CitiesFromRadar ==
    /\ stage = "radar" /\ query.kind = "cities" /\ published[query.slot] # None
    /\ LET image == Decoded(published[query.slot])
       IN  IF Unreadable(image, query.radius)
           THEN stage' = "failed" /\ UNCHANGED cities
           ELSE stage' = "answered" /\ cities' = [k \in DOMAIN Cities |-> Color(Cities[k], image, query.radius)]
    /\ UNCHANGED <<minute, published, query, surface, dots>>

\* getCurrentRadarImage: one layer after the other, then all of them are resized
\* to the surface and stacked, the dots on top.
Layer ==
    /\ query # None /\ query.kind = "image"
    /\ \/ stage = "radar" /\ published[query.slot] # None /\ stage' = "surface" /\ UNCHANGED surface
       \/ stage = "surface" /\ surface' \in Sizes /\ stage' = "names"
       \/ stage = "names" /\ stage' = "borders" /\ UNCHANGED surface
    /\ UNCHANGED <<minute, published, query, cities, dots>>

Composite ==
    /\ stage = "borders" /\ stage' = "answered"
    /\ dots' = CitiesImage(surface[1], surface[2])
    /\ UNCHANGED <<minute, published, query, surface, cities>>

MapNext == Minute \/ Publish \/ Ask \/ Fails \/ CitiesFromRadar \/ Layer \/ Composite

MapSpec == MapInit /\ [][MapNext]_mapVars

-----------------------------------------------------------------------------
\* What a city's colour is judged by: the picture itself, seen from the city.
Near(grid, city, radius) ==
    LET side(k) == Cardinality({p[k] : p \in DOMAIN grid})
        at == Position(city, side(1), side(2))
        reach == PixelsFromKilometers(IF radius = None THEN 25 ELSE radius, side(1), side(2))
    IN  {p \in DOMAIN grid : \A k \in 1..2 : p[k] - at[k] \in (-reach)..reach}

\* An LED tells the weather of its own city at the time of the request: each
\* channel lies between the least and the greatest near the city on the
\* composite of the five minutes in which it was asked for, at any edge of the
\* image; and it tells no colour only where nothing is near
\* (RasterService.getRGBAOnCoordinates, getPixelsWithRadius).
ColorsTellTheRadar ==
    stage = "answered" /\ query.kind = "cities" =>
        LET grid == published[query.at \div 5]
        IN  /\ Len(cities) = Len(Cities)
            /\ \A k \in DOMAIN cities, channel \in 1..3 :
                  LET near == {grid[p][channel] : p \in Near(grid, Cities[k], query.radius)}
                  IN  IF near = {} THEN cities[k][channel] = None
                      ELSE /\ cities[k][channel] # None
                           /\ \E low, high \in near : cities[k][channel] \in low..high

\* A picture answered carries a dot for every city of the list, half a pixel and
\* the size of a dot away from the city at most (compared in degrees), and not
\* more red than that (RasterService.createCitiesImage).
DotsMarkTheirCities ==
    stage = "answered" /\ query.kind = "image" =>
        LET side == 2 * CityPixelOffset(surface[1], surface[2]) + 1
            wide == bbox.right - bbox.left
            high == bbox.top - bbox.bottom
            Marks(p, city) ==
                /\ 2 * (p[1] * wide - surface[1] * (city[2] - bbox.left)) \in (-(side * wide))..(side * wide)
                /\ 2 * (p[2] * high - surface[2] * (bbox.top - city[1])) \in (-(side * high))..(side * high)
        IN  /\ \A k \in DOMAIN Cities : \E p \in dots : Marks(p, Cities[k])
            /\ Cardinality(dots) <= side * side * Len(Cities)

\* Both answers: the colours tell the weather, the picture marks the cities.
MapTellsTheRadar == ColorsTellTheRadar /\ DotsMarkTheirCities
=============================================================================
